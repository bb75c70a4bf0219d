----------------------------- MODULE Events_proofs -----------------------------
(***************************************************************************)
(* Proof that a critical event becomes fatal in time, for any leeways, any  *)
(* widths of the clocks and counters and any intervals between the calls of *)
(* events_tick that the widths allow.                                       *)
(***************************************************************************)
EXTENDS Events, TLAPS

(***************************************************************************)
(* The argument.  What the clock of the events has not yet counted is the   *)
(* time since the last call and less than a decisecond.  So the time that   *)
(* an event has lasted is at most what its accumulator says and what is     *)
(* still to be counted, and events_tick counts all of it but a remainder    *)
(* that is too short to matter.                                             *)
(***************************************************************************)

EventsTypes ==
  /\ level \in [Types -> NONE .. FATAL] /\ highest_level \in NONE .. FATAL
  /\ accumulator \in [Types -> Nat] /\ lasted \in [Types -> Nat]
  /\ now \in 0 .. (MillisLimit - 1) /\ last_tick_at \in 0 .. (MillisLimit - 1)
  /\ gap \in 0 .. MaxGap

\* What the clock of the events is behind by.
Since(a, b) == (a + MillisLimit - b) % MillisLimit
Behind == Since(now, last_tick_at)

ClockFits == Behind \in gap .. (gap + PerDs - 1)

\* A slot has no level but its type's, and the fatal one.
LevelsFit == \A t \in Types : level[t] \in {NONE, TypeLevel[t], FATAL}

LastedFits ==
  \A t \in Types :
    /\ level[t] = NONE => lasted[t] = 0
    /\ level[t] = CRITICAL => lasted[t] <= accumulator[t] * PerDs + Behind

EventsInv == EventsTypes /\ ClockFits /\ LevelsFit /\ LastedFits /\ HighestLevelIsCurrent

-------------------------------------------------------------------------------
(* Levels. *)

LEMMA HighestIs ==
  ASSUME NEW levels \in [Types -> NONE .. FATAL]
  PROVE  /\ HighestOf(levels) \in NONE .. FATAL
         /\ \A t \in Types : levels[t] <= HighestOf(levels)
<1> DEFINE S == {levels[t] : t \in Types} \union {NONE}
<1>1. S \subseteq NONE .. FATAL /\ NONE \in S
  BY DEF NONE, FATAL
<1>2. \E x \in S : \A y \in S : x >= y
  <2>1. CASE 4 \in S
    BY <1>1, <2>1 DEF NONE, FATAL
  <2>2. CASE 4 \notin S /\ 3 \in S
    BY <1>1, <2>2 DEF NONE, FATAL
  <2>3. CASE 4 \notin S /\ 3 \notin S /\ 2 \in S
    BY <1>1, <2>3 DEF NONE, FATAL
  <2>4. CASE 4 \notin S /\ 3 \notin S /\ 2 \notin S /\ 1 \in S
    BY <1>1, <2>4 DEF NONE, FATAL
  <2>5. CASE 4 \notin S /\ 3 \notin S /\ 2 \notin S /\ 1 \notin S
    BY <1>1, <2>5 DEF NONE, FATAL
  <2> QED
    BY <2>1, <2>2, <2>3, <2>4, <2>5
<1>3. HighestOf(levels) \in S /\ \A y \in S : HighestOf(levels) >= y
  <2>1. HighestOf(levels) = CHOOSE x \in S : \A y \in S : x >= y
    BY DEF HighestOf, Max
  <2> QED
    BY <1>2, <2>1
<1>4. \A t \in Types : levels[t] \in S
  OBVIOUS
<1> HIDE DEF S
<1>5. HighestOf(levels) \in NONE .. FATAL
  BY <1>1, <1>3
<1>6. ASSUME NEW t \in Types PROVE levels[t] <= HighestOf(levels)
  <2>1. HighestOf(levels) >= levels[t]
    BY <1>3, <1>4
  <2> QED
    BY <1>5, <2>1 DEF NONE, FATAL
<1> QED
  BY <1>5, <1>6

-------------------------------------------------------------------------------
(* Clocks. *)

LEMMA ModIs ==
  ASSUME NEW n \in Nat \ {0}, NEW a \in 0 .. (n - 1)
  PROVE  a % n = a /\ (a + n) % n = a
OBVIOUS

LEMMA DivIs ==
  ASSUME NEW n \in Nat \ {0}, NEW a \in Nat
  PROVE  /\ a \div n \in Nat /\ (a \div n) * n <= a
         /\ a < (a \div n) * n + n
OBVIOUS

\* A quotient fits where its number is less than the product.
LEMMA QuotientBounded ==
  ASSUME NEW n \in Nat \ {0}, NEW a \in Nat, NEW limit \in Nat, a < limit * n
  PROVE  a \div n < limit
<1> DEFINE q == a \div n
<1>1. q \in Nat /\ q * n <= a
  BY DivIs
<1>2. q * n < limit * n
  BY <1>1
<1> HIDE DEF q
<1>3. ASSUME q >= limit PROVE FALSE
  <2>1. q * n >= limit * n
    BY <1>1, <1>3
  <2> QED
    BY <1>1, <1>2, <2>1
<1> QED
  BY <1>1, <1>3 DEF q

LEMMA SinceIs ==
  ASSUME NEW a \in 0 .. (MillisLimit - 1), NEW b \in 0 .. (MillisLimit - 1)
  PROVE  Since(a, b) = IF a >= b THEN a - b ELSE a + MillisLimit - b
<1>1. MillisLimit \in Nat \ {0}
  BY EventsAssumption
<1>2. CASE a >= b
  <2>1. a - b \in 0 .. (MillisLimit - 1)
    BY <1>1, <1>2
  <2>2. a + MillisLimit - b = (a - b) + MillisLimit
    BY <1>1
  <2> QED
    BY <1>1, <1>2, <2>1, <2>2, ModIs DEF Since
<1>3. CASE ~(a >= b)
  <2>1. a + MillisLimit - b \in 0 .. (MillisLimit - 1)
    BY <1>1, <1>3
  <2> QED
    BY <1>1, <1>3, <2>1, ModIs DEF Since
<1> QED
  BY <1>2, <1>3

\* Counting some of the time leaves the rest, where the clock wraps too.
LEMMA CountedIs ==
  ASSUME NEW a \in 0 .. (MillisLimit - 1), NEW b \in 0 .. (MillisLimit - 1),
         NEW counted \in Nat, counted <= Since(a, b)
  PROVE  /\ (b + counted) % MillisLimit \in 0 .. (MillisLimit - 1)
         /\ Since(a, (b + counted) % MillisLimit) = Since(a, b) - counted
<1>1. MillisLimit \in Nat \ {0}
  BY EventsAssumption
<1>2. CASE b + counted < MillisLimit
  <2>1. b + counted \in 0 .. (MillisLimit - 1)
    BY <1>1, <1>2
  <2>2. (b + counted) % MillisLimit = b + counted
    BY <1>1, <2>1, ModIs
  <2>3. Since(a, b + counted) = Since(a, b) - counted
    BY <1>1, <2>1, SinceIs
  <2> QED
    BY <2>1, <2>2, <2>3
<1>3. CASE ~(b + counted < MillisLimit)
  <2>1. b + counted - MillisLimit \in 0 .. (MillisLimit - 1)
    BY <1>1, <1>3, SinceIs
  <2>2. (b + counted) % MillisLimit = b + counted - MillisLimit
    <3> DEFINE c == b + counted - MillisLimit
    <3>1. (c + MillisLimit) % MillisLimit = c
      BY <1>1, <2>1, ModIs
    <3> QED
      BY <1>1, <3>1
  <2> QED
    BY <1>1, <1>3, <2>1, <2>2, SinceIs
<1> QED
  BY <1>2, <1>3

LEMMA NowIs ==
  ASSUME NEW a \in 0 .. (MillisLimit - 1), NEW b \in 0 .. (MillisLimit - 1),
         Since(a, b) + 1 < MillisLimit
  PROVE  /\ (a + 1) % MillisLimit \in 0 .. (MillisLimit - 1)
         /\ Since((a + 1) % MillisLimit, b) = Since(a, b) + 1
<1>1. MillisLimit \in Nat \ {0}
  BY EventsAssumption
<1>2. CASE a + 1 < MillisLimit
  <2>1. a + 1 \in 0 .. (MillisLimit - 1)
    BY <1>1, <1>2
  <2>2. (a + 1) % MillisLimit = a + 1
    BY <1>1, <2>1, ModIs
  <2>3. Since(a + 1, b) = Since(a, b) + 1
    BY <1>1, <2>1, SinceIs
  <2> QED
    BY <2>1, <2>2, <2>3
<1>3. CASE ~(a + 1 < MillisLimit)
  <2>1. a + 1 = 0 + MillisLimit
    BY <1>1, <1>3
  <2>2. (0 + MillisLimit) % MillisLimit = 0
    BY <1>1, ModIs
  <2>3. (a + 1) % MillisLimit = 0
    BY <2>1, <2>2
  <2> QED
    BY <1>1, <1>3, <2>3, SinceIs
<1> QED
  BY <1>2, <1>3

\* The remainder is less than a decisecond, and what has been counted is the rest.
LEMMA ElapsedIs ==
  ASSUME EventsInv
  PROVE  /\ Behind \in Nat /\ Elapsed \in Nat /\ Elapsed * PerDs \in Nat
         /\ Elapsed * PerDs <= Behind /\ Behind < Elapsed * PerDs + PerDs
<1> USE EventsAssumption
<1>1. Behind \in Nat /\ Behind < MaxGap + PerDs
  BY DEF EventsInv, EventsTypes, ClockFits
<1>2. Behind < DsLimit * PerDs
  BY <1>1
<1>3. Behind \div PerDs < DsLimit /\ Behind \div PerDs \in Nat
  BY <1>1, <1>2, QuotientBounded, DivIs
<1>4. Elapsed = Behind \div PerDs
  <2>1. (Behind \div PerDs) % DsLimit = Behind \div PerDs
    BY <1>3, ModIs
  <2> QED
    BY <2>1 DEF Elapsed, Behind, Since
<1>5. Elapsed * PerDs <= Behind /\ Behind < Elapsed * PerDs + PerDs
  BY <1>1, <1>4, DivIs
<1> QED
  BY <1>1, <1>3, <1>4, <1>5

-------------------------------------------------------------------------------
(* The steps. *)

LEMMA EventsStarts == EventsInit => EventsInv
<1> SUFFICES ASSUME EventsInit PROVE EventsInv
  OBVIOUS
<1> USE EventsAssumption
<1>1. /\ now \in 0 .. (MillisLimit - 1) /\ last_tick_at = 0 /\ gap = now /\ gap \in 0 .. MaxGap
      /\ 0 \in 0 .. (MillisLimit - 1)
  BY DEF EventsInit
<1>2. Since(now, 0) = now
  BY <1>1, SinceIs
<1>3. level \in [Types -> NONE .. FATAL] /\ \A t \in Types : level[t] = NONE
  BY DEF EventsInit, NONE, FATAL
<1>4. EventsTypes
  BY <1>1, <1>3 DEF EventsInit, EventsTypes, NONE, FATAL
<1>5. ClockFits
  BY <1>1, <1>2 DEF ClockFits, Behind
<1>6. LevelsFit /\ LastedFits
  BY <1>3 DEF EventsInit, LevelsFit, LastedFits, NONE, CRITICAL
<1>7. HighestLevelIsCurrent
  <2>1. \A t \in Types : level[t] = NONE
    BY <1>3
  <2>2. {level[t] : t \in Types} \union {NONE} = {NONE}
    BY <2>1
  <2>3. Max({NONE}) = NONE
    BY DEF Max, NONE
  <2> QED
    BY <2>2, <2>3 DEF EventsInit, HighestLevelIsCurrent, HighestOf
<1> QED
  BY <1>4, <1>5, <1>6, <1>7 DEF EventsInv

LEMMA RecordKeeps ==
  ASSUME EventsInv, NEW t \in Types, NEW repeat \in BOOLEAN, RecordEvent(t, repeat)
  PROVE  EventsInv'
<1> USE EventsAssumption
<1>1. UNCHANGED << accumulator, now, last_tick_at, gap, lasted >>
  BY DEF RecordEvent
<1>2. PICK new \in {TypeLevel[t], FATAL} :
        /\ new = FATAL \/ new = TypeLevel[t]
        /\ new = FATAL => TypeLevel[t] = WARNING
        /\ IF level[t] < new THEN level' = [level EXCEPT ![t] = new] /\ Recalculate
                             ELSE UNCHANGED << level, highest_level >>
  BY DEF RecordEvent, FATAL, CRITICAL, INFO
<1>3. TypeLevel[t] \in INFO .. CRITICAL /\ new \in NONE .. FATAL
  BY <1>2 DEF NONE, FATAL, INFO, CRITICAL
<1>4. ClockFits'
  BY <1>1 DEF EventsInv, ClockFits, Behind, Since
<1>5. CASE level[t] < new
  <2>1. level' = [level EXCEPT ![t] = new] /\ highest_level' = HighestOf(level')
    BY <1>2, <1>5 DEF Recalculate
  <2>2. level' \in [Types -> NONE .. FATAL]
    BY <1>3, <2>1 DEF EventsInv, EventsTypes
  <2>3. EventsTypes'
    BY <1>1, <2>1, <2>2, HighestIs DEF EventsInv, EventsTypes
  <2>4. LevelsFit'
    BY <1>2, <2>1 DEF EventsInv, EventsTypes, LevelsFit
  <2>5. level[t] = NONE \/ new # CRITICAL
    BY <1>2, <1>3, <1>5 DEF EventsInv, LevelsFit, NONE, WARNING, CRITICAL, FATAL
  <2>6. ASSUME NEW u \in Types
        PROVE  /\ level'[u] = NONE => lasted[u] = 0
               /\ level'[u] = CRITICAL => lasted[u] <= accumulator[u] * PerDs + Behind
    <3>1. CASE u # t
      BY <2>1, <3>1 DEF EventsInv, EventsTypes, LastedFits
    <3>2. CASE u = t
      <4>1. level'[u] = new /\ new # NONE
        BY <1>2, <1>3, <2>1, <3>2 DEF EventsInv, EventsTypes, NONE, INFO, FATAL, CRITICAL
      <4>2. level[u] = NONE => lasted[u] = 0
        BY DEF EventsInv, LastedFits
      <4>3. accumulator[u] * PerDs + Behind >= 0
        BY ElapsedIs DEF EventsInv, EventsTypes
      <4> QED
        BY <2>5, <3>2, <4>1, <4>2, <4>3
    <3> QED
      BY <3>1, <3>2
  <2>7. LastedFits'
    BY <1>1, <2>6 DEF LastedFits, Behind, Since
  <2>8. HighestLevelIsCurrent'
    BY <2>1 DEF HighestLevelIsCurrent, HighestOf
  <2> QED
    BY <1>4, <2>3, <2>4, <2>7, <2>8 DEF EventsInv
<1>6. CASE ~(level[t] < new)
  <2>1. UNCHANGED << level, highest_level >>
    BY <1>2, <1>6
  <2> QED
    BY <1>1, <1>4, <2>1 DEF EventsInv, EventsTypes, LevelsFit, LastedFits, Behind, Since,
      HighestLevelIsCurrent
<1> QED
  BY <1>5, <1>6

LEMMA ClearKeeps ==
  ASSUME EventsInv, NEW t \in Types, ClearEvent(t)
  PROVE  EventsInv'
<1>1. UNCHANGED << count, accumulator, now, last_tick_at, gap >>
  BY DEF ClearEvent
<1>2. /\ level' = [level EXCEPT ![t] = NONE] /\ highest_level' = HighestOf(level')
      /\ lasted' = [lasted EXCEPT ![t] = 0]
  BY DEF ClearEvent, Recalculate
<1>3. level' \in [Types -> NONE .. FATAL] /\ lasted' \in [Types -> Nat]
  BY <1>2 DEF EventsInv, EventsTypes, NONE, FATAL
<1>4. EventsTypes'
  BY <1>1, <1>2, <1>3, HighestIs DEF EventsInv, EventsTypes
<1>5. ClockFits'
  BY <1>1 DEF EventsInv, ClockFits, Behind, Since
<1>6. LevelsFit'
  BY <1>2 DEF EventsInv, EventsTypes, LevelsFit
<1>7. LastedFits'
  <2>1. ASSUME NEW u \in Types
        PROVE  /\ level'[u] = NONE => lasted'[u] = 0
               /\ level'[u] = CRITICAL => lasted'[u] <= accumulator[u] * PerDs + Behind
    <3>1. CASE u # t
      BY <1>2, <3>1 DEF EventsInv, EventsTypes, LastedFits
    <3>2. CASE u = t
      BY <1>2, <3>2 DEF EventsInv, EventsTypes, NONE, CRITICAL
    <3> QED
      BY <3>1, <3>2
  <2> QED
    BY <1>1, <2>1 DEF LastedFits, Behind, Since
<1>8. HighestLevelIsCurrent'
  BY <1>2 DEF HighestLevelIsCurrent, HighestOf
<1> QED
  BY <1>4, <1>5, <1>6, <1>7, <1>8 DEF EventsInv

LEMMA TimePassesKeeps ==
  ASSUME EventsInv, TimePasses
  PROVE  EventsInv'
<1> USE EventsAssumption
<1>1. UNCHANGED << level, count, accumulator, highest_level, last_tick_at >>
  BY DEF TimePasses, slotVars
<1>2. now \in 0 .. (MillisLimit - 1) /\ last_tick_at \in 0 .. (MillisLimit - 1) /\ gap \in Nat
  BY DEF EventsInv, EventsTypes
<1>3. gap < MaxGap /\ gap' = gap + 1 /\ now' = (now + 1) % MillisLimit
  BY DEF TimePasses
<1>4. Behind \in gap .. (gap + PerDs - 1)
  BY DEF EventsInv, ClockFits
<1>5. now' \in 0 .. (MillisLimit - 1) /\ Behind' = Behind + 1
  <2>1. Since(now, last_tick_at) + 1 < MillisLimit
    BY <1>2, <1>3, <1>4 DEF Behind
  <2> QED
    BY <1>1, <1>2, <1>3, <2>1, NowIs DEF Behind, Since
<1>6. lasted' \in [Types -> Nat] /\ \A t \in Types : lasted'[t] \in {lasted[t], lasted[t] + 1}
  BY DEF TimePasses, EventsInv, EventsTypes
<1>7. \A t \in Types : level[t] # CRITICAL => lasted'[t] = lasted[t]
  BY DEF TimePasses
<1>8. EventsTypes'
  BY <1>1, <1>2, <1>3, <1>5, <1>6 DEF EventsInv, EventsTypes
<1>9. ClockFits'
  BY <1>2, <1>3, <1>4, <1>5 DEF ClockFits
<1>10. LevelsFit' /\ HighestLevelIsCurrent'
  BY <1>1 DEF EventsInv, LevelsFit, HighestLevelIsCurrent
<1>11. LastedFits'
  <2>1. ASSUME NEW t \in Types
        PROVE  /\ level[t] = NONE => lasted'[t] = 0
               /\ level[t] = CRITICAL => lasted'[t] <= accumulator[t] * PerDs + (Behind + 1)
    <3>1. level[t] = NONE => lasted'[t] = 0
      BY <1>7 DEF EventsInv, LastedFits, NONE, CRITICAL
    <3>2. ASSUME level[t] = CRITICAL
          PROVE  lasted'[t] <= accumulator[t] * PerDs + (Behind + 1)
      <4>1. PICK old \in Nat : old = lasted[t]
        BY DEF EventsInv, EventsTypes
      <4>2. PICK counted \in Nat : counted = accumulator[t] * PerDs
        BY DEF EventsInv, EventsTypes
      <4>3. PICK new \in Nat : new = lasted'[t]
        BY <1>6
      <4>4. old <= counted + Behind
        BY <3>2, <4>1, <4>2 DEF EventsInv, LastedFits
      <4>5. new \in {old, old + 1}
        BY <1>6, <4>1, <4>3
      <4>6. Behind \in Nat
        BY ElapsedIs
      <4>7. new <= counted + (Behind + 1)
        BY <4>4, <4>5, <4>6
      <4> QED
        BY <4>2, <4>3, <4>7
    <3> QED
      BY <3>1, <3>2
  <2> QED
    BY <1>1, <1>5, <2>1 DEF LastedFits
<1> QED
  BY <1>8, <1>9, <1>10, <1>11 DEF EventsInv

\* What events_tick makes of a slot.
LEMMA TickIs ==
  ASSUME EventsInv, EventsTick, NEW t \in Types
  PROVE  /\ Escalates(t) => TypeLevel[t] = CRITICAL /\ level[t] = CRITICAL /\ level'[t] = FATAL
         /\ ~Escalates(t) => level'[t] = level[t]
         /\ accumulator'[t] \in Nat
         /\ level'[t] = CRITICAL => accumulator'[t] = accumulator[t] + Elapsed
<1> USE EventsAssumption
<1>1. level'[t] = IF Escalates(t) THEN FATAL ELSE level[t]
  BY DEF EventsTick
<1>2. Escalates(t) => TypeLevel[t] = CRITICAL /\ level[t] = CRITICAL
  BY DEF Escalates
<1>3. accumulator[t] \in Nat /\ Elapsed \in Nat /\ Leeway[t] \in Nat
  BY ElapsedIs DEF EventsInv, EventsTypes
<1>4. Ssub(accumulator[t], Elapsed) \in Nat
  BY <1>3 DEF Ssub
<1>5. level[t] = CRITICAL => TypeLevel[t] = CRITICAL
  BY DEF EventsInv, LevelsFit, NONE, CRITICAL, FATAL
<1>6. CASE TypeLevel[t] # CRITICAL
  <2>1. accumulator'[t] = accumulator[t] /\ level[t] # CRITICAL /\ ~Escalates(t)
    BY <1>2, <1>5, <1>6 DEF EventsTick
  <2> QED
    BY <1>1, <1>3, <2>1
<1>7. CASE TypeLevel[t] = CRITICAL /\ Escalates(t)
  <2>1. accumulator'[t] = Leeway[t] /\ level'[t] = FATAL
    BY <1>1, <1>7 DEF EventsTick
  <2> QED
    BY <1>2, <1>3, <1>7, <2>1 DEF FATAL, CRITICAL
<1>8. CASE TypeLevel[t] = CRITICAL /\ ~Escalates(t) /\ level[t] = CRITICAL
  <2>1. accumulator'[t] = accumulator[t] + Elapsed
    BY <1>8 DEF EventsTick
  <2> QED
    BY <1>1, <1>3, <1>8, <2>1
<1>9. CASE TypeLevel[t] = CRITICAL /\ ~Escalates(t) /\ level[t] # CRITICAL
  <2>1. accumulator'[t] = Ssub(accumulator[t], Elapsed)
    BY <1>9 DEF EventsTick
  <2> QED
    BY <1>1, <1>4, <1>9, <2>1
<1> QED
  BY <1>6, <1>7, <1>8, <1>9

LEMMA TickKeeps ==
  ASSUME EventsInv, EventsTick
  PROVE  EventsInv'
<1> USE EventsAssumption
<1>1. UNCHANGED << count, now, lasted >> /\ gap' = 0
  BY DEF EventsTick
<1>2. last_tick_at' \in 0 .. (MillisLimit - 1) /\ Behind' = Behind - Elapsed * PerDs
  <2>1. PICK counted \in Nat : counted = Elapsed * PerDs
    BY ElapsedIs
  <2>2. last_tick_at' = (last_tick_at + counted) % MillisLimit
    BY <2>1 DEF EventsTick, Advance
  <2>3. counted <= Since(now, last_tick_at)
    BY <2>1, ElapsedIs DEF Behind
  <2>4. now \in 0 .. (MillisLimit - 1) /\ last_tick_at \in 0 .. (MillisLimit - 1)
    BY DEF EventsInv, EventsTypes
  <2>5. /\ (last_tick_at + counted) % MillisLimit \in 0 .. (MillisLimit - 1)
        /\ Since(now, (last_tick_at + counted) % MillisLimit) = Since(now, last_tick_at) - counted
    BY <2>3, <2>4, CountedIs
  <2> QED
    BY <1>1, <2>1, <2>2, <2>5 DEF Behind, Since
<1>3. ClockFits'
  <2>1. PICK behind \in Nat, counted \in Nat : behind = Behind /\ counted = Elapsed * PerDs
    BY ElapsedIs
  <2>2. counted <= behind /\ behind < counted + PerDs
    BY <2>1, ElapsedIs
  <2>3. Behind' = behind - counted
    BY <1>2, <2>1
  <2>4. behind - counted \in 0 .. (0 + PerDs - 1)
    BY <2>2
  <2> QED
    BY <1>1, <2>3, <2>4 DEF ClockFits
<1>4. level' \in [Types -> NONE .. FATAL] /\ accumulator' \in [Types -> Nat]
  <2>1. level' = [t \in Types |-> IF Escalates(t) THEN FATAL ELSE level[t]]
    BY DEF EventsTick
  <2>2. level' \in [Types -> NONE .. FATAL]
    BY <2>1 DEF EventsInv, EventsTypes, NONE, FATAL
  <2>3. accumulator' = [t \in Types |-> accumulator'[t]]
    BY DEF EventsTick
  <2>4. \A t \in Types : accumulator'[t] \in Nat
    BY TickIs
  <2> QED
    BY <2>2, <2>3, <2>4
<1>5. HighestLevelIsCurrent' /\ highest_level' \in NONE .. FATAL
  <2>1. CASE \E t \in Types : Escalates(t)
    <3>1. highest_level' = HighestOf(level')
      BY <2>1 DEF EventsTick, Recalculate
    <3> QED
      BY <1>4, <3>1, HighestIs DEF HighestLevelIsCurrent, HighestOf
  <2>2. CASE ~\E t \in Types : Escalates(t)
    <3>1. highest_level' = highest_level
      BY <2>2 DEF EventsTick
    <3>2. level' = level
      BY <2>2 DEF EventsTick, EventsInv, EventsTypes
    <3> QED
      BY <3>1, <3>2 DEF EventsInv, EventsTypes, HighestLevelIsCurrent
  <2> QED
    BY <2>1, <2>2
<1>6. EventsTypes'
  BY <1>1, <1>2, <1>4, <1>5 DEF EventsInv, EventsTypes
<1>7. LevelsFit'
  BY TickIs DEF EventsInv, LevelsFit
<1>8. LastedFits'
  <2>1. ASSUME NEW t \in Types
        PROVE  /\ level'[t] = NONE => lasted[t] = 0
               /\ level'[t] = CRITICAL =>
                    lasted[t] <= accumulator'[t] * PerDs + (Behind - Elapsed * PerDs)
    <3>1. level'[t] # FATAL => level'[t] = level[t]
      BY TickIs
    <3>2. ASSUME level'[t] = CRITICAL
          PROVE  lasted[t] <= accumulator'[t] * PerDs + (Behind - Elapsed * PerDs)
      <4>1. level[t] = CRITICAL /\ accumulator'[t] = accumulator[t] + Elapsed
        BY <3>1, <3>2, TickIs DEF CRITICAL, FATAL
      <4>2. lasted[t] <= accumulator[t] * PerDs + Behind
        BY <4>1 DEF EventsInv, LastedFits
      <4>3. accumulator[t] \in Nat /\ Elapsed \in Nat
        BY ElapsedIs DEF EventsInv, EventsTypes
      <4>4. (accumulator[t] + Elapsed) * PerDs = accumulator[t] * PerDs + Elapsed * PerDs
        BY <4>3
      <4>5. /\ accumulator[t] * PerDs \in Nat /\ Elapsed * PerDs \in Nat /\ Behind \in Nat
            /\ lasted[t] \in Nat
        BY <4>3, ElapsedIs DEF EventsInv, EventsTypes
      <4> QED
        BY <4>1, <4>2, <4>4, <4>5
    <3> QED
      BY <3>1, <3>2 DEF EventsInv, LastedFits, NONE, FATAL
  <2> QED
    BY <1>1, <1>2, <2>1 DEF LastedFits
<1> QED
  BY <1>3, <1>5, <1>6, <1>7, <1>8 DEF EventsInv

LEMMA EventsSteps == EventsInv /\ [EventsNext]_eventsVars => EventsInv'
<1> SUFFICES ASSUME EventsInv, [EventsNext]_eventsVars PROVE EventsInv'
  OBVIOUS
<1>1. CASE EventsNext
  BY <1>1, RecordKeeps, ClearKeeps, TickKeeps, TimePassesKeeps DEF EventsNext
<1>2. CASE UNCHANGED eventsVars
  BY <1>2 DEF eventsVars, slotVars, EventsInv, EventsTypes, ClockFits, LevelsFit, LastedFits,
    Behind, Since, HighestLevelIsCurrent
<1> QED
  BY <1>1, <1>2

-------------------------------------------------------------------------------

\* The level that get_highest_event_level() returns is that of the slots, over recording,
\* clearing and escalating in any order.
THEOREM HighestIsCurrent == EventsSpec => []HighestLevelIsCurrent
<1>1. EventsInv => HighestLevelIsCurrent
  BY DEF EventsInv
<1> QED
  BY EventsStarts, EventsSteps, <1>1, PTL DEF EventsSpec

\* An event that has lasted for its leeway is found to have done so.
LEMMA LastedEscalates ==
  ASSUME EventsInv, NEW t \in Types, level[t] = CRITICAL, lasted[t] >= Leeway[t] * PerDs
  PROVE  Escalates(t)
<1> USE EventsAssumption
<1>1. PICK a \in Nat, e \in Nat, k \in Nat, x \in Nat, b \in Nat :
        a = accumulator[t] /\ e = Elapsed /\ k = Leeway[t] /\ x = lasted[t] /\ b = Behind
  BY ElapsedIs DEF EventsInv, EventsTypes
<1>2. k * PerDs <= x /\ x <= a * PerDs + b /\ b < e * PerDs + PerDs
  BY <1>1, ElapsedIs DEF EventsInv, LastedFits
<1>3. k * PerDs < (a + e + 1) * PerDs
  <2>1. (a + e + 1) * PerDs = a * PerDs + e * PerDs + PerDs
    OBVIOUS
  <2>2. k * PerDs \in Nat /\ a * PerDs \in Nat /\ e * PerDs \in Nat
    OBVIOUS
  <2> QED
    BY <1>2, <2>1, <2>2
<1>4. k <= a + e
  <2>1. ASSUME k >= a + e + 1 PROVE FALSE
    <3>1. k * PerDs >= (a + e + 1) * PerDs
      BY <2>1
    <3> QED
      BY <1>3, <3>1
  <2> QED
    BY <2>1
<1>5. Sadd(a, e) >= k
  BY <1>1, <1>4 DEF Sadd
<1>6. TypeLevel[t] = CRITICAL
  BY DEF EventsInv, LevelsFit, NONE, CRITICAL, FATAL
<1> QED
  BY <1>1, <1>5, <1>6 DEF Escalates

\* An event that has been critical for its leeway is fatal when events_tick returns, for
\* any leeways and any clocks: truncation, saturation and wrapping lose no time.
THEOREM EscalationIsInTime == EventsSpec => EscalatesInTime
<1>1. ASSUME EventsInv, EventsInv', EventsTick,
             NEW t \in Types, level[t] = CRITICAL, lasted[t] >= Leeway[t] * PerDs
      PROVE  level'[t] = FATAL /\ highest_level' = FATAL
  <2>1. Escalates(t) /\ level'[t] = FATAL
    BY <1>1, LastedEscalates, TickIs
  <2>2. highest_level' = HighestOf(level')
    BY <2>1, <1>1 DEF EventsTick, Recalculate
  <2>3. level' \in [Types -> NONE .. FATAL]
    BY <1>1 DEF EventsInv, EventsTypes
  <2>4. HighestOf(level') \in NONE .. FATAL /\ level'[t] <= HighestOf(level')
    BY <2>3, HighestIs
  <2> QED
    BY <2>1, <2>2, <2>4 DEF NONE, FATAL
<1>2. EventsInv /\ EventsInv' =>
        (EventsTick => \A t \in Types : level[t] = CRITICAL /\ lasted[t] >= Leeway[t] * PerDs
                                         => level'[t] = FATAL /\ highest_level' = FATAL)
  BY <1>1
<1> QED
  BY EventsStarts, EventsSteps, <1>2, PTL DEF EventsSpec, EscalatesInTime

===============================================================================
