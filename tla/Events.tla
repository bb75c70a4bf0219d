--------------------------------- MODULE Events ---------------------------------
(***************************************************************************)
(* sys/events/events.c: the slots of the events, their levels, and the      *)
(* clock by which a critical event that lasts becomes fatal.  Events are    *)
(* recorded and cleared by the checks and machines of the main loop, in any *)
(* order between two calls of events_tick.                                  *)
(*                                                                         *)
(* Time is in units of which PerDs make a decisecond, so that what          *)
(* events_tick truncates is there.                                          *)
(***************************************************************************)
EXTENDS Integers, FiniteSetsExt

CONSTANTS
  Types, TypeLevel,        \* EVENT_TYPE_LEVELS: INFO, WARNING or CRITICAL
  Leeway,                  \* EVENT_TYPE_LEEWAY: deciseconds, or for a warning a count
  PerDs,                   \* units of time in a decisecond
  MillisLimit,             \* where millis() wraps, for 2^32
  DsLimit,                 \* where uint16_t wraps: deciseconds, counts, accumulators
  MaxGap                   \* bound: units between two calls of events_tick

NONE == 0
INFO == 1
WARNING == 2
CRITICAL == 3
FATAL == 4

ASSUME EventsAssumption ==
  /\ TypeLevel \in [Types -> INFO .. CRITICAL] /\ Leeway \in [Types -> Nat]
  /\ PerDs \in Nat \ {0} /\ MaxGap \in Nat \ {0} /\ DsLimit \in Nat
  /\ MillisLimit \in Nat /\ MillisLimit > MaxGap + PerDs
  /\ DsLimit * PerDs > MaxGap + PerDs /\ \A t \in Types : Leeway[t] < DsLimit

VARIABLES
  level, count, accumulator,       \* of the slots
  highest_level,
  now, last_tick_at,               \* millis(), and the time up to which the clock has run
  gap,                             \* units since the last call of events_tick
  lasted                           \* history: units for which a slot has been CRITICAL

slotVars == << level, count, accumulator, highest_level >>
eventsVars == << slotVars, now, last_tick_at, gap, lasted >>

\* At boot the clock of the events is behind by the time that booting took.
EventsInit ==
  /\ level = [t \in Types |-> NONE] /\ count = [t \in Types |-> 0]
  /\ accumulator = [t \in Types |-> 0] /\ highest_level = NONE
  /\ now \in 0 .. MaxGap /\ last_tick_at = 0 /\ gap = now
  /\ lasted = [t \in Types |-> 0]

\* sadd_u16, ssub_u16.
Sadd(a, b) == IF a + b < DsLimit THEN a + b ELSE DsLimit - 1
Ssub(a, b) == IF a > b THEN a - b ELSE 0

HighestOf(levels) == Max({levels[t] : t \in Types} \union {NONE})

\* recalculate_highest_level, where a level has changed.
Recalculate == highest_level' = HighestOf(level')

\* record_bms_event: a new occurrence is counted, and a warning that has occurred too
\* often is fatal.
RecordEvent(t, repeat) ==
  LET counted == IF level[t] = NONE \/ repeat THEN Sadd(count[t], 1) ELSE count[t]
      new == IF TypeLevel[t] = WARNING /\ Leeway[t] > 0 /\ counted >= Leeway[t]
               THEN FATAL ELSE TypeLevel[t]
  IN /\ count' = [count EXCEPT ![t] = counted]
     /\ IF level[t] < new THEN level' = [level EXCEPT ![t] = new] /\ Recalculate
                          ELSE UNCHANGED << level, highest_level >>
     /\ UNCHANGED << accumulator, now, last_tick_at, gap, lasted >>

\* clear_bms_event; the accumulator is left to decay.
ClearEvent(t) ==
  /\ level[t] \notin {NONE, FATAL}
  /\ level' = [level EXCEPT ![t] = NONE] /\ Recalculate
  /\ lasted' = [lasted EXCEPT ![t] = 0]
  /\ UNCHANGED << count, accumulator, now, last_tick_at, gap >>

\* The whole deciseconds since the clock last ran.
Elapsed == (((now + MillisLimit - last_tick_at) % MillisLimit) \div PerDs) % DsLimit

\* Fault variant: what is less than a decisecond is given up.
AdvanceDrifts == last_tick_at' = now

\* The rest is left for the next call.
Advance == last_tick_at' = (last_tick_at + Elapsed * PerDs) % MillisLimit

Escalates(t) ==
  TypeLevel[t] = CRITICAL /\ level[t] = CRITICAL /\ Sadd(accumulator[t], Elapsed) >= Leeway[t]

EventsTick ==
  /\ Advance
  /\ level' = [t \in Types |-> IF Escalates(t) THEN FATAL ELSE level[t]]
  /\ accumulator' =
       [t \in Types |->
          IF TypeLevel[t] # CRITICAL THEN accumulator[t]
          ELSE IF Escalates(t) THEN Leeway[t]
          ELSE IF level[t] = CRITICAL THEN accumulator[t] + Elapsed
          ELSE Ssub(accumulator[t], Elapsed)]
  /\ IF \E t \in Types : Escalates(t) THEN Recalculate ELSE UNCHANGED highest_level
  /\ gap' = 0
  /\ UNCHANGED << count, now, lasted >>

TimePasses ==
  /\ gap < MaxGap /\ gap' = gap + 1
  /\ now' = (now + 1) % MillisLimit
  /\ lasted' = [t \in Types |->
                  IF level[t] = CRITICAL /\ lasted[t] <= Leeway[t] * PerDs + MaxGap
                    THEN lasted[t] + 1 ELSE lasted[t]]
  /\ UNCHANGED << slotVars, last_tick_at >>

EventsNext ==
  \/ \E t \in Types, repeat \in BOOLEAN : RecordEvent(t, repeat)
  \/ \E t \in Types : ClearEvent(t)
  \/ EventsTick
  \/ TimePasses

EventsSpec == EventsInit /\ [][EventsNext]_eventsVars
-----------------------------------------------------------------------------
\* An event that has been critical for its leeway, whatever it had accumulated before,
\* is fatal when events_tick returns, and get_highest_event_level() says so: no time
\* gets lost to truncation over any number of calls, nor where a clock wraps.
EscalatesInTime ==
  [][EventsTick =>
       \A t \in Types :
         level[t] = CRITICAL /\ lasted[t] >= Leeway[t] * PerDs
           => level'[t] = FATAL /\ highest_level' = FATAL]_eventsVars

\* The cached level is that of the slots, over escalation, repetition and clearing.
HighestLevelIsCurrent == highest_level = HighestOf(level)
===============================================================================
