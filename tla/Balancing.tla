------------------------------- MODULE Balancing -------------------------------
(***************************************************************************)
(* app/battery/balancing.c: which cells the monitors are to discharge, and  *)
(* for how many more cycles.  The machine is ticked once in a cycle of the  *)
(* cell monitors, which is the unit of its times.                           *)
(***************************************************************************)
EXTENDS Integers, FiniteSets

CONSTANTS
  Physical,            \* the channel of each cell (its logical index)
  MaxTime,             \* bound: the longest balancing time, for INT16_MAX
  PauseAfter           \* PAUSE_AFTER_N_PERIODS

Cells == DOMAIN Physical

ASSUME BalancingAssumption ==
  /\ Cells = 1 .. Cardinality(Cells)
  /\ \A c, d \in Cells : c < d => Physical[c] < Physical[d]
  /\ MaxTime \in Nat \ {0} /\ PauseAfter \in Nat \ {0}

VARIABLES
  balancing_state,         \* IDLE or ACTIVE
  balance_request,         \* balance_request_mask, as a set
  balance_time_remaining,
  pause_counter, is_pause_cycle

balancingVars == << balancing_state, balance_request, balance_time_remaining,
                    pause_counter, is_pause_cycle >>

NoTime == [c \in Cells |-> 0]

BalancingInit ==
  /\ balancing_state = "IDLE" /\ balance_request = {}
  /\ balance_time_remaining = NoTime
  /\ pause_counter = 0 /\ is_pause_cycle = FALSE

\* update_balance_requests: cells with time left, lowest first, but never two
\* neighbouring channels.
Chosen(times) ==
  LET chosen[c \in Cells] ==
        times[c] > 0 /\ ~(c > 1 /\ chosen[c - 1] /\ Physical[c] = Physical[c - 1] + 1)
  IN {c \in Cells : chosen[c]}

\* Fault variant: times are counted down for the cells that are not chosen.
UpdateRequestsOthers(times, decrement) ==
  /\ balance_request' = Chosen(times)
  /\ balance_time_remaining' =
       [c \in Cells |-> IF c \notin Chosen(times) /\ times[c] > 0 THEN times[c] - decrement ELSE times[c]]

UpdateRequests(times, decrement) ==
  /\ balance_request' = Chosen(times)
  /\ balance_time_remaining' =
       [c \in Cells |-> IF c \in Chosen(times) THEN times[c] - decrement ELSE times[c]]

\* IDLE, the period over and conditions good: times are set from the voltages, all
\* scaled if the longest does not fit.  A start may find that the highest cell is
\* too low, or that no cell needs balancing.
StartBalancing(times) ==
  /\ balancing_state = "IDLE"
  /\ UpdateRequests(times, 0)
  /\ pause_counter' = 0 /\ is_pause_cycle' = FALSE
  /\ balancing_state' = "ACTIVE"

StayIdle ==
  /\ balancing_state = "IDLE"
  /\ is_pause_cycle' = FALSE
  /\ UNCHANGED << balancing_state, balance_request, balance_time_remaining, pause_counter >>

StopBalancing ==
  /\ balancing_state = "ACTIVE"
  /\ balance_request' = {} /\ balance_time_remaining' = NoTime
  /\ balancing_state' = "IDLE" /\ is_pause_cycle' = FALSE
  /\ UNCHANGED pause_counter

\* Fault variant: the pause keeps what is being discharged.
PauseKeepsRequest ==
  /\ balancing_state = "ACTIVE" /\ pause_counter = PauseAfter
  /\ pause_counter' = 0 /\ is_pause_cycle' = TRUE
  /\ UNCHANGED << balancing_state, balance_request, balance_time_remaining >>

\* A cycle without balancing, so that its snapshot is a good one.
PauseBalancing ==
  /\ balancing_state = "ACTIVE" /\ pause_counter = PauseAfter
  /\ balance_request' = {} /\ pause_counter' = 0 /\ is_pause_cycle' = TRUE
  /\ UNCHANGED << balancing_state, balance_time_remaining >>

\* Another cycle; the session ends when no time and no request is left.
ContinueBalancing ==
  /\ balancing_state = "ACTIVE" /\ pause_counter # PauseAfter
  /\ UpdateRequests(balance_time_remaining, 1)
  /\ pause_counter' = pause_counter + 1 /\ is_pause_cycle' = FALSE
  /\ balancing_state' = IF balance_time_remaining' = NoTime /\ balance_request' = {}
                          THEN "IDLE" ELSE "ACTIVE"

\* balancing_sm_tick.
BalancingTick(good) ==
  \/ StayIdle
  \/ good /\ \E times \in [Cells -> 0 .. MaxTime] : StartBalancing(times)
  \/ ~good /\ StopBalancing
  \/ good /\ PauseBalancing
  \/ good /\ ContinueBalancing
===============================================================================
