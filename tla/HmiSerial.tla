-------------------------------- MODULE HmiSerial --------------------------------
(***************************************************************************)
(* protocols/hmi_serial/hmi_serial.c: the controller as a device on the     *)
(* serial line of the HMI.  Each tick it announces itself if that is due,   *)
(* and handles one message.  The HMI is external: it polls, writes settings *)
(* and collects the events in pages; any message may get lost.              *)
(***************************************************************************)
EXTENDS Integers, Sequences, FiniteSets, FiniteSetsExt

CONSTANTS
  Addresses, FirstAddress,      \* of devices; device_address at boot
  AnnouncePeriod,               \* announce_period
  ClockLimit,                   \* where timestep() wraps, for 2^32
  Limits, Settings,             \* registers stored one higher, and others, all in flash
  WriteLimit,                   \* where a 16 bit register wraps
  MaxWrites,                    \* bound: registers written by a message
  Highest,                      \* ERR_HIGHEST
  PageSize                      \* events that fit in a reply

ASSUME HmiAssumption ==
  /\ FirstAddress \in Addresses
  /\ AnnouncePeriod \in Nat \ {0} /\ ClockLimit \in Nat /\ ClockLimit > 2 * AnnouncePeriod
  /\ Limits \intersect Settings = {} /\ WriteLimit \in Nat \ {0} /\ MaxWrites \in Nat \ {0}
  /\ Highest \in Nat \ {0} /\ PageSize \in Nat \ {0}

Registers == Limits \union Settings
Values16 == 0 .. (WriteLimit - 1)
Messages16 == UNION {[1 .. n -> [reg : Registers, value : Values16]] : n \in 1 .. MaxWrites}

VARIABLES
  device_address,
  clock, next_announce,         \* timestep(), next_announce_timestep
  announced,                    \* an announcement was sent in the last tick
  settings, flash,              \* of the slow persistent data: in RAM, and saved
  raised,                       \* the event slots with a count
  page_from,                    \* the HMI: the next page it asks for,
  told,                         \*   and how often it has been told of each event
  at_start,                     \* history: those raised when it began
  since_poll,                   \* history: ticks since registers were read
  save_failed                   \* history: since the last save that worked

deviceVars == << device_address, clock, next_announce, announced, since_poll >>
settingVars == << settings, flash, save_failed >>
pageVars == << page_from, told, at_start >>
hmiVars == << deviceVars, settingVars, raised, pageVars >>

Slots == 0 .. (Highest - 1)
Untold == [i \in Slots |-> 0]

HmiInit ==
  /\ device_address = FirstAddress
  /\ clock = 1 /\ next_announce = 0 /\ announced = FALSE /\ since_poll = AnnouncePeriod
  /\ settings = [r \in Registers |-> 0] /\ flash = settings /\ save_failed = FALSE
  /\ raised = {} /\ page_from = 0 /\ told = Untold /\ at_start = {}
-----------------------------------------------------------------------------
(* The messages, and what handling one changes. *)

\* hmi_handle_set_device_address, for this device's serial number.  It is answered by
\* an announcement, which being a reply is not counted as one.
SetDeviceAddress(from, to) ==
  /\ device_address' = IF from = device_address THEN to ELSE device_address
  /\ UNCHANGED << settingVars, pageVars >>

\* hmi_handle_read_registers: the registers in RAM are told.
ReadRegisters == UNCHANGED << device_address, settingVars, pageVars >>

\* What a register holds after a value is written: one more for a limit, of which 0
\* means that there is none.
StoredAs(reg, value) == IF reg \in Limits THEN (value + 1) % WriteLimit ELSE value

\* What a register holds before the i-th write of a message.
HoldsBefore(writes, i, reg) ==
  LET earlier == {j \in 1 .. (i - 1) : writes[j].reg = reg}
  IN IF earlier = {} THEN settings[reg] ELSE StoredAs(reg, writes[Max(earlier)].value)

\* Fault variant: whether to save is what the last register says.
NeedsFlashingLast(writes) ==
  LET i == Len(writes) IN
  HoldsBefore(writes, i, writes[i].reg) # StoredAs(writes[i].reg, writes[i].value)

\* Whether a write changes a register: a limit is compared before it wraps.
NeedsFlashing(writes) ==
  \E i \in DOMAIN writes :
    HoldsBefore(writes, i, writes[i].reg)
      # (IF writes[i].reg \in Limits THEN writes[i].value + 1 ELSE writes[i].value)

\* hmi_handle_write_registers: all of them in order, and then one save.
WriteRegisters(addr, writes) ==
  /\ IF addr = device_address
       THEN /\ settings' = [r \in Registers |-> HoldsBefore(writes, Len(writes) + 1, r)]
            /\ \/ ~NeedsFlashing(writes) /\ UNCHANGED << flash, save_failed >>
               \/ NeedsFlashing(writes) /\ flash' = settings' /\ save_failed' = FALSE
               \/ NeedsFlashing(writes) /\ save_failed' = TRUE /\ UNCHANGED flash
       ELSE UNCHANGED settingVars
  /\ UNCHANGED << device_address, pageVars >>

\* The slots from start on that have a count, a page of the first of these, and the
\* slot at which the loop stops.
From(start) == {i \in raised : i >= start}
Page(start) == {i \in From(start) : Cardinality({j \in From(start) : j < i}) < PageSize}

\* Fault variant: the next page begins after the slot for which there was no room.
NextIndexSkips(start) ==
  IF From(start) = Page(start) THEN Highest ELSE Min(From(start) \ Page(start)) + 1

NextIndex(start) ==
  IF From(start) = Page(start) THEN Highest ELSE Min(From(start) \ Page(start))

\* hmi_handle_read_events, and what the HMI makes of the reply.  When it has been told
\* of all it may begin anew.
ReadEvents(addr) ==
  /\ addr = device_address
  /\ LET start == IF page_from = Highest THEN 0 ELSE page_from
         before == IF start = 0 THEN Untold ELSE told
     IN /\ told' = [i \in Slots |-> IF i \in Page(start) THEN before[i] + 1 ELSE before[i]]
        /\ page_from' = NextIndex(start)
        /\ at_start' = IF start = 0 THEN raised ELSE at_start
  /\ UNCHANGED << device_address, settingVars >>

\* No message or no reply, one to another device, or one that changes nothing: of
\* cell voltages, balancing times or the log.
NothingHandled == UNCHANGED << device_address, settingVars, pageVars >>
-----------------------------------------------------------------------------
\* Fault variant: reading registers leaves the next announcement where it is.
NotPostponed(polled, due) ==
  IF due THEN (clock + AnnouncePeriod) % ClockLimit ELSE next_announce

\* An announcement sets the next one, and so does reading registers, for whichever
\* device.
Postponed(polled, due) ==
  IF due \/ polled THEN (clock + AnnouncePeriod) % ClockLimit ELSE next_announce

Announce(polled) ==
  LET due == clock >= next_announce IN
  /\ announced' = due
  /\ next_announce' = Postponed(polled, due)
  /\ since_poll' = IF polled THEN 1
                   ELSE IF since_poll < AnnouncePeriod THEN since_poll + 1 ELSE since_poll

\* hmi_serial_tick: an announcement if one is due, and then one message.
HmiTick ==
  /\ \/ Announce(TRUE) /\ ReadRegisters
     \/ /\ Announce(FALSE)
        /\ \/ \E from, to \in Addresses : SetDeviceAddress(from, to)
           \/ \E addr \in Addresses, writes \in Messages16 : WriteRegisters(addr, writes)
           \/ \E addr \in Addresses : ReadEvents(addr)
           \/ NothingHandled
  /\ clock' = (clock + 1) % ClockLimit
  /\ UNCHANGED raised

\* An event occurs, which the slots remember for good.
RaiseEvent ==
  /\ \E i \in Slots : raised' = raised \union {i}
  /\ UNCHANGED << deviceVars, settingVars, pageVars >>

\* A reset; the HMI begins to page anew.
Restart ==
  /\ device_address' = FirstAddress
  /\ clock' = 1 /\ next_announce' = 0 /\ announced' = FALSE /\ since_poll' = AnnouncePeriod
  /\ settings' = flash /\ save_failed' = FALSE
  /\ raised' = {} /\ page_from' = 0 /\ told' = Untold /\ at_start' = {}
  /\ UNCHANGED flash

HmiNext == HmiTick \/ RaiseEvent \/ Restart

HmiSpec == HmiInit /\ [][HmiNext]_hmiVars
-----------------------------------------------------------------------------
\* As long as somebody reads registers more often than once in announce_period, no
\* announcement gets in the way, although the clock is looked at before the message
\* that postpones it (hmi_serial.c:940).  The last period before the clock wraps, once
\* in 2.7 years, is excepted: the sum wraps first and announcements never stop.
QuietWhilePolled ==
  [][(HmiTick /\ announced' /\ clock < ClockLimit - AnnouncePeriod)
        => since_poll >= AnnouncePeriod]_hmiVars

\* What the device has been told to use is what it uses after a restart, unless the
\* save failed: a message may write several registers, some of them to what they are,
\* and a limit that wraps to 0 is still told from one that does not change.
SettingsAreSaved == ~save_failed => settings = flash

\* An HMI that pages through the events is told of each of them once, and of every
\* one that it could have asked for when it began, whichever occur meanwhile.
EventsPagedOnce ==
  /\ \A i \in Slots : told[i] <= 1
  /\ page_from = Highest => \A i \in at_start : told[i] = 1
===============================================================================
