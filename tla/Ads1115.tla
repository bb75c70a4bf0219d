--------------------------------- MODULE Ads1115 ---------------------------------
(***************************************************************************)
(* drivers/sensors/ads1115.c: the scan of the voltages.  A cycle has        *)
(* rounds; in a round one channel of each converter is converted, the       *)
(* transfers to the converters following one another.  A cycle starts the   *)
(* next; a periodic timer starts one if a failed transfer has ended it.     *)
(* The scan runs in interrupts that do not interrupt one another; the       *)
(* calibration asks for sums of samples from the control loop.              *)
(***************************************************************************)
EXTENDS Integers, Sequences, FiniteSets, I2c

CONSTANTS
  Devices,               \* the converters present, a sequence
  ChannelsOf,            \* for each one of the table its channels, in its order
  ScanRounds,            \* ADS1115_SCAN_ROUNDS
  ConversionTime1,       \* ADS1115_CONVERSION_TIME_MS
  AlarmTime,             \*   and with ADS1115_CONVERSION_TIME_EXTRA_MS
  Samples                \* how many samples a calibration asks for

ChannelsAt(d) == {ChannelsOf[d][k] : k \in DOMAIN ChannelsOf[d]}
Channels == UNION {ChannelsAt(d) : d \in DOMAIN ChannelsOf}

ASSUME Ads1115Assumption ==
  /\ Devices \in Seq(DOMAIN ChannelsOf) /\ Devices # << >>
  /\ ScanRounds \in Nat
  /\ \A d \in DOMAIN ChannelsOf : ChannelsOf[d] \in Seq(Nat) /\ Len(ChannelsOf[d]) \in 1 .. ScanRounds
  /\ Cardinality(Channels) \in Nat \ {0} /\ Channels = 0 .. Cardinality(Channels) - 1
  /\ ConversionTime1 \in Nat \ {0} /\ AlarmTime \in Nat /\ AlarmTime >= ConversionTime1
  /\ Samples \in Nat \ {0}

VARIABLES
  bus1,                          \* the context of its I2C instance
  scan_state, scan_busy, scan_round, round_idx,
  alarm,                         \* ticks until the conversion alarm, or -1
  converting, converted_left,    \* what each converter converts, and for how long yet
  sampled,                       \* history: the channel each channel's last sample is of
  late,                          \* history: converters that had yet to finish when the
                                 \*   timer began the cycle, in its first round
  cal_samples_left, cal_taken,   \* cal_taken: samples in cal_accumulator
  arming,                        \* what ads1115_start_calibration has yet to do
  disturbed                      \* history: it began before the one before was over

scanVars == << scan_state, scan_busy, scan_round, round_idx >>
calVars == << cal_samples_left, cal_taken >>
converterVars == << converting, converted_left >>
sampleVars == << sampled, late >>
ads1115Vars == << bus1, scanVars, alarm, converterVars, sampleVars, calVars, arming, disturbed >>

Ads1115Init ==
  /\ bus1 = IdleContext
  /\ scan_state = "IDLE" /\ scan_busy = FALSE /\ scan_round = 0 /\ round_idx = 1
  /\ alarm = -1
  /\ converting = [d \in DOMAIN ChannelsOf |-> -1]
  /\ converted_left = [d \in DOMAIN ChannelsOf |-> 0]
  /\ sampled = [c \in Channels |-> c] /\ late = {}
  /\ cal_samples_left = [c \in Channels |-> 0] /\ cal_taken = [c \in Channels |-> 0]
  /\ arming = -1 /\ disturbed = FALSE

\* channel_table[channel].dev->present
Present(channel) ==
  \E k \in DOMAIN Devices :
    \E i \in DOMAIN ChannelsOf[Devices[k]] : ChannelsOf[Devices[k]][i] = channel

\* ads1115_setup_round: the devices with a channel in this round, which it lists in their
\* order.  round_idx is the place of the device among all those present.
InRound(round) == {k \in DOMAIN Devices : round < Len(ChannelsOf[Devices[k]])}
RoundChannel(round, k) == ChannelsOf[Devices[k]][round + 1]
Later(round, k) == {i \in InRound(round) : i > k}
Least(S) == CHOOSE k \in S : \A i \in S : k <= i

Transfer(round, k) == [device |-> Devices[k], channel |-> RoundChannel(round, k)]
NoReading == -1
-----------------------------------------------------------------------------
(* The scan. *)

\* ads1115_start_round, at the first round from this one on that has a device, or, the
\* cycle being complete, at the first of the next.
StartRound(round) ==
  LET rounds == {r \in round .. ScanRounds - 1 : InRound(r) # {}}
      next == IF rounds = {} THEN 0 ELSE Least(rounds)
      first == Least(InRound(next))
  IN /\ scan_round' = next /\ round_idx' = first
     /\ scan_state' = "WRITING_CONFIG" /\ scan_busy' = TRUE
     /\ bus1' = Writing(Finished(bus1, TRUE), Transfer(next, first))

\* ads1115_start_sampling from the periodic timer.
PeriodicTimer ==
  /\ ~scan_busy
  /\ StartRound(0)
  /\ late' = {d \in DOMAIN ChannelsOf : converted_left[d] > 0}
  /\ UNCHANGED << alarm, converterVars, sampled, calVars, arming, disturbed >>

\* A configuration that reaches the converter, which has ADS1115_CONFIG_OS_SINGLE set,
\* starts a conversion, but has no effect while another one is under way.
Convert(device, channel) ==
  \/ /\ converted_left[device] = 0
     /\ converting' = [converting EXCEPT ![device] = channel]
     /\ converted_left' = [converted_left EXCEPT ![device] = ConversionTime1]
  \/ converted_left[device] > 0 /\ UNCHANGED converterVars

\* ads1115_i2c_callback after a failure: the cycle is abandoned.
Abandon ==
  /\ scan_busy' = FALSE /\ scan_state' = "IDLE"
  /\ bus1' = Finished(bus1, FALSE)
  /\ late' = {}
  /\ UNCHANGED << scan_round, round_idx, alarm, sampled, calVars >>

TransferFails ==
  /\ FALSE \in Outcomes(bus1)
  /\ Abandon
  /\ \/ UNCHANGED converterVars
     \/ bus1.state = "WRITING" /\ Convert(bus1.transfer.device, bus1.transfer.channel)
  /\ UNCHANGED << arming, disturbed >>

\* Fault variant: the alarm is for the conversion that began first.
SinceTheFirst == 0

\* The wait of a round begins with its last conversion.
ConversionWait == AlarmTime

ConfigWritten ==
  /\ TRUE \in Outcomes(bus1) /\ scan_state = "WRITING_CONFIG"
  /\ Convert(bus1.transfer.device, bus1.transfer.channel)
  /\ IF Later(scan_round, round_idx) # {}
       THEN /\ round_idx' = Least(Later(scan_round, round_idx))
            /\ bus1' = Writing(Finished(bus1, TRUE), Transfer(scan_round, round_idx'))
            /\ UNCHANGED << scan_state, alarm >>
       ELSE /\ bus1' = Finished(bus1, TRUE)
            /\ scan_state' = "WAIT_CONVERSION" /\ alarm' = ConversionWait
            /\ UNCHANGED round_idx
  /\ UNCHANGED << scan_busy, scan_round, sampleVars, calVars, arming, disturbed >>

\* ads1115_conversion_timer_callback.
AlarmFires ==
  /\ alarm = 0 /\ alarm' = -1
  /\ scan_state' = "READING_CONVERSION" /\ round_idx' = Least(InRound(scan_round))
  /\ bus1' = Reading(bus1, Transfer(scan_round, round_idx'))
  /\ UNCHANGED << scan_busy, scan_round, converterVars, sampleVars, calVars, arming, disturbed >>

\* ads1115_store_sample; a calibration takes the sample too.
StoreSample(channel, device) ==
  /\ sampled' = [sampled EXCEPT ![channel] =
                   IF converted_left[device] = 0 THEN converting[device] ELSE NoReading]
  /\ IF cal_samples_left[channel] > 0
       THEN /\ cal_samples_left' = [cal_samples_left EXCEPT ![channel] = @ - 1]
            /\ cal_taken' = [cal_taken EXCEPT ![channel] = @ + 1]
       ELSE UNCHANGED calVars

ConversionRead ==
  /\ TRUE \in Outcomes(bus1) /\ scan_state = "READING_CONVERSION"
  /\ StoreSample(RoundChannel(scan_round, round_idx), bus1.transfer.device)
  /\ IF Later(scan_round, round_idx) # {}
       THEN /\ round_idx' = Least(Later(scan_round, round_idx))
            /\ bus1' = Reading(Finished(bus1, TRUE), Transfer(scan_round, round_idx'))
            /\ UNCHANGED << scan_state, scan_busy, scan_round, late >>
       ELSE StartRound(scan_round + 1) /\ late' = {}
  /\ UNCHANGED << alarm, converterVars, arming, disturbed >>

ConverterPasses ==
  /\ alarm > 0 \/ \E d \in DOMAIN ChannelsOf : converted_left[d] > 0
  /\ alarm' = IF alarm > 0 THEN alarm - 1 ELSE alarm
  /\ converted_left' = [d \in DOMAIN ChannelsOf |->
                          IF converted_left[d] > 0 THEN converted_left[d] - 1 ELSE 0]
  /\ UNCHANGED << bus1, scanVars, converting, sampleVars, calVars, arming, disturbed >>
-----------------------------------------------------------------------------
(* Calibration, from the control loop. *)

\* ads1115_start_calibration, a channel at a time: first the sum, then the count, which
\* is 0 where no converter would ever count it down.  Steps are numbered; -1 is none.
CalibrationBegins ==
  /\ arming = -1 /\ arming' = 0
  /\ disturbed' = (\E c \in Channels : cal_samples_left[c] > 0)
  /\ UNCHANGED << bus1, scanVars, alarm, converterVars, sampleVars, calVars >>

ToTake(channel) == IF Present(channel) THEN Samples ELSE 0

\* Fault variant: a channel is counted from before its sum is cleared.
CountBeforeSum(channel, first) ==
  IF first THEN cal_samples_left' = [cal_samples_left EXCEPT ![channel] = ToTake(channel)]
                /\ UNCHANGED cal_taken
           ELSE cal_taken' = [cal_taken EXCEPT ![channel] = 0] /\ UNCHANGED cal_samples_left

Arm(channel, first) ==
  IF first THEN cal_taken' = [cal_taken EXCEPT ![channel] = 0] /\ UNCHANGED cal_samples_left
           ELSE cal_samples_left' = [cal_samples_left EXCEPT ![channel] = ToTake(channel)]
                /\ UNCHANGED cal_taken

CalibrationArms ==
  /\ arming >= 0
  /\ Arm(arming \div 2, arming % 2 = 0)
  /\ arming' = IF arming + 1 = 2 * Cardinality(Channels) THEN -1 ELSE arming + 1
  /\ UNCHANGED << bus1, scanVars, alarm, converterVars, sampleVars, disturbed >>
-----------------------------------------------------------------------------
Ads1115Next ==
  \/ PeriodicTimer \/ TransferFails \/ ConfigWritten \/ AlarmFires \/ ConversionRead
  \/ ConverterPasses \/ CalibrationBegins \/ CalibrationArms

Ads1115Spec == Ads1115Init /\ [][Ads1115Next]_ads1115Vars
-----------------------------------------------------------------------------
\* A sample is a finished conversion of its own channel, whichever transfers of this
\* cycle or of an abandoned one failed, and whether or not they reached a converter.
\* Excepted is the first round of a cycle that the periodic timer begins while a
\* converter has yet to finish what it did for the abandoned one: its first channel may
\* be given that result, of another channel of the same converter.
SamplesAreTheirOwn ==
  [][ConversionRead =>
       LET channel == RoundChannel(scan_round, round_idx)
           device == Devices[round_idx]
       IN \/ sampled' = [sampled EXCEPT ![channel] = channel]
          \/ /\ device \in late /\ channel = ChannelsOf[device][1]
             /\ \E other \in ChannelsAt(device) :
                  sampled' = [sampled EXCEPT ![channel] = other]]_ads1115Vars

\* A sum for calibration is of exactly the samples asked for, although they are added
\* in an interrupt that may come between any two of the steps that ask for them.
\* Excepted is a calibration begun while another one, given up, is still summing.
CalibrationSumsAreWhole ==
  (arming = -1 /\ ~disturbed) =>
    \A c \in Channels : cal_taken[c] + cal_samples_left[c] \in {0, Samples}
===============================================================================
