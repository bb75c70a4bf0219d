--------------------------------- MODULE Ina228 ---------------------------------
(***************************************************************************)
(* drivers/sensors/ina228.c: a timer (160 ms) reads the current, and now    *)
(* and then has the chip measure its own temperature or that of the shunt   *)
(* instead.  Four parties: the timer and the end of the transfers, both     *)
(* interrupts; the chip; and the control loop, whose steps on the shared    *)
(* variables are apart because an interrupt may come between any two.       *)
(***************************************************************************)
EXTENDS Integers, I2c

CONSTANTS
  ConversionTime, WaitTime,      \* of the chip, and as the driver waits for it
  Interval                       \* INA228_TEMP_MEASURE_INTERVAL_SAMPLES

ASSUME Ina228Assumption ==
  /\ ConversionTime \in Nat \ {0} /\ WaitTime \in Nat /\ WaitTime >= ConversionTime
  /\ Interval \in Nat \ {0}

VARIABLES
  i2c,
  meas_state, meas_is_ntc,
  waited,                          \* since trigger_written_us, up to WaitTime
  temp_result_is_ntc, temp_raw,    \* temp_raw: what latest_temp_raw is a reading of
  temp_reading_available,
  new_reading,                     \* async_new_reading_available
  temp_interval_counter,
  control,                         \* where ina228_read_current_async is, and what it holds
  held_is_ntc, held_raw,
  model_temp,                      \* what the values the model stores are readings of
  chip, chip_left                  \* what the chip measures, and for how long yet

ina228Vars == << i2c, meas_state, meas_is_ntc, waited, temp_result_is_ntc, temp_raw,
                 temp_reading_available, new_reading, temp_interval_counter, control,
                 held_is_ntc, held_raw, model_temp, chip, chip_left >>
loopVars == << temp_interval_counter, control, held_is_ntc, held_raw, model_temp >>
chipVars == << chip, chip_left >>

Channel(is_ntc) == IF is_ntc THEN "bus" ELSE "temp"

\* What the registers hold until a triggered conversion is complete.
Unfinished == "unfinished"

\* ina228_init and ina228_configure, which wait for each of their transfers.
Ina228Init ==
  /\ i2c = IdleContext
  /\ meas_state = "CURRENT" /\ meas_is_ntc = FALSE /\ waited = WaitTime
  /\ temp_result_is_ntc = FALSE /\ temp_raw = Unfinished /\ temp_reading_available = FALSE
  /\ new_reading = FALSE /\ temp_interval_counter = 0
  /\ control = "idle" /\ held_is_ntc = FALSE /\ held_raw = Unfinished
  /\ model_temp = [is_ntc \in BOOLEAN |-> Channel(is_ntc)]
  /\ chip = "shunt" /\ chip_left = 0
-----------------------------------------------------------------------------
(* The timer. *)

Converted == waited = WaitTime

\* timer_callback: nothing is started while a transfer is under way.
TimerFires ==
  /\ ~Busy(i2c)
  /\ \/ meas_state = "CURRENT" /\ i2c' = DualReading(i2c, "current")
     \/ meas_state = "TRIGGER_PENDING" /\ i2c' = Writing(i2c, Channel(meas_is_ntc))
     \/ meas_state = "CONVERTING" /\ Converted /\ i2c' = Reading(i2c, Channel(meas_is_ntc))
     \/ meas_state = "RESTORE_PENDING" /\ i2c' = Writing(i2c, "shunt")
  /\ UNCHANGED << meas_state, meas_is_ntc, waited, temp_result_is_ntc, temp_raw,
                  temp_reading_available, new_reading, loopVars, chipVars >>
-----------------------------------------------------------------------------
(* The end of a transfer. *)

resultVars == << temp_result_is_ntc, temp_raw, temp_reading_available >>

\* on_read_complete: a reading counts if the chip says that it is a new one.
OnReadComplete(success) ==
  /\ i2c.state = "READING" /\ i2c.transfer = "current"
  /\ new_reading' \in IF success THEN {new_reading, TRUE} ELSE {new_reading}
  /\ UNCHANGED << meas_state, waited, resultVars, chipVars >>

\* What a configuration write does to the chip; one that fails may have reached it.
ConfigReaches(success) ==
  \/ chip' = i2c.transfer /\ chip_left' = ConversionTime
  \/ ~success /\ UNCHANGED chipVars

\* Fault variant: a write that fails is given up, and current is read as before.
OnConfigWriteGivesUp(success) ==
  /\ i2c.state = "WRITING" /\ ConfigReaches(success)
  /\ meas_state' = IF success /\ meas_state = "TRIGGER_PENDING" THEN "CONVERTING" ELSE "CURRENT"
  /\ waited' = IF success /\ meas_state = "TRIGGER_PENDING" THEN 0 ELSE waited
  /\ UNCHANGED << resultVars, new_reading >>

\* on_config_write_complete: after a failure the timer tries again.
OnConfigWriteComplete(success) ==
  /\ i2c.state = "WRITING" /\ ConfigReaches(success)
  /\ meas_state' =
       CASE success /\ meas_state = "TRIGGER_PENDING" -> "CONVERTING"
         [] success /\ meas_state = "RESTORE_PENDING" -> "CURRENT"
         [] OTHER -> meas_state
  /\ waited' = IF success /\ meas_state = "TRIGGER_PENDING" THEN 0 ELSE waited
  /\ UNCHANGED << resultVars, new_reading >>

\* on_temp_read_complete: which of the two it was is taken from the request.
OnTempReadComplete(success) ==
  /\ i2c.state = "READING" /\ i2c.transfer # "current"
  /\ IF ~success THEN UNCHANGED << meas_state, resultVars >>
     ELSE /\ temp_raw' = IF chip = i2c.transfer /\ chip_left = 0 THEN chip ELSE Unfinished
          /\ temp_result_is_ntc' = meas_is_ntc
          /\ temp_reading_available' = TRUE
          /\ meas_state' = "RESTORE_PENDING"
  /\ UNCHANGED << waited, new_reading, chipVars >>

TransferEnds(success) ==
  /\ success \in Outcomes(i2c)
  /\ OnReadComplete(success) \/ OnConfigWriteComplete(success) \/ OnTempReadComplete(success)
  /\ i2c' = Finished(i2c, success)
  /\ UNCHANGED << meas_is_ntc, loopVars >>
-----------------------------------------------------------------------------
(* ina228_read_current_async. *)

sharedVars == << i2c, waited, chipVars >>

TakeTemperature ==
  /\ control = "idle"
  /\ IF temp_reading_available
       THEN /\ held_is_ntc' = temp_result_is_ntc /\ held_raw' = temp_raw
            /\ control' = "taken"
       ELSE control' = "stored" /\ UNCHANGED << held_is_ntc, held_raw >>
  /\ UNCHANGED << sharedVars, meas_state, meas_is_ntc, resultVars, new_reading,
                  temp_interval_counter, model_temp >>

StoreTemperature ==
  /\ control = "taken" /\ control' = "stored"
  /\ temp_reading_available' = FALSE
  /\ model_temp' = [model_temp EXCEPT ![held_is_ntc] = held_raw]
  /\ UNCHANGED << sharedVars, meas_state, meas_is_ntc, temp_result_is_ntc, temp_raw,
                  new_reading, temp_interval_counter, held_is_ntc, held_raw >>

\* No new reading, or one that is counted; every so often, if the contactors are
\* settled, a temperature is asked for next.
TakeCurrent ==
  /\ control = "stored"
  /\ \/ ~new_reading /\ control' = "idle" /\ UNCHANGED << new_reading, temp_interval_counter >>
     \/ /\ new_reading /\ new_reading' = FALSE
        /\ \E contactors_settled \in BOOLEAN :
             IF temp_interval_counter + 1 >= Interval /\ meas_state = "CURRENT"
                  /\ contactors_settled
               THEN control' = "choose" /\ temp_interval_counter' = 0
               ELSE /\ control' = "idle"
                    /\ temp_interval_counter' =
                         IF temp_interval_counter < Interval THEN temp_interval_counter + 1
                                                             ELSE temp_interval_counter
  /\ UNCHANGED << sharedVars, meas_state, meas_is_ntc, resultVars, held_is_ntc, held_raw,
                  model_temp >>

\* Fault variant: the channel is chosen after the timer has been told to go ahead.
ChooseThenRequestSwapped ==
  /\ \/ control = "choose" /\ control' = "request"
        /\ meas_state' = "TRIGGER_PENDING" /\ UNCHANGED meas_is_ntc
     \/ control = "request" /\ control' = "idle"
        /\ meas_is_ntc' = ~meas_is_ntc /\ UNCHANGED meas_state
  /\ UNCHANGED << sharedVars, resultVars, new_reading, temp_interval_counter, held_is_ntc,
                  held_raw, model_temp >>

ChooseThenRequest ==
  /\ \/ control = "choose" /\ control' = "request"
        /\ meas_is_ntc' = ~meas_is_ntc /\ UNCHANGED meas_state
     \/ control = "request" /\ control' = "idle"
        /\ meas_state' = "TRIGGER_PENDING" /\ UNCHANGED meas_is_ntc
  /\ UNCHANGED << sharedVars, resultVars, new_reading, temp_interval_counter, held_is_ntc,
                  held_raw, model_temp >>

ReadCurrentAsync == TakeTemperature \/ StoreTemperature \/ TakeCurrent \/ ChooseThenRequest
-----------------------------------------------------------------------------
\* Time passes: for the chip, and for the driver that waits for it.
Pass ==
  /\ chip_left > 0 \/ waited < WaitTime
  /\ chip_left' = IF chip_left > 0 THEN chip_left - 1 ELSE 0
  /\ waited' = IF waited < WaitTime THEN waited + 1 ELSE waited
  /\ UNCHANGED << i2c, meas_state, meas_is_ntc, resultVars, new_reading, loopVars, chip >>

Ina228Next ==
  \/ TimerFires \/ (\E success \in BOOLEAN : TransferEnds(success))
  \/ ReadCurrentAsync \/ Pass

\* The timer and the loop go on, every transfer ends, and not all of them badly.
Ina228Fairness ==
  /\ WF_ina228Vars(TimerFires) /\ WF_ina228Vars(ReadCurrentAsync) /\ WF_ina228Vars(Pass)
  /\ WF_ina228Vars(\E success \in BOOLEAN : TransferEnds(success))
  /\ SF_ina228Vars(TransferEnds(TRUE))

Ina228Spec == Ina228Init /\ [][Ina228Next]_ina228Vars /\ Ina228Fairness
-----------------------------------------------------------------------------
\* A temperature of the model is a finished conversion of its own channel, although
\* what was triggered, what is read and what the reading is taken for are settled at
\* three moments by two parties.
TemperaturesAreTheirOwn == \A is_ntc \in BOOLEAN : model_temp[is_ntc] = Channel(is_ntc)

\* Whatever transfers fail, a measurement of temperature comes to an end and current
\* is measured again.
CurrentResumes == (meas_state # "CURRENT") ~> (meas_state = "CURRENT" /\ chip = "shunt")
===============================================================================
