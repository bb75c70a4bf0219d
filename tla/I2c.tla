---------------------------------- MODULE I2c ----------------------------------
(***************************************************************************)
(* drivers/chip/i2c.c: the context of one I2C instance.  A transfer is      *)
(* started from a timer or from the end of the one before, and ended by the *)
(* interrupt, which tells the driver that started it.  The transfer of a    *)
(* context is whatever its driver needs to know of it: buffer and callback. *)
(***************************************************************************)
CONSTANT NoTransfer

IdleContext == [state |-> "IDLE", transfer |-> NoTransfer]

\* i2c_async_is_busy.
Busy(context) == context.state \in {"READING", "WRITING"}

\* i2c_async_read_reg and i2c_async_read_regs_dual, i2c_async_write_reg: refused while
\* a transfer is under way.  (The other refusal, for want of room in the FIFO, which
\* the end of every transfer leaves empty, does not arise.)
Reading(context, transfer) ==
  IF Busy(context) THEN context ELSE [state |-> "READING", transfer |-> transfer]

DualReading(context, transfer) ==
  IF Busy(context) THEN context ELSE [state |-> "READING", transfer |-> transfer]

Writing(context, transfer) ==
  IF Busy(context) THEN context ELSE [state |-> "WRITING", transfer |-> transfer]

\* i2c_finish: the state is set before the callback runs, which may start the next.
Finished(context, success) ==
  [context EXCEPT !.state = IF success THEN "IDLE" ELSE "ERROR"]

\* i2c_irq_handler_internal: an abort ends any transfer; a read ends when the FIFO has
\* it whole, a write when it is drained and the bus is idle.
Outcomes(context) == IF Busy(context) THEN BOOLEAN ELSE {}
===============================================================================
