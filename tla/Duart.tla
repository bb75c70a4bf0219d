--------------------------------- MODULE Duart ---------------------------------
(***************************************************************************)
(* The sending side of drivers/comms/duart.c: a ring that the main loop     *)
(* fills and the interrupt handler of a DMA channel empties, a flag for     *)
(* whoever starts transfers, and the pin of a shared line, which an alarm   *)
(* gives up when the transfer is over.                                      *)
(*                                                                         *)
(* The handlers run whole between any two steps of the main loop.  A step   *)
(* of duart_send ends where a handler may see or change what it reads next: *)
(* after taking the flag, after ringbuf_write has loaded read_idx, and      *)
(* after its store.  The main loop is the only writer, so the lock of the   *)
(* ring is always free.                                                     *)
(***************************************************************************)
EXTENDS RingBuf, Sequences, FiniteSets

CONSTANTS
  Bytes,               \* the values of a byte
  Messages,            \* what is sent, each a sequence of bytes
  SharedLine,          \* deassert_tx_when_idle
  MaxAlarms            \* bound: alarms pending at a time

ASSUME DuartAssumption ==
  /\ Bytes # {} /\ Messages \subseteq Seq(Bytes)
  /\ \A m \in Messages : Len(m) \in 1 .. Capacity
  /\ SharedLine \in BOOLEAN
  /\ MaxAlarms \in Nat \ {0}

VARIABLES
  read_idx, write_idx, data,    \* of tx_ringbuf
  tx_active,                    \* the flag
  tx_sending,                   \* length of the transfer under way, or 0
  dma_from,                     \* where in the array it began
  tx_pin,                       \* whether the pin drives the line
  alarms,                       \* disable_tx_callback pending
  at,                           \* where duart_send is
  msg, blocking,                \* its argument, and who called it
  claimed, loaded, sent,        \* its locals: the flag, read_idx, the result
  line                          \* the last transfer, as it left

ring == << read_idx, write_idx, data >>
dma == << tx_active, tx_sending, dma_from, tx_pin, alarms, line >>
call == << at, msg, blocking, claimed, loaded, sent >>
duartVars == << ring, dma, call >>

Places == {"idle", "claim", "write", "store", "start", "return", "wait"}

\* Bytes waiting, and the number of them that a transfer can take.
Waiting == Size(read_idx, write_idx)

DuartInit ==
  /\ read_idx = 0 /\ write_idx = 2 * Capacity
  /\ data \in [0 .. (Capacity - 1) -> {CHOOSE b \in Bytes : TRUE}]
  /\ tx_active = FALSE /\ tx_sending = 0 /\ dma_from = 0
  /\ tx_pin = ~SharedLine /\ alarms = 0 /\ line = << >>
  /\ at = "idle" /\ msg = << >> /\ blocking = FALSE
  /\ claimed = FALSE /\ loaded = 0 /\ sent = FALSE
-----------------------------------------------------------------------------
\* duart_send and duart_send_blocking, in the main loop.

Send(m, block) ==
  /\ at = "idle"
  /\ at' = "claim" /\ msg' = m /\ blocking' = block
  /\ UNCHANGED << ring, dma, claimed, loaded, sent >>

\* Whether a transfer is under way decides who starts the next one.
Claim ==
  /\ at = "claim"
  /\ at' = "write" /\ claimed' = ~tx_active /\ tx_active' = TRUE
  /\ UNCHANGED << ring, tx_sending, dma_from, tx_pin, alarms, line, msg, blocking, loaded, sent >>

Load ==
  /\ at = "write"
  /\ at' = "store" /\ loaded' = read_idx
  /\ UNCHANGED << ring, dma, msg, blocking, claimed, sent >>

\* The bytes of m from index w on, wrapping at the end of the array.
Stored(w, m) ==
  [i \in DOMAIN data |->
     LET k == Idx(i + Capacity - Idx(w)) + 1 IN IF k \in DOMAIN m THEN m[k] ELSE data[i]]

\* Fault variant: a transfer is started by whoever has added to the ring.
StoreStartsItsOwn ==
  /\ at = "store"
  /\ LET n == Writes(loaded, write_idx, Len(msg)) IN
       /\ sent' = (n > 0)
       /\ data' = IF n > 0 THEN Stored(write_idx, msg) ELSE data
       /\ write_idx' = AfterWrite(write_idx, n)
       /\ at' = IF claimed /\ n > 0 THEN "start" ELSE "return"
  /\ UNCHANGED << read_idx, dma, msg, blocking, claimed, loaded >>

Store ==
  /\ at = "store"
  /\ LET n == Writes(loaded, write_idx, Len(msg)) IN
       /\ sent' = (n > 0)
       /\ data' = IF n > 0 THEN Stored(write_idx, msg) ELSE data
       /\ write_idx' = AfterWrite(write_idx, n)
  /\ at' = IF claimed THEN "start" ELSE "return"
  /\ UNCHANGED << read_idx, dma, msg, blocking, claimed, loaded >>

\* Whoever has the flag sends what the ring holds, its own bytes or older ones.
Start ==
  /\ at = "start"
  /\ IF Waiting > 0
       THEN /\ tx_sending' = Contiguous(read_idx, write_idx) /\ dma_from' = Idx(read_idx)
            /\ tx_pin' = TRUE
            /\ UNCHANGED tx_active
       ELSE tx_active' = FALSE /\ UNCHANGED << tx_sending, dma_from, tx_pin >>
  /\ at' = "return"
  /\ UNCHANGED << ring, alarms, line, msg, blocking, claimed, loaded, sent >>

\* The locals end with the call; a blocking one is repeated until it succeeds.
Return ==
  /\ at = "return"
  /\ claimed' = FALSE /\ loaded' = 0 /\ sent' = FALSE
  /\ IF blocking /\ ~sent
       THEN at' = "wait" /\ UNCHANGED << msg, blocking >>
       ELSE at' = "idle" /\ msg' = << >> /\ blocking' = FALSE
  /\ UNCHANGED << ring, dma >>

\* dma_channel_wait_for_finish_blocking.
WaitForDma ==
  /\ at = "wait" /\ tx_sending = 0
  /\ at' = "claim"
  /\ UNCHANGED << ring, dma, msg, blocking, claimed, loaded, sent >>
-----------------------------------------------------------------------------
\* The handlers.

\* The transfer is over: its bytes leave the ring, and the next one starts or
\* the alarms are set to alarm.
Completed(alarm) ==
  /\ tx_sending > 0
  /\ line' = [i \in 1 .. tx_sending |-> data[dma_from + i - 1]]
  /\ read_idx' = AfterRead(read_idx, tx_sending)
  /\ IF Size(read_idx', write_idx) > 0
       THEN /\ tx_sending' = Contiguous(read_idx', write_idx) /\ dma_from' = Idx(read_idx')
            /\ UNCHANGED << tx_active, alarms >>
       ELSE tx_sending' = 0 /\ tx_active' = FALSE /\ alarms' = alarm /\ UNCHANGED dma_from
  /\ UNCHANGED << write_idx, data, tx_pin, call >>

\* Fault variant: the flag is not given back with the last transfer.
TxCompleteKeepsFlag ==
  /\ tx_sending > 0
  /\ line' = [i \in 1 .. tx_sending |-> data[dma_from + i - 1]]
  /\ read_idx' = AfterRead(read_idx, tx_sending)
  /\ IF Size(read_idx', write_idx) > 0
       THEN /\ tx_sending' = Contiguous(read_idx', write_idx) /\ dma_from' = Idx(read_idx')
            /\ UNCHANGED alarms
       ELSE tx_sending' = 0 /\ alarms' = MaxAlarms /\ UNCHANGED dma_from
  /\ UNCHANGED << tx_active, write_idx, data, tx_pin, call >>

TxComplete == Completed(IF SharedLine /\ alarms < MaxAlarms THEN alarms + 1 ELSE alarms)

\* Fault variant: the callback does not look at the flag.
DisableTxAnyway ==
  /\ alarms > 0 /\ alarms' = alarms - 1 /\ tx_pin' = FALSE
  /\ UNCHANGED << ring, tx_active, tx_sending, dma_from, line, call >>

\* disable_tx_callback: the pin is given up unless a transfer owns it again.
DisableTx ==
  /\ alarms > 0
  /\ alarms' = alarms - 1
  /\ tx_pin' = (tx_pin /\ tx_active)
  /\ UNCHANGED << ring, tx_active, tx_sending, dma_from, line, call >>

SendStep == Claim \/ Load \/ Store \/ Start \/ Return \/ WaitForDma

DuartNext ==
  \/ \E m \in Messages, block \in BOOLEAN : Send(m, block)
  \/ SendStep
  \/ TxComplete
  \/ DisableTx

\* The loop goes on with a call it has begun; transfers end and alarms fire.
DuartFairness ==
  /\ WF_duartVars(SendStep)
  /\ WF_duartVars(TxComplete)
  /\ WF_duartVars(DisableTx)

DuartSpec == DuartInit /\ [][DuartNext]_duartVars /\ DuartFairness
-----------------------------------------------------------------------------
DuartTypeOK ==
  /\ read_idx \in ReadIdxs /\ write_idx \in WriteIdxs
  /\ data \in [0 .. (Capacity - 1) -> Bytes]
  /\ tx_active \in BOOLEAN /\ tx_sending \in 0 .. Capacity
  /\ dma_from \in 0 .. (Capacity - 1)
  /\ tx_pin \in BOOLEAN /\ alarms \in 0 .. MaxAlarms
  /\ at \in Places /\ msg \in Messages \union {<< >>} /\ blocking \in BOOLEAN
  /\ claimed \in BOOLEAN /\ loaded \in ReadIdxs /\ sent \in BOOLEAN

\* The main loop is about to start a transfer.
Starting == claimed /\ at \in {"write", "store", "start"}

\* While a transfer runs, on_uart_tx_complete alone may start the next one, and
\* while duart_send has the flag no transfer runs: the flag has one holder, and
\* nobody has it when neither needs it.
FlagHasOneHolder ==
  /\ tx_active <=> (Starting \/ tx_sending > 0)
  /\ ~(Starting /\ tx_sending > 0)

\* A transfer stays within what has been written, and its pin drives the line
\* until its end, whatever alarms of earlier transfers are still to come
\* (disable_tx_callback).
TransferOwnsItsBytes ==
  tx_sending > 0 =>
    /\ tx_sending <= Waiting
    /\ dma_from = Idx(read_idx) /\ dma_from + tx_sending <= Capacity
    /\ tx_pin

\* Whatever the interleaving of duart_send and its handlers, and wherever the
\* indices wrap, the ring and the line are a queue of bytes: a message is taken
\* whole or not at all, and sent once and in order.
Queue == INSTANCE ByteQueue WITH
  Room <- Capacity,
  waiting <- [i \in 1 .. Waiting |-> data[Idx(read_idx + i - 1)]]
SentInOrder == Queue!QueueSpec

\* duart_send_blocking gets room in the end, and returns.
BlockingSendReturns == (at = "wait") ~> (at = "idle")

\* What is taken does not wait for ever as long as there are calls of duart_send,
\* whether or not these find room themselves.
SentWhileCalled == []<>(at = "claim") => []((Waiting > 0) => <>(tx_sending > 0))

===============================================================================
