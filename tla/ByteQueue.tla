------------------------------- MODULE ByteQueue -------------------------------
(***************************************************************************)
(* What a serial sender promises: messages are taken whole or refused, and  *)
(* what leaves on the line is a prefix of what was taken, each byte once    *)
(* and in order.                                                            *)
(***************************************************************************)
EXTENDS Naturals, Sequences

CONSTANTS
  Messages,      \* sequences of bytes
  Room           \* bytes that may wait

VARIABLES
  waiting,       \* the bytes taken and not yet sent
  line           \* the last bytes sent

queueVars == << waiting, line >>

QueueInit == waiting = << >> /\ line = << >>

\* A message is taken.
Accept(m) ==
  /\ Len(waiting) + Len(m) <= Room
  /\ waiting' = waiting \o m
  /\ UNCHANGED line

\* The oldest n bytes leave.
Transmit(n) ==
  /\ line' = SubSeq(waiting, 1, n)
  /\ waiting' = SubSeq(waiting, n + 1, Len(waiting))

QueueNext == (\E m \in Messages : Accept(m)) \/ (\E n \in 1 .. Len(waiting) : Transmit(n))

QueueSpec == QueueInit /\ [][QueueNext]_queueVars
===============================================================================
