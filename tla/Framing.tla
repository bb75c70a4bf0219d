-------------------------------- MODULE Framing --------------------------------
(***************************************************************************)
(* The frames of the serial links, <sync> <length-1> <payload> <crc16>, and *)
(* the two parsers of them.  The supervisor feeds sup_frame_feed            *)
(* (shared/supervisor_protocol.c) byte by byte.  The battery controller     *)
(* polls duart_read_packet (drivers/comms/duart.c), which looks at a ring   *)
(* that DMA fills while it reads.  Both listen to one line here, on which   *)
(* bytes get lost, changed and added.                                       *)
(*                                                                         *)
(* A byte of the line is a record: v is its value, and payload and half say *)
(* of which payload it is which byte of the CRC, if it is one.  The value   *)
(* of a CRC byte is any there is, so that a parser out of step may take it  *)
(* for a sync or a length byte; in matching, the CRC is ideal: only the CRC *)
(* that was sent with a payload is that of the payload.                     *)
(***************************************************************************)
EXTENDS Integers, Sequences, SequencesExt

CONSTANTS
  Payloads,          \* the payloads sent, as sequences of values
  Crc,               \* the two values of each payload's CRC, the low byte first
  Values,            \* the values of bytes, of those that noise makes too
  Sync,              \* 0xFF
  MaxPayload,        \* of the supervisor's parser, and the controller's buffer
  RxSize,            \* 1 << DUART_RX_BUFFER_BITS
  FeedLoss,          \* good frames that either parser may need after noise
  PollLoss,
  MaxNoise           \* bound: bytes lost, changed or added

ASSUME FramingAssumption ==
  /\ Sync \in Values /\ Values \subseteq Nat
  /\ MaxPayload \in Nat /\ FeedLoss \in Nat /\ PollLoss \in Nat /\ MaxNoise \in Nat
  /\ Payloads \subseteq Seq(Values) /\ \A p \in Payloads : Len(p) \in 1 .. MaxPayload
  /\ Crc \in [Payloads -> [{1, 2} -> Values]]
  /\ RxSize \in Nat /\ \A v \in Values : RxSize > v + 1 + 4

VARIABLES
  payload, place,          \* the frame being sent and its next byte
  spoiled,                 \* noise came while it was sent
  good, last,              \* history: good frames in a row that help, the last one
  noise,                   \* bound: noise yet to come
  feed_buf, feed_got,      \* the supervisor's parser, what it returned last
  rx, rx_pointer,          \* unread bytes in the controller's ring, and where
  poll_got                 \*   they begin; the packet read last

sender == << payload, place, spoiled, good, last, noise >>
feed == << feed_buf, feed_got >>
poll == << rx, rx_pointer, poll_got >>
framingVars == << sender, feed, poll >>

Plain(v) == [v |-> v, payload |-> << >>, half |-> 0]
CrcByte(p, half) == [v |-> Crc[p][half], payload |-> p, half |-> half]

\* sup_frame_encode, duart_send_packet.
Encode(p) ==
  << Plain(Sync), Plain(Len(p) - 1) >> \o [i \in DOMAIN p |-> Plain(p[i])]
    \o << CrcByte(p, 1), CrcByte(p, 2) >>

\* Whether the bytes low and high are the CRC of a frame with payload bytes.
CrcMatches(bytes, low, high) ==
  LET p == [i \in DOMAIN bytes |-> bytes[i].v] IN
  /\ \A i \in DOMAIN bytes : bytes[i].half = 0
  /\ low.payload = p /\ low.half = 1 /\ high.payload = p /\ high.half = 2

Nothing == << >>

FramingInit ==
  /\ payload = Nothing /\ place = 1 /\ spoiled = FALSE /\ good = 0 /\ last = Nothing
  /\ noise = MaxNoise
  /\ feed_buf = << >> /\ feed_got = Nothing
  /\ rx = << >> /\ rx_pointer = 0 /\ poll_got = Nothing
-----------------------------------------------------------------------------
\* sup_frame_feed: what is kept of a frame after one more byte, and the payload
\* returned.

\* Fault variant: a frame that is too long is waited for.
TooLongWaits(buf) == buf

\* Longer than any message of this link: that was no sync byte, this may be one.
TooLong(buf) == IF buf[2].v = Sync THEN << buf[2] >> ELSE << >>

Fed(buf, byte) ==
  LET more == Append(buf, byte)
      len == more[2].v + 1
      complete == Len(more) >= 2 /\ Len(more) = len + 4
      bytes == SubSeq(more, 3, 2 + len)
  IN CASE buf = << >> -> [buf |-> IF byte.v = Sync THEN more ELSE << >>, got |-> Nothing]
       [] Len(more) = 2 /\ len > MaxPayload -> [buf |-> TooLong(more), got |-> Nothing]
       [] complete -> [buf |-> << >>,
                       got |-> IF CrcMatches(bytes, more[len + 3], more[len + 4])
                                 THEN [i \in 1 .. len |-> bytes[i].v] ELSE Nothing]
       [] OTHER -> [buf |-> more, got |-> Nothing]

\* A byte gets to both receivers: rx_ring or the DMA ring.  The loops read often
\* enough that neither ring overruns.
Receive(byte) ==
  /\ Len(rx) < RxSize - 1
  /\ LET fed == Fed(feed_buf, byte) IN
       /\ feed_buf' = fed.buf
       /\ feed_got' = IF fed.got = Nothing THEN feed_got ELSE fed.got
  /\ rx' = Append(rx, byte)
  /\ UNCHANGED << rx_pointer, poll_got >>
-----------------------------------------------------------------------------
\* duart_read_packet, one turn of its loop.

\* The byte of the ring at array index i, where nothing wraps: what lies beyond
\* the end of the array, or has not been received, is not a byte of the line.
InArray(i) ==
  LET k == 1 + ((i + RxSize - rx_pointer) % RxSize) IN
  IF i < RxSize /\ k <= Len(rx) THEN rx[k] ELSE [v |-> 0, payload |-> << >>, half |-> 3]

\* duart_peek: bytes up to the end of the array.
ContiguousLen == IF Len(rx) > RxSize - rx_pointer THEN RxSize - rx_pointer ELSE Len(rx)

Flush(n) ==
  /\ rx' = SubSeq(rx, n + 1, Len(rx))
  /\ rx_pointer' = (rx_pointer + n) % RxSize

SkipByte ==
  /\ Len(rx) >= 5 /\ rx[1].v # Sync
  /\ Flush(1)
  /\ UNCHANGED << sender, feed, poll_got >>

\* The length byte follows the sync byte, across the end of the array if need be.
PayloadLen == InArray((rx_pointer + 1) % RxSize).v + 1
Whole == Len(rx) >= 5 /\ rx[1].v = Sync /\ PayloadLen + 4 <= Len(rx)

SkipTooBig ==
  /\ Whole /\ PayloadLen > MaxPayload
  /\ Flush(PayloadLen + 4)
  /\ UNCHANGED << sender, feed, poll_got >>

\* Payload and CRC, read in one piece from array index d.
InOnePiece(d) ==
  [bytes |-> [i \in 1 .. PayloadLen |-> InArray(d + i - 1)],
   low |-> InArray(d + PayloadLen), high |-> InArray(d + PayloadLen + 1)]

\* The payload in two pieces and the CRC after it, each peeked anew.
InPieces(d, first) ==
  LET crc == (rx_pointer + 2 + PayloadLen) % RxSize IN
  [bytes |-> [i \in 1 .. PayloadLen |->
                IF i <= first THEN InArray(d + i - 1)
                ELSE InArray(((rx_pointer + 2 + first) % RxSize) + i - first - 1)],
   low |-> InArray(crc), high |-> InArray((crc + 1) % RxSize)]

\* Fault variant: whether a packet is in one piece does not count its CRC.
ReadIgnoresCrc ==
  LET d == (rx_pointer + 2) % RxSize
      len == IF ContiguousLen <= 2 THEN Len(rx) ELSE ContiguousLen
  IN IF PayloadLen + 2 <= len THEN InOnePiece(d)
     ELSE InPieces(d, IF len - 2 > PayloadLen THEN PayloadLen ELSE len - 2)

\* If only the header is before the end of the array, the rest is in one piece.
ReadBytes ==
  LET d == (rx_pointer + 2) % RxSize
      len == IF ContiguousLen <= 2 THEN Len(rx) ELSE ContiguousLen
  IN IF PayloadLen + 4 <= len THEN InOnePiece(d)
     ELSE InPieces(d, IF len - 2 > PayloadLen THEN PayloadLen ELSE len - 2)

\* The packet is consumed whether or not its CRC matches.
ReadPacket ==
  /\ Whole /\ PayloadLen <= MaxPayload
  /\ poll_got' = IF CrcMatches(ReadBytes.bytes, ReadBytes.low, ReadBytes.high)
                   THEN [i \in 1 .. PayloadLen |-> ReadBytes.bytes[i].v] ELSE poll_got
  /\ Flush(PayloadLen + 4)
  /\ UNCHANGED << sender, feed >>

Poll == SkipByte \/ SkipTooBig \/ ReadPacket
-----------------------------------------------------------------------------
\* The line.

MostGood == IF FeedLoss > PollLoss THEN FeedLoss + 1 ELSE PollLoss + 1

\* A frame with a second byte that looks like a sync byte, in the payload or the
\* CRC, does not help a parser that may still be looking for one.
SyncInside(p) == Sync \in Range(p) \union Range(Crc[p])

\* After its last byte the sender is done.
AfterByte(hurt) ==
  IF place < Len(payload) + 4
    THEN place' = place + 1 /\ spoiled' = hurt /\ UNCHANGED << payload, good, last >>
    ELSE /\ payload' = Nothing /\ place' = 1 /\ spoiled' = FALSE /\ last' = payload
         /\ good' = CASE hurt -> 0
                      [] SyncInside(payload) /\ good < MostGood -> 0
                      [] OTHER -> IF good < MostGood THEN good + 1 ELSE good

StartFrame(p) ==
  /\ payload = Nothing
  /\ payload' = p
  /\ feed_got' = Nothing /\ poll_got' = Nothing
  /\ UNCHANGED << place, spoiled, good, last, noise, feed_buf, rx, rx_pointer >>

SendByte ==
  /\ payload # Nothing
  /\ Receive(Encode(payload)[place])
  /\ AfterByte(spoiled)
  /\ UNCHANGED noise

LoseByte ==
  /\ payload # Nothing
  /\ AfterByte(TRUE)
  /\ UNCHANGED << feed, poll >>

ChangeByte(v) ==
  /\ payload # Nothing
  /\ Receive(Plain(v))
  /\ AfterByte(TRUE)

AddByte(v) ==
  /\ Receive(Plain(v))
  /\ spoiled' = (payload # Nothing) /\ good' = 0
  /\ UNCHANGED << payload, place, last >>

Noise ==
  /\ noise > 0 /\ noise' = noise - 1
  /\ LoseByte \/ \E v \in Values : ChangeByte(v) \/ AddByte(v)

FramingNext == Poll \/ SendByte \/ Noise \/ \E p \in Payloads : StartFrame(p)

FramingSpec == FramingInit /\ [][FramingNext]_framingVars
-----------------------------------------------------------------------------
\* The supervisor's parser loses at most FeedLoss good frames once the noise has
\* ended, although it believes a length before it has checked the CRC, if these
\* frames come in a row and none has a sync byte inside, in payload or CRC; after
\* MostGood of them it loses no frame at all, whatever is inside.
FeedRecovers == good > FeedLoss /\ payload = Nothing => feed_got = last

\* So does duart_read_packet, after PollLoss such frames in a row, though it waits
\* for the longest packet a length byte can announce: when it has read all there
\* is, the last packet read is the last frame sent, wherever in the ring it lies
\* and wherever it wraps.
PollRecovers ==
  good > PollLoss /\ payload = Nothing /\ Len(rx) < 5 => poll_got = last
===============================================================================
