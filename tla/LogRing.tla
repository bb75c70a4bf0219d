-------------------------------- MODULE LogRing --------------------------------
(***************************************************************************)
(* sys/logging/logging.c: a ring that overwrites its oldest bytes, written  *)
(* by the main loop and by interrupt handlers with interrupts disabled, and *)
(* read by two readers of the main loop without disabling them.  An         *)
(* interrupt may write between any two steps of a read.                     *)
(*                                                                         *)
(* A byte is the number of its write, so that a property can tell whether a *)
(* reader gets what its count says; numbers and counts wrap at CountLimit,  *)
(* which stands for 2^32.  A record has any length up to a bound; in the    *)
(* code it is what vsnprintf returns, which counts the whole message even   *)
(* where the buffer it formats into holds only 255 characters of it.        *)
(***************************************************************************)
EXTENDS Integers, Sequences

CONSTANTS
  Readers,           \* RB_STDOUT_READER, RB_HMI_READER
  LogSize,           \* the size of the ring
  MaxRecord,         \* bound: bytes written at a time
  MaxRead,           \* bound: bytes asked for at a time
  CountLimit         \* where the counters wrap

ASSUME LogAssumption ==
  /\ LogSize \in Nat \ {0} /\ MaxRecord \in Nat \ {0} /\ MaxRead \in Nat \ {0}
  /\ CountLimit \in Nat /\ CountLimit % LogSize = 0 /\ CountLimit > 2 * LogSize + MaxRecord

VARIABLES
  buffer, head, write_count,    \* of the ring
  tail, read_count,             \* of each reader
  reading,                      \* the read under way: reader, length, what it loaded
  got,                          \* the bytes the last read returned, and their numbers
  interrupted,                  \* history: a write came during the read under way
  misled                        \* history: readers whose jump was interrupted

writer == << buffer, head, write_count >>
readers == << tail, read_count >>
logVars == << writer, readers, reading, got, interrupted, misled >>

NotReading == [at |-> "none"]
NothingRead == [bytes |-> << >>, from |-> 0, whole |-> FALSE]

LogInit ==
  /\ buffer = [i \in 0 .. (LogSize - 1) |-> 0]
  /\ head = 0 /\ write_count = 0
  /\ tail = [r \in Readers |-> 0] /\ read_count = [r \in Readers |-> 0]
  /\ reading = NotReading /\ got = NothingRead
  /\ interrupted = FALSE /\ misled = {}

Unread(r, count) == (count + CountLimit - read_count[r]) % CountLimit

\* rb_write, by the loop when it is not reading or by an interrupt at any time.
\* A record longer than the ring leaves its end there.  No reader gets behind by
\* CountLimit bytes, 4 GB in the code (a bound).
Write(len) ==
  /\ \A r \in Readers : Unread(r, write_count) + len < CountLimit
  /\ buffer' = [i \in DOMAIN buffer |->
                  LET offset == (i + LogSize - head) % LogSize
                      \* the last byte of the record that falls on place i
                      last == offset + LogSize * ((len - 1 - offset) \div LogSize)
                  IN IF offset < len THEN (write_count + last) % CountLimit ELSE buffer[i]]
  /\ head' = (head + len) % LogSize
  /\ write_count' = (write_count + len) % CountLimit
  /\ interrupted' = (reading # NotReading)
  /\ UNCHANGED << readers, reading, got, misled >>

\* rb_read loads write_count first ...
LoadCount(r, len) ==
  /\ reading = NotReading
  /\ reading' = [at |-> "counted", reader |-> r, len |-> len, count |-> write_count]
  /\ interrupted' = FALSE /\ got' = NothingRead
  /\ UNCHANGED << writer, readers, misled >>

\* Fault variant: a lapped reader keeps its place in the ring.
LoadHeadNoJump ==
  /\ reading.at = "counted"
  /\ LET r == reading.reader IN
       /\ read_count' = IF Unread(r, reading.count) > LogSize
                          THEN [read_count EXCEPT ![r] = (reading.count + CountLimit - LogSize) % CountLimit]
                          ELSE read_count
       /\ UNCHANGED << tail, misled >>
       /\ reading' = [reading EXCEPT !.at = "copying"]
  /\ UNCHANGED << writer, got, interrupted >>

\* ... then head; a reader that the writer has lapped jumps to the oldest byte.
LoadHead ==
  /\ reading.at = "counted"
  /\ LET r == reading.reader IN
       IF Unread(r, reading.count) > LogSize
         THEN /\ tail' = [tail EXCEPT ![r] = head]
              /\ read_count' =
                   [read_count EXCEPT ![r] = (reading.count + CountLimit - LogSize) % CountLimit]
              /\ misled' = IF interrupted THEN misled \union {r} ELSE misled \ {r}
         ELSE UNCHANGED << readers, misled >>
  /\ reading' = [reading EXCEPT !.at = "copying"]
  /\ UNCHANGED << writer, got, interrupted >>

\* The copy, clamped to what was unread when write_count was loaded.
Copy ==
  /\ reading.at = "copying"
  /\ LET r == reading.reader
         unread == Unread(r, reading.count)
         n == IF reading.len > unread THEN unread ELSE reading.len
     IN /\ got' = [bytes |-> [k \in 1 .. n |-> buffer[(tail[r] + k - 1) % LogSize]],
                   from |-> read_count[r],
                   whole |-> ~interrupted /\ r \notin misled]
        /\ tail' = [tail EXCEPT ![r] = (tail[r] + n) % LogSize]
        /\ read_count' = [read_count EXCEPT ![r] = (read_count[r] + n) % CountLimit]
  /\ reading' = NotReading /\ interrupted' = FALSE
  /\ UNCHANGED << writer, misled >>

LogNext ==
  \/ \E len \in 1 .. MaxRecord : Write(len)
  \/ \E r \in Readers, len \in 1 .. MaxRead : LoadCount(r, len)
  \/ LoadHead
  \/ Copy

LogSpec == LogInit /\ [][LogNext]_logVars
-----------------------------------------------------------------------------
\* A read during which nothing was written returns the oldest bytes there are that the
\* reader has not been given, none twice and none out of order, over any number of laps
\* and although the ring and the counters wrap separately.  Excepted is a lapped reader
\* for whom rb_read took write_count and head from two different moments (logging.c:125):
\* it stays out of step until it is lapped again.
ReadsInOrder ==
  got.whole => \A k \in DOMAIN got.bytes : got.bytes[k] = (got.from + k - 1) % CountLimit
===============================================================================
