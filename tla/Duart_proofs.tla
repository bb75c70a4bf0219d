------------------------------ MODULE Duart_proofs ------------------------------
(***************************************************************************)
(* Proofs about the links.  Of the sending side of duart.c, for a ring of   *)
(* any capacity and messages of any kind: a transfer owns the bytes that it *)
(* sends, and the ring with its handlers is a queue of bytes.  Of the two   *)
(* parsers of frames, for any messages: they recover from noise.            *)
(***************************************************************************)
EXTENDS Duart, Framing, SequenceTheorems, WellFoundedInduction, TLAPS

(* What the index arithmetic of lib/ringbuf.h does, for a ring of any capacity: where  *)
(* the indices wrap, and where the array does.                                          *)

\* The place of an index is the index less whole rings.
LEMMA IdxIs ==
  ASSUME NEW i \in Nat, i < 4 * Capacity
  PROVE  /\ Idx(i) \in Nat /\ Idx(i) < Capacity
         /\ Idx(i) \in {i, i - Capacity, i - 2 * Capacity, i - 3 * Capacity}
<1> USE CapacityAssumption DEF Idx
<1>1. CASE i < Capacity
  BY <1>1
<1>2. CASE Capacity <= i /\ i < 2 * Capacity
  BY <1>2
<1>3. CASE 2 * Capacity <= i /\ i < 3 * Capacity
  BY <1>3
<1>4. CASE 3 * Capacity <= i
  BY <1>4
<1> QED
  BY <1>1, <1>2, <1>3, <1>4

\* How full a ring is, from its indices.
LEMMA SizeIs ==
  ASSUME NEW r \in ReadIdxs, NEW w \in WriteIdxs
  PROVE  Size(r, w) \in Nat /\ Size(r, w) \in {w - r, w - r - 2 * Capacity}
BY CapacityAssumption DEF Size, ReadIdxs, WriteIdxs

\* A write that fits makes the ring fuller by what it stores.
LEMMA AfterWriteIs ==
  ASSUME NEW r \in ReadIdxs, NEW w \in WriteIdxs, NEW n \in Nat, Size(r, w) + n <= Capacity
  PROVE  AfterWrite(w, n) \in WriteIdxs /\ Size(r, AfterWrite(w, n)) = Size(r, w) + n
<1> USE CapacityAssumption DEF ReadIdxs, WriteIdxs, Size
<1>1. CASE w + n < 4 * Capacity
  BY <1>1 DEF AfterWrite
<1>2. CASE w + n >= 4 * Capacity
  <2>1. n <= Capacity /\ w >= 3 * Capacity
    BY <1>2
  <2>2. Idx(w) = w - 3 * Capacity
    BY <2>1 DEF Idx
  <2>3. Beyond(w, n) = w + n - 4 * Capacity
    BY <1>2, <2>1, <2>2 DEF Beyond
  <2> QED
    BY <1>2, <2>1, <2>3 DEF AfterWrite
<1> QED
  BY <1>1, <1>2 

\* What a transfer takes is the oldest part of the ring, and it leaves the rest.
LEMMA ContiguousIs ==
  ASSUME NEW r \in ReadIdxs, NEW w \in WriteIdxs, Size(r, w) <= Capacity, Size(r, w) > 0
  PROVE  /\ Contiguous(r, w) \in Nat \ {0} /\ Contiguous(r, w) <= Size(r, w)
         /\ Idx(r) + Contiguous(r, w) <= Capacity
<1> USE CapacityAssumption DEF ReadIdxs, WriteIdxs
<1>1. Idx(r) \in Nat /\ Idx(r) < Capacity
  BY IdxIs
<1>2. Size(r, w) \in Nat
  BY DEF Size
<1>3. DEFINE sum == Idx(r) + Size(r, w)
<1>4. sum > Capacity => Beyond(r, Size(r, w)) = sum - Capacity
  BY <1>1, <1>2 DEF Beyond
<1>5. sum <= Capacity => Beyond(r, Size(r, w)) = 0
  BY <1>1, <1>2 DEF Beyond
<1> QED
  BY <1>1, <1>2, <1>4, <1>5 DEF Contiguous

\* A read leaves the ring emptier by what it takes.
LEMMA AfterReadIs ==
  ASSUME NEW r \in ReadIdxs, NEW w \in WriteIdxs, NEW n \in Nat, n <= Size(r, w),
         Idx(r) + n <= Capacity
  PROVE  /\ AfterRead(r, n) \in ReadIdxs /\ Size(AfterRead(r, n), w) = Size(r, w) - n
         /\ \/ AfterRead(r, n) = r + n
            \/ AfterRead(r, n) = r + n - 2 * Capacity
<1> USE CapacityAssumption DEF ReadIdxs, WriteIdxs, Size
<1>1. CASE r + n < 2 * Capacity
  BY <1>1 DEF AfterRead
<1>2. CASE r + n >= 2 * Capacity
  <2>1. PICK a \in Nat : /\ a = Idx(r)
                          /\ a \in {r, r - Capacity, r - 2 * Capacity, r - 3 * Capacity}
    BY IdxIs
  <2>2. a + n <= Capacity
    BY <2>1
  <2>3. Beyond(r, n) = 0
    BY <2>1, <2>2 DEF Beyond
  <2>4. r + n = 2 * Capacity
    BY <1>2, <2>1, <2>2
  <2> QED
    BY <1>2, <2>3, <2>4 DEF AfterRead
<1> QED
  BY <1>1, <1>2

\* The places of what waits, and of what is stored behind it.
LEMMA PlacesAre ==
  ASSUME NEW r \in ReadIdxs, NEW w \in WriteIdxs, NEW n \in Nat, Size(r, w) + n <= Capacity,
         NEW x \in 1 .. Size(r, w) + n
  PROVE  /\ Idx(r + x - 1) \in 0 .. (Capacity - 1)
         /\ LET k == Idx(Idx(r + x - 1) + Capacity - Idx(w)) + 1 IN
              IF x <= Size(r, w) THEN k > n ELSE k = x - Size(r, w)
<1> USE CapacityAssumption DEF ReadIdxs, WriteIdxs
<1>1. r \in Nat /\ w \in Nat /\ x \in Nat /\ Size(r, w) \in Nat
  BY SizeIs
<1>2. PICK a \in Nat : a = Idx(r + x - 1) /\ a < Capacity
         /\ a \in {r + x - 1, r + x - 1 - Capacity, r + x - 1 - 2 * Capacity}
  <2>1. r + x - 1 \in Nat /\ r + x - 1 < 3 * Capacity
    BY <1>1
  <2> QED
    BY <2>1, IdxIs
<1>3. PICK b \in Nat : b = Idx(w) /\ b < Capacity /\ b \in {w - 2 * Capacity, w - 3 * Capacity}
  BY IdxIs
<1>4. PICK d \in Nat : d = Size(r, w) /\ d \in {w - r, w - r - 2 * Capacity}
  BY SizeIs
<1>5. a + Capacity - b \in Nat /\ a + Capacity - b < 2 * Capacity
  BY <1>2, <1>3
<1>6. PICK c \in Nat : c = Idx(a + Capacity - b) /\ c < Capacity /\ c \in {a + Capacity - b, a - b}
  BY <1>5, IdxIs
<1>7. IF x <= d THEN c + 1 > n ELSE c + 1 = x - d
  BY <1>1, <1>2, <1>3, <1>4, <1>6
<1> QED
  BY <1>2, <1>3, <1>4, <1>6, <1>7

\* A transfer lies in one piece from where the ring begins.
LEMMA OffsetIs ==
  ASSUME NEW r \in ReadIdxs, NEW n \in Nat, Idx(r) + n <= Capacity, NEW i \in 1 .. n
  PROVE  Idx(r + i - 1) = Idx(r) + i - 1
<1> USE CapacityAssumption DEF ReadIdxs
<1>1. PICK a \in Nat : /\ a = Idx(r)
                       /\ a \in {r, r - Capacity, r - 2 * Capacity, r - 3 * Capacity}
  BY IdxIs
<1>2. a + n <= Capacity
  BY <1>1
<1>3. PICK b \in Nat : /\ b = Idx(r + i - 1) /\ b < Capacity
                       /\ b \in {r + i - 1, r + i - 1 - Capacity, r + i - 1 - 2 * Capacity,
                                 r + i - 1 - 3 * Capacity}
  <2>1. n <= Capacity
    BY <1>1, <1>2
  <2>2. r + i - 1 \in Nat /\ r + i - 1 < 4 * Capacity
    BY <2>1
  <2> QED
    BY <2>2, IdxIs
<1>4. b = a + i - 1
  BY <1>1, <1>2, <1>3
<1> QED
  BY <1>1, <1>3, <1>4

\* What is left after a read is where it was.
LEMMA AfterReadPlaces ==
  ASSUME NEW r \in ReadIdxs, NEW w \in WriteIdxs, NEW n \in Nat, n <= Size(r, w),
         Idx(r) + n <= Capacity, Size(r, w) <= Capacity, NEW i \in 1 .. Size(r, w) - n
  PROVE  Idx(AfterRead(r, n) + i - 1) = Idx(r + (n + i) - 1)
<1> USE CapacityAssumption DEF ReadIdxs, WriteIdxs
<1>1. Size(r, w) \in Nat
  BY SizeIs
<1>2. PICK s \in Nat : s = AfterRead(r, n) /\ s < 2 * Capacity /\ s \in {r + n, r + n - 2 * Capacity}
  BY AfterReadIs
<1>3. /\ s + i - 1 \in Nat /\ s + i - 1 < 4 * Capacity
      /\ r + (n + i) - 1 \in Nat /\ r + (n + i) - 1 < 4 * Capacity
  BY <1>1, <1>2
<1>4. PICK a \in Nat :
        /\ a = Idx(s + i - 1) /\ a < Capacity
        /\ a \in {s + i - 1, s + i - 1 - Capacity, s + i - 1 - 2 * Capacity,
                  s + i - 1 - 3 * Capacity}
  BY <1>3, IdxIs
<1>5. PICK b \in Nat :
        /\ b = Idx(r + (n + i) - 1) /\ b < Capacity
        /\ b \in {r + (n + i) - 1, r + (n + i) - 1 - Capacity, r + (n + i) - 1 - 2 * Capacity,
                  r + (n + i) - 1 - 3 * Capacity}
  BY <1>3, IdxIs
<1>6. a = b
  BY <1>2, <1>3, <1>4, <1>5
<1> QED
  BY <1>2, <1>4, <1>5, <1>6

-------------------------------------------------------------------------------

(***************************************************************************)
(* The argument.  The flag has one holder: duart_send between taking it and *)
(* starting a transfer, the end of a transfer while one runs, or nobody.    *)
(* So a transfer starts only where none runs, and takes what was the oldest *)
(* part of the ring.  duart_send writes with a read_idx that may be old by  *)
(* then; an old one only makes the ring look fuller than it is.             *)
(***************************************************************************)

\* duart_send has a message, and the flag when it starts a transfer.
CallFits ==
  /\ at # "idle" => msg \in Messages
  /\ at = "start" => claimed

\* What a write believes of the room is not too much.
LoadedFits ==
  at = "store" => Waiting <= Size(loaded, write_idx) /\ Size(loaded, write_idx) <= Capacity

RoomFits == Waiting <= Capacity

DuartInv ==
  DuartTypeOK /\ FlagHasOneHolder /\ TransferOwnsItsBytes /\ CallFits /\ LoadedFits /\ RoomFits

-------------------------------------------------------------------------------

LEMMA DuartStarts == DuartInit => DuartInv
<1> SUFFICES ASSUME DuartInit PROVE DuartInv
  OBVIOUS
<1> USE DuartAssumption, CapacityAssumption
<1>1. Waiting = 0
  BY DEF DuartInit, Waiting, Size
<1>2. DuartTypeOK
  <2>1. (CHOOSE b \in Bytes : TRUE) \in Bytes
    OBVIOUS
  <2>2. data \in [0 .. (Capacity - 1) -> Bytes]
    BY <2>1 DEF DuartInit
  <2>3. read_idx \in ReadIdxs /\ write_idx \in WriteIdxs /\ loaded \in ReadIdxs
    BY DEF DuartInit, ReadIdxs, WriteIdxs
  <2>4. tx_sending \in 0 .. Capacity /\ dma_from \in 0 .. (Capacity - 1) /\ alarms \in 0 .. MaxAlarms
    BY DEF DuartInit
  <2>5. /\ tx_active \in BOOLEAN /\ tx_pin \in BOOLEAN /\ blocking \in BOOLEAN
        /\ claimed \in BOOLEAN /\ sent \in BOOLEAN
    BY DEF DuartInit
  <2> QED
    BY <2>2, <2>3, <2>4, <2>5 DEF DuartInit, DuartTypeOK, Places
<1> QED
  BY <1>1, <1>2 DEF DuartInit, DuartInv, FlagHasOneHolder, Starting, TransferOwnsItsBytes,
    CallFits, LoadedFits, RoomFits

-------------------------------------------------------------------------------
(* duart_send. *)

\* Before the flag is taken and after it has been used, the ring and the transfer stay
\* as they are.
LEMMA SendKeeps ==
  ASSUME DuartInv, NEW m \in Messages, NEW block \in BOOLEAN, Send(m, block)
  PROVE  DuartInv'
<1> USE DEF DuartInv, Send, ring, dma
<1>1. DuartTypeOK'
  BY DEF DuartTypeOK, Places
<1>2. FlagHasOneHolder' /\ TransferOwnsItsBytes' /\ RoomFits'
  BY DEF FlagHasOneHolder, Starting, TransferOwnsItsBytes, RoomFits, Waiting
<1> QED
  BY <1>1, <1>2 DEF CallFits, LoadedFits

LEMMA ReturnKeeps ==
  ASSUME DuartInv, Return
  PROVE  DuartInv'
<1> USE DEF DuartInv, Return, ring, dma
<1>1. /\ at' \in {"idle", "wait"}
      /\ at' = "wait" => msg' = msg
      /\ msg' \in {msg, << >>}
  OBVIOUS
<1>2. DuartTypeOK'
  <2>1. loaded' \in ReadIdxs
    BY CapacityAssumption DEF ReadIdxs
  <2>2. claimed' \in BOOLEAN /\ sent' \in BOOLEAN /\ blocking' \in BOOLEAN
    BY DEF DuartTypeOK
  <2> QED
    BY <1>1, <2>1, <2>2 DEF DuartTypeOK, Places
<1>3. FlagHasOneHolder' /\ TransferOwnsItsBytes' /\ RoomFits'
  BY <1>1 DEF FlagHasOneHolder, Starting, TransferOwnsItsBytes, RoomFits, Waiting
<1> QED
  BY <1>1, <1>2, <1>3 DEF CallFits, LoadedFits

LEMMA WaitKeeps ==
  ASSUME DuartInv, WaitForDma
  PROVE  DuartInv'
<1> USE DEF DuartInv, WaitForDma, ring, dma
<1>1. DuartTypeOK'
  BY DEF DuartTypeOK, Places
<1>2. FlagHasOneHolder' /\ TransferOwnsItsBytes' /\ RoomFits'
  BY DEF FlagHasOneHolder, Starting, TransferOwnsItsBytes, RoomFits, Waiting
<1> QED
  BY <1>1, <1>2 DEF CallFits, LoadedFits

\* Whoever finds the flag given back is the one that holds it.
LEMMA ClaimKeeps ==
  ASSUME DuartInv, Claim
  PROVE  DuartInv'
<1> USE DEF DuartInv, Claim, ring
<1>1. DuartTypeOK'
  BY DEF DuartTypeOK, Places
<1>2. FlagHasOneHolder'
  BY DEF FlagHasOneHolder, Starting
<1>3. TransferOwnsItsBytes' /\ RoomFits'
  BY DEF TransferOwnsItsBytes, RoomFits, Waiting
<1> QED
  BY <1>1, <1>2, <1>3 DEF CallFits, LoadedFits

\* A read_idx that is loaded is the one there is.
LEMMA LoadKeeps ==
  ASSUME DuartInv, Load
  PROVE  DuartInv'
<1> USE DEF DuartInv, Load, ring, dma
<1>1. DuartTypeOK'
  BY DEF DuartTypeOK, Places
<1>2. FlagHasOneHolder' /\ TransferOwnsItsBytes' /\ RoomFits'
  BY DEF FlagHasOneHolder, Starting, TransferOwnsItsBytes, RoomFits, Waiting
<1>3. LoadedFits'
  <2>1. Waiting \in Nat /\ Size(loaded', write_idx') = Waiting /\ Waiting' = Waiting
    BY SizeIs DEF DuartTypeOK, Waiting
  <2> QED
    BY <2>1 DEF LoadedFits, RoomFits
<1> QED
  BY <1>1, <1>2, <1>3 DEF CallFits

\* What Store adds to the ring: the whole message, where there is room for it.
StoredBytes == Writes(loaded, write_idx, Len(msg))

LEMMA StoreFits ==
  ASSUME DuartInv, Store
  PROVE  /\ StoredBytes \in Nat /\ StoredBytes \in {0, Len(msg)} /\ Waiting + StoredBytes <= Capacity
         /\ write_idx' \in WriteIdxs /\ read_idx' = read_idx
         /\ Waiting' = Waiting + StoredBytes
<1> USE DEF DuartInv
<1>1. msg \in Messages /\ Len(msg) \in Nat
  BY DuartAssumption DEF Store, CallFits
<1>2. loaded \in ReadIdxs /\ read_idx \in ReadIdxs /\ write_idx \in WriteIdxs
  BY DEF DuartTypeOK
<1>3. Waiting \in Nat /\ Size(loaded, write_idx) \in Nat
  BY <1>2, SizeIs DEF Waiting
<1>4. /\ StoredBytes \in Nat /\ StoredBytes \in {0, Len(msg)}
      /\ Size(loaded, write_idx) + StoredBytes <= Capacity
  BY <1>1, <1>3, CapacityAssumption DEF StoredBytes, Writes, Store, LoadedFits
<1>5. Size(read_idx, write_idx) + StoredBytes <= Capacity
  BY <1>3, <1>4, CapacityAssumption DEF Store, LoadedFits, Waiting
<1>6. write_idx' = AfterWrite(write_idx, StoredBytes) /\ read_idx' = read_idx
  BY DEF Store, StoredBytes
<1> QED
  BY <1>2, <1>4, <1>5, <1>6, AfterWriteIs DEF Waiting

LEMMA StoreKeeps ==
  ASSUME DuartInv, Store
  PROVE  DuartInv'
<1> USE DEF DuartInv
<1>1. UNCHANGED << dma, msg, blocking, claimed, loaded >>
  BY DEF Store
<1>2. at = "store" /\ at' = IF claimed THEN "start" ELSE "return"
  BY DEF Store
<1>3. data' \in [0 .. (Capacity - 1) -> Bytes]
  <2>1. \A m \in Messages : m \in Seq(Bytes)
    BY DuartAssumption
  <2>2. msg \in Seq(Bytes)
    BY <1>2, <2>1 DEF CallFits
  <2>3. Stored(write_idx, msg) \in [0 .. (Capacity - 1) -> Bytes]
    BY <2>2 DEF Stored, DuartTypeOK
  <2> QED
    BY <2>3 DEF Store, DuartTypeOK
<1>4. sent' \in BOOLEAN
  BY DEF Store
<1>5. DuartTypeOK'
  BY <1>1, <1>2, <1>3, <1>4, StoreFits DEF DuartTypeOK, Places, dma
<1>6. FlagHasOneHolder'
  BY <1>1, <1>2 DEF FlagHasOneHolder, Starting, dma
<1>7. TransferOwnsItsBytes'
  <2>1. Waiting \in Nat /\ Waiting <= Waiting' /\ read_idx' = read_idx
    BY StoreFits, SizeIs DEF DuartTypeOK, Waiting
  <2>2. tx_sending \in Nat /\ Waiting' \in Nat
    BY StoreFits, SizeIs, CapacityAssumption DEF DuartTypeOK, Waiting
  <2> QED
    BY <1>1, <2>1, <2>2 DEF TransferOwnsItsBytes, dma
<1>8. CallFits' /\ LoadedFits' /\ RoomFits'
  BY <1>1, <1>2, StoreFits DEF CallFits, LoadedFits, RoomFits
<1> QED
  BY <1>5, <1>6, <1>7, <1>8

\* A transfer that starts takes the oldest bytes, up to the end of the array.
LEMMA NextTransfer ==
  ASSUME NEW r \in ReadIdxs, NEW w \in WriteIdxs, Size(r, w) <= Capacity, Size(r, w) > 0
  PROVE  /\ Contiguous(r, w) \in 1 .. Capacity /\ Contiguous(r, w) <= Size(r, w)
         /\ Idx(r) \in 0 .. (Capacity - 1) /\ Idx(r) + Contiguous(r, w) <= Capacity
<1>1. Idx(r) \in Nat /\ Idx(r) < Capacity
  BY IdxIs, CapacityAssumption DEF ReadIdxs
<1>2. Size(r, w) \in Nat
  BY SizeIs
<1> QED
  BY <1>1, <1>2, ContiguousIs, CapacityAssumption

LEMMA StartKeeps ==
  ASSUME DuartInv, Start
  PROVE  DuartInv'
<1> USE DEF DuartInv
<1>1. UNCHANGED << ring, alarms, line, msg, blocking, claimed, loaded, sent >>
  BY DEF Start
<1>2. at = "start" /\ at' = "return" /\ claimed /\ tx_sending = 0 /\ tx_active
  BY CapacityAssumption DEF Start, CallFits, FlagHasOneHolder, Starting, DuartTypeOK
<1>3. CASE Waiting > 0
  <2>1. /\ tx_sending' = Contiguous(read_idx, write_idx) /\ dma_from' = Idx(read_idx)
        /\ tx_pin' = TRUE /\ tx_active' = tx_active
    BY <1>3 DEF Start
  <2>2. /\ tx_sending' \in 1 .. Capacity /\ tx_sending' <= Waiting
        /\ dma_from' \in 0 .. (Capacity - 1) /\ dma_from' + tx_sending' <= Capacity
    BY <1>3, <2>1, NextTransfer DEF DuartTypeOK, RoomFits, Waiting
  <2>3. DuartTypeOK'
    BY <1>1, <1>2, <2>1, <2>2 DEF DuartTypeOK, Places, ring
  <2>4. FlagHasOneHolder'
    BY <1>1, <1>2, <2>1, <2>2 DEF FlagHasOneHolder, Starting
  <2>5. TransferOwnsItsBytes' /\ RoomFits'
    BY <1>1, <2>1, <2>2 DEF TransferOwnsItsBytes, RoomFits, Waiting, ring
  <2> QED
    BY <1>1, <1>2, <2>3, <2>4, <2>5 DEF CallFits, LoadedFits
<1>4. CASE ~(Waiting > 0)
  <2>1. tx_active' = FALSE /\ UNCHANGED << tx_sending, dma_from, tx_pin >>
    BY <1>4 DEF Start
  <2>2. DuartTypeOK'
    BY <1>1, <1>2, <2>1 DEF DuartTypeOK, Places, ring
  <2>3. FlagHasOneHolder'
    BY <1>1, <1>2, <2>1 DEF FlagHasOneHolder, Starting
  <2>4. TransferOwnsItsBytes' /\ RoomFits'
    BY <1>1, <2>1 DEF TransferOwnsItsBytes, RoomFits, Waiting, ring
  <2> QED
    BY <1>1, <1>2, <2>2, <2>3, <2>4 DEF CallFits, LoadedFits
<1> QED
  BY <1>3, <1>4

-------------------------------------------------------------------------------
(* The handlers. *)

\* The end of a transfer takes its bytes from the ring; the next one is what is left.
LEMMA CompleteFits ==
  ASSUME DuartInv, NEW alarm, Completed(alarm)
  PROVE  /\ tx_sending \in 1 .. Capacity /\ read_idx' \in ReadIdxs
         /\ read_idx' = AfterRead(read_idx, tx_sending)
         /\ Waiting \in Nat /\ Waiting' = Waiting - tx_sending
<1> USE DEF DuartInv
<1>1. /\ read_idx \in ReadIdxs /\ write_idx \in WriteIdxs /\ tx_sending \in 1 .. Capacity
      /\ tx_sending <= Size(read_idx, write_idx) /\ Idx(read_idx) + tx_sending <= Capacity
      /\ read_idx' = AfterRead(read_idx, tx_sending) /\ write_idx' = write_idx
  BY CapacityAssumption DEF Completed, DuartTypeOK, TransferOwnsItsBytes, Waiting
<1>2. read_idx' \in ReadIdxs /\ Size(read_idx', write_idx) = Size(read_idx, write_idx) - tx_sending
  BY <1>1, AfterReadIs
<1> QED
  BY <1>1, <1>2, SizeIs DEF Waiting

LEMMA CompletedKeeps ==
  ASSUME DuartInv, NEW alarm \in 0 .. MaxAlarms, Completed(alarm)
  PROVE  DuartInv'
<1> USE DEF DuartInv
<1>1. UNCHANGED << write_idx, data, tx_pin, at, msg, blocking, claimed, loaded, sent >>
  BY DEF Completed, call
<1>2. tx_sending > 0 /\ tx_active /\ tx_pin /\ ~Starting
  BY DEF Completed, FlagHasOneHolder, TransferOwnsItsBytes
<1>3. read_idx' \in ReadIdxs /\ Waiting' <= Waiting /\ Waiting' \in Nat /\ Waiting \in Nat
  BY CompleteFits, SizeIs, <1>1 DEF DuartTypeOK, Waiting
<1>4. Waiting' <= Capacity
  BY <1>3, CapacityAssumption DEF RoomFits
<1>5. CallFits' /\ RoomFits'
  BY <1>1, <1>4 DEF CallFits, RoomFits
<1>6. LoadedFits'
  <2>1. loaded \in ReadIdxs /\ Size(loaded, write_idx) \in Nat
    BY SizeIs DEF DuartTypeOK
  <2> QED
    BY <1>1, <1>3, <2>1, CapacityAssumption DEF LoadedFits
<1>7. CASE Size(read_idx', write_idx) > 0
  <2>1. /\ tx_sending' = Contiguous(read_idx', write_idx) /\ dma_from' = Idx(read_idx')
        /\ tx_active' = tx_active /\ alarms' = alarms
    BY <1>7 DEF Completed
  <2>2. /\ tx_sending' \in 1 .. Capacity /\ tx_sending' <= Waiting'
        /\ dma_from' \in 0 .. (Capacity - 1) /\ dma_from' + tx_sending' <= Capacity
    BY <1>1, <1>3, <1>4, <1>7, <2>1, NextTransfer DEF DuartTypeOK, Waiting
  <2>3. DuartTypeOK'
    BY <1>1, <1>3, <2>1, <2>2 DEF DuartTypeOK
  <2>4. FlagHasOneHolder'
    BY <1>1, <1>2, <2>1, <2>2 DEF FlagHasOneHolder, Starting
  <2>5. TransferOwnsItsBytes'
    BY <1>1, <1>2, <2>1, <2>2 DEF TransferOwnsItsBytes
  <2> QED
    BY <1>5, <1>6, <2>3, <2>4, <2>5
<1>8. CASE ~(Size(read_idx', write_idx) > 0)
  <2>1. tx_sending' = 0 /\ tx_active' = FALSE /\ alarms' = alarm /\ dma_from' = dma_from
    BY <1>8 DEF Completed
  <2>2. DuartTypeOK'
    BY <1>1, <1>3, <2>1, CapacityAssumption DEF DuartTypeOK
  <2>3. FlagHasOneHolder' /\ TransferOwnsItsBytes'
    BY <1>1, <1>2, <2>1 DEF FlagHasOneHolder, Starting, TransferOwnsItsBytes
  <2> QED
    BY <1>5, <1>6, <2>2, <2>3
<1> QED
  BY <1>7, <1>8

LEMMA TxCompleteKeeps ==
  ASSUME DuartInv, TxComplete
  PROVE  DuartInv'
<1>1. (IF SharedLine /\ alarms < MaxAlarms THEN alarms + 1 ELSE alarms) \in 0 .. MaxAlarms
  BY DuartAssumption DEF DuartInv, DuartTypeOK
<1> QED
  BY <1>1, CompletedKeeps DEF TxComplete

\* An alarm leaves the pin alone while somebody has the flag.
LEMMA DisableTxKeeps ==
  ASSUME DuartInv, DisableTx
  PROVE  DuartInv'
<1> USE DEF DuartInv
<1>1. UNCHANGED << ring, tx_active, tx_sending, dma_from, line, call >>
  BY DEF DisableTx
<1>2. alarms' \in 0 .. MaxAlarms
  BY DuartAssumption DEF DisableTx, DuartTypeOK
<1>3. tx_pin' \in BOOLEAN
  BY DEF DisableTx
<1>4. tx_sending > 0 => tx_pin'
  BY DEF DisableTx, FlagHasOneHolder, TransferOwnsItsBytes
<1>5. DuartTypeOK'
  BY <1>1, <1>2, <1>3 DEF DuartTypeOK, ring, call
<1>6. FlagHasOneHolder' /\ RoomFits' /\ CallFits' /\ LoadedFits'
  BY <1>1 DEF FlagHasOneHolder, Starting, RoomFits, Waiting, CallFits, LoadedFits, ring, call
<1>7. TransferOwnsItsBytes'
  BY <1>1, <1>4 DEF TransferOwnsItsBytes, Waiting, ring
<1> QED
  BY <1>5, <1>6, <1>7

LEMMA DuartSteps == DuartInv /\ [DuartNext]_duartVars => DuartInv'
<1> SUFFICES ASSUME DuartInv, [DuartNext]_duartVars PROVE DuartInv'
  OBVIOUS
<1>1. CASE DuartNext
  BY <1>1, SendKeeps, ClaimKeeps, LoadKeeps, StoreKeeps, StartKeeps, ReturnKeeps, WaitKeeps,
    TxCompleteKeeps, DisableTxKeeps DEF DuartNext, SendStep
<1>2. CASE UNCHANGED duartVars
  BY <1>2 DEF duartVars, ring, dma, call, DuartInv, DuartTypeOK, FlagHasOneHolder, Starting,
    TransferOwnsItsBytes, RoomFits, Waiting, CallFits, LoadedFits
<1> QED
  BY <1>1, <1>2

\* Every variable of duart.c keeps its type, the indices their ranges among them.
THEOREM DuartKeepsTypes == DuartSpec => []DuartTypeOK
<1>1. DuartInv => DuartTypeOK
  BY DEF DuartInv
<1> QED
  BY DuartStarts, DuartSteps, <1>1, PTL DEF DuartSpec

\* The flag that says who starts transfers has one holder: duart_send or the end of the
\* transfer under way, and nobody when neither needs it.
THEOREM FlagIsHeldOnce == DuartSpec => []FlagHasOneHolder
<1>1. DuartInv => FlagHasOneHolder
  BY DEF DuartInv
<1> QED
  BY DuartStarts, DuartSteps, <1>1, PTL DEF DuartSpec

\* A transfer sends only what has been written, from where the ring begins, and its pin
\* drives the line to its end, for a ring of any capacity.
THEOREM TransfersOwnTheirBytes == DuartSpec => []TransferOwnsItsBytes
<1>1. DuartInv => TransferOwnsItsBytes
  BY DEF DuartInv
<1> QED
  BY DuartStarts, DuartSteps, <1>1, PTL DEF DuartSpec

-------------------------------------------------------------------------------
(* The queue of bytes that the ring stands for. *)

ContentOf(r, w, bytes) == [i \in 1 .. Size(r, w) |-> bytes[Idx(r + i - 1)]]

Content == ContentOf(read_idx, write_idx, data)

LEMMA ContentOfIs ==
  ASSUME NEW r \in ReadIdxs, NEW w \in WriteIdxs, NEW bytes \in [0 .. (Capacity - 1) -> Bytes],
         Size(r, w) <= Capacity
  PROVE  /\ ContentOf(r, w, bytes) \in Seq(Bytes) /\ Len(ContentOf(r, w, bytes)) = Size(r, w)
         /\ \A i \in 1 .. Size(r, w) : ContentOf(r, w, bytes)[i] = bytes[Idx(r + i - 1)]
<1>1. Size(r, w) \in Nat
  BY SizeIs
<1>2. ASSUME NEW i \in 1 .. Size(r, w)
      PROVE  bytes[Idx(r + i - 1)] \in Bytes
  <2>1. r + i - 1 \in Nat /\ r + i - 1 < 4 * Capacity
    BY <1>1, CapacityAssumption DEF ReadIdxs
  <2>2. Idx(r + i - 1) \in 0 .. (Capacity - 1)
    BY <2>1, IdxIs, CapacityAssumption
  <2> QED
    BY <2>2
<1>3. ContentOf(r, w, bytes) \in [1 .. Size(r, w) -> Bytes]
  BY <1>2 DEF ContentOf
<1>4. ContentOf(r, w, bytes) \in Seq(Bytes)
  BY <1>1, <1>3
<1>5. Len(ContentOf(r, w, bytes)) = Size(r, w)
  BY <1>1, <1>3, <1>4, LenProperties
<1> QED
  BY <1>4, <1>5 DEF ContentOf

\* What waits, before a step and after it.
LEMMA ContentIs ==
  ASSUME DuartInv
  PROVE  /\ Content \in Seq(Bytes) /\ Len(Content) = Waiting /\ Waiting \in Nat
         /\ \A i \in 1 .. Waiting : Content[i] = data[Idx(read_idx + i - 1)]
BY ContentOfIs, SizeIs DEF DuartInv, DuartTypeOK, RoomFits, Waiting, Content

LEMMA NextContentIs ==
  ASSUME DuartInv'
  PROVE  /\ Content' \in Seq(Bytes) /\ Len(Content') = Waiting' /\ Waiting' \in Nat
         /\ \A i \in 1 .. Waiting' : Content'[i] = data'[Idx(read_idx' + i - 1)]
BY ContentOfIs, SizeIs DEF DuartInv, DuartTypeOK, RoomFits, Waiting, Content

\* A message that is stored is added behind what waits, and nothing else changes.
LEMMA StoreAccepts ==
  ASSUME DuartInv, DuartInv', Store
  PROVE  \/ Content' = Content /\ UNCHANGED line
         \/ Queue!Accept(msg)
<1>1. UNCHANGED line /\ read_idx' = read_idx
  BY DEF Store, dma
<1>2. CASE StoredBytes = 0
  <2>1. data' = data /\ Waiting' = Waiting
    BY <1>2, StoreFits, ContentIs DEF Store, StoredBytes
  <2>2. Content' = Content
    BY <1>1, <2>1 DEF Content, ContentOf, Waiting
  <2> QED
    BY <1>1, <2>2
<1>3. CASE StoredBytes # 0
  <2>1. /\ StoredBytes = Len(msg) /\ Len(msg) \in Nat \ {0} /\ Waiting + Len(msg) <= Capacity
        /\ Waiting' = Waiting + Len(msg)
    BY <1>3, StoreFits
  <2>2. data' = Stored(write_idx, msg)
    BY <1>3, <2>1 DEF Store, StoredBytes
  <2>3. msg \in Seq(Bytes)
    BY DuartAssumption DEF DuartInv, CallFits, Store
  <2>4. Content' \in Seq(Bytes) /\ Content \o msg \in Seq(Bytes)
    BY <2>3, ContentIs, NextContentIs, ConcatProperties
  <2>5. Len(Content') = Len(Content \o msg)
    BY <2>1, <2>3, ContentIs, NextContentIs, ConcatProperties
  <2>6. ASSUME NEW x \in 1 .. Len(Content')
        PROVE  Content'[x] = (Content \o msg)[x]
    <3> DEFINE slot == Idx(read_idx + x - 1)
               k == Idx(slot + Capacity - Idx(write_idx)) + 1
    <3>1. x \in 1 .. Waiting + Len(msg) /\ x \in Nat
      BY <2>1, NextContentIs, ContentIs
    <3>2. read_idx \in ReadIdxs /\ write_idx \in WriteIdxs
      BY DEF DuartInv, DuartTypeOK
    <3>3. /\ slot \in 0 .. (Capacity - 1)
          /\ IF x <= Waiting THEN k > Len(msg) ELSE k = x - Waiting
      BY <2>1, <3>1, <3>2, PlacesAre DEF Waiting
    <3>4. Content'[x] = data'[slot]
      BY <1>1, <2>1, <3>1, NextContentIs
    <3>5. data'[slot] = IF k \in DOMAIN msg THEN msg[k] ELSE data[slot]
      BY <2>2, <3>3 DEF Stored, DuartInv, DuartTypeOK
    <3>6. DOMAIN msg = 1 .. Len(msg)
      BY <2>3, LenProperties
    <3>7. (Content \o msg)[x] = IF x <= Waiting THEN Content[x] ELSE msg[x - Waiting]
      <4>1. Content \in Seq(Bytes) /\ Len(Content) = Waiting
        BY ContentIs
      <4>2. x \in 1 .. Len(Content) + Len(msg)
        BY <3>1, <4>1
      <4>3. (Content \o msg)[x] = IF x <= Len(Content) THEN Content[x] ELSE msg[x - Len(Content)]
        BY <2>3, <4>1, <4>2, ConcatProperties
      <4> QED
        BY <4>1, <4>3
    <3>8. CASE x <= Waiting
      <4>1. k \notin DOMAIN msg
        BY <3>3, <3>6, <3>8
      <4>2. Content[x] = data[slot]
        BY <3>1, <3>8, ContentIs
      <4> QED
        BY <3>4, <3>5, <3>7, <3>8, <4>1, <4>2
    <3>9. CASE ~(x <= Waiting)
      <4>1. k = x - Waiting /\ k \in DOMAIN msg
        BY <2>1, <3>1, <3>3, <3>6, <3>9, ContentIs
      <4> QED
        BY <3>4, <3>5, <3>7, <3>9, <4>1
    <3> QED
      BY <3>8, <3>9
  <2>7. Content' = Content \o msg
    BY <2>4, <2>5, <2>6, SeqEqual
  <2>8. Len(Content) + Len(msg) <= Capacity
    BY <2>1, ContentIs
  <2> QED
    BY <1>1, <2>7, <2>8 DEF Queue!Accept, Content, ContentOf, Waiting
<1> QED
  BY <1>2, <1>3

\* What a transfer has sent is what waited longest.
LEMMA CompletedTransmits ==
  ASSUME DuartInv, DuartInv', NEW alarm, Completed(alarm)
  PROVE  tx_sending \in 1 .. Len(Content) /\ Queue!Transmit(tx_sending)
<1>1. /\ tx_sending \in Nat /\ tx_sending > 0 /\ tx_sending <= Waiting
      /\ Waiting \in Nat /\ Waiting' = Waiting - tx_sending /\ data' = data
      /\ read_idx' = AfterRead(read_idx, tx_sending)
  <2>1. data' = data /\ tx_sending > 0
    BY DEF Completed
  <2>2. tx_sending <= Waiting
    BY <2>1 DEF DuartInv, TransferOwnsItsBytes
  <2>3. \A n \in 1 .. Capacity : n \in Nat
    BY CapacityAssumption
  <2>4. /\ tx_sending \in Nat /\ read_idx' = AfterRead(read_idx, tx_sending)
        /\ Waiting \in Nat /\ Waiting' = Waiting - tx_sending
    BY <2>3, CompleteFits
  <2> QED
    BY <2>1, <2>2, <2>4
<1>2. /\ read_idx \in ReadIdxs /\ write_idx \in WriteIdxs /\ write_idx' = write_idx
      /\ Idx(read_idx) + tx_sending <= Capacity /\ dma_from = Idx(read_idx)
  BY <1>1 DEF Completed, DuartInv, DuartTypeOK, TransferOwnsItsBytes
<1>3. line' = SubSeq(Content, 1, tx_sending)
  <2>1. line' = [i \in 1 .. tx_sending |-> data[dma_from + i - 1]]
    BY DEF Completed
  <2>2. ASSUME NEW i \in 1 .. tx_sending
        PROVE  Content[i] = data[dma_from + i - 1] /\ Content[i] \in Bytes
    <3>1. Idx(read_idx + i - 1) = Idx(read_idx) + i - 1
      BY <1>1, <1>2, OffsetIs
    <3>2. i \in 1 .. Waiting
      BY <1>1
    <3> QED
      BY <1>2, <3>1, <3>2, ContentIs, ElementOfSeq
  <2>3. line' \in Seq(Bytes) /\ Len(line') = tx_sending
    <3>1. line' \in [1 .. tx_sending -> Bytes]
      BY <2>1, <2>2
    <3>2. line' \in Seq(Bytes)
      BY <1>1, <3>1
    <3> QED
      BY <1>1, <3>1, <3>2, LenProperties
  <2>4. /\ SubSeq(Content, 1, tx_sending) \in Seq(Bytes)
        /\ Len(SubSeq(Content, 1, tx_sending)) = tx_sending
        /\ \A i \in 1 .. tx_sending : SubSeq(Content, 1, tx_sending)[i] = Content[i]
    BY <1>1, <2>2, SubSeqProperties
  <2>5. \A i \in 1 .. Len(line') : line'[i] = SubSeq(Content, 1, tx_sending)[i]
    BY <2>1, <2>2, <2>3, <2>4
  <2> QED
    BY <2>3, <2>4, <2>5, SeqEqual
<1>4. Content' = SubSeq(Content, tx_sending + 1, Len(Content))
  <2> DEFINE rest == SubSeq(Content, tx_sending + 1, Len(Content))
  <2>1. /\ rest \in Seq(Bytes) /\ Len(rest) = Waiting - tx_sending
        /\ \A i \in 1 .. Waiting - tx_sending : rest[i] = Content[tx_sending + i]
    <3>1. \A i \in tx_sending + 1 .. Len(Content) : Content[i] \in Bytes
      BY <1>1, ContentIs, ElementOfSeq
    <3> QED
      BY <1>1, <3>1, ContentIs, SubSeqProperties
  <2>2. Content' \in Seq(Bytes) /\ Len(Content') = Waiting - tx_sending
    BY <1>1, NextContentIs
  <2>3. ASSUME NEW i \in 1 .. Waiting - tx_sending
        PROVE  Content'[i] = rest[i]
    <3>1. tx_sending + i \in 1 .. Waiting
      BY <1>1
    <3>2. Content[tx_sending + i] = data[Idx(read_idx + (tx_sending + i) - 1)]
      BY <3>1, ContentIs
    <3>3. Content'[i] = data[Idx(read_idx' + i - 1)]
      BY <1>1, NextContentIs
    <3>4. Idx(read_idx' + i - 1) = Idx(read_idx + (tx_sending + i) - 1)
      BY <1>1, <1>2, AfterReadPlaces DEF Waiting, DuartInv, RoomFits
    <3> QED
      BY <2>1, <3>2, <3>3, <3>4
  <2> QED
    BY <2>1, <2>2, <2>3, SeqEqual
<1>5. tx_sending \in 1 .. Len(Content)
  BY <1>1, ContentIs
<1> QED
  BY <1>3, <1>4, <1>5 DEF Queue!Transmit, Content, ContentOf, Waiting

LEMMA QueueStarts == DuartInit => Queue!QueueInit
<1> SUFFICES ASSUME DuartInit PROVE Queue!QueueInit
  OBVIOUS
<1>1. DuartInv
  BY DuartStarts
<1>2. Waiting = 0
  BY CapacityAssumption DEF DuartInit, Waiting, Size
<1>3. Content = << >>
  <2>1. Content \in Seq(Bytes) /\ Len(Content) = 0
    BY <1>1, <1>2, ContentIs
  <2> QED
    BY <2>1, EmptySeq
<1> QED
  BY <1>3 DEF DuartInit, Queue!QueueInit, Content, ContentOf, Waiting

\* Every step of duart.c accepts a message, transmits, or is not seen by the queue.
LEMMA QueueSteps == DuartInv /\ [DuartNext]_duartVars => [Queue!QueueNext]_Queue!queueVars
<1> SUFFICES ASSUME DuartInv, [DuartNext]_duartVars
             PROVE  [Queue!QueueNext]_Queue!queueVars
  OBVIOUS
<1>1. DuartInv'
  BY DuartSteps
<1>2. ASSUME Content' = Content, line' = line
      PROVE  [Queue!QueueNext]_Queue!queueVars
  BY <1>2 DEF Queue!queueVars, Content, ContentOf, Waiting
<1>3. CASE Store
  <2>1. msg \in Messages
    BY <1>3 DEF Store, DuartInv, CallFits
  <2>2. CASE Content' = Content /\ UNCHANGED line
    BY <1>2, <2>2
  <2>3. CASE Queue!Accept(msg)
    BY <2>1, <2>3 DEF Queue!QueueNext
  <2> QED
    BY <1>1, <1>3, <2>2, <2>3, StoreAccepts
<1>4. ASSUME NEW alarm, Completed(alarm)
      PROVE  [Queue!QueueNext]_Queue!queueVars
  <2>1. tx_sending \in 1 .. Len(Content) /\ Queue!Transmit(tx_sending)
    BY <1>1, <1>4, CompletedTransmits
  <2> QED
    BY <2>1 DEF Queue!QueueNext, Content, ContentOf, Waiting
<1>5. ASSUME UNCHANGED << ring, line >>
      PROVE  [Queue!QueueNext]_Queue!queueVars
  <2>1. Content' = Content
    BY <1>5 DEF ring, Content, ContentOf
  <2> QED
    BY <1>2, <1>5, <2>1
<1>6. ASSUME NEW m \in Messages, NEW block \in BOOLEAN, Send(m, block)
      PROVE  UNCHANGED << ring, line >>
  BY <1>6 DEF Send, dma
<1>7. CASE Claim \/ Load \/ Start \/ Return \/ WaitForDma \/ DisableTx
  <2>1. UNCHANGED << ring, line >>
    BY <1>7 DEF Claim, Load, Start, Return, WaitForDma, DisableTx, dma
  <2> QED
    BY <1>5, <2>1
<1>8. CASE UNCHANGED duartVars
  <2>1. UNCHANGED << ring, line >>
    BY <1>8 DEF duartVars, dma
  <2> QED
    BY <1>5, <2>1
<1>9. CASE TxComplete
  BY <1>4, <1>9 DEF TxComplete
<1> QED
  BY <1>3, <1>5, <1>6, <1>7, <1>8, <1>9 DEF DuartNext, SendStep

\* The ring, its writer and its handlers are a queue of bytes, whatever the capacity and
\* the messages: each is taken whole or refused, and sent once and in order.
THEOREM DuartIsAQueue == DuartSpec => SentInOrder
BY DuartStarts, DuartSteps, QueueStarts, QueueSteps, PTL DEF DuartSpec, SentInOrder, Queue!QueueSpec

-------------------------------------------------------------------------------
(***************************************************************************)
(* Frames and the parser of the supervisor.  When the noise ends the parser *)
(* may have begun anything, but a length that it believes is at most        *)
(* MaxPayload, so that it soon has the frame and drops it.  It is then in   *)
(* the middle of a good frame, of which it takes no byte for a sync byte,   *)
(* and meets the next frame at its beginning.                               *)
(***************************************************************************)

ByteSet == [v : Nat, payload : Seq(Nat), half : Nat]

LEMMA ByteIs ==
  /\ \A n : Plain(n).v = n /\ Plain(n).half = 0
  /\ \A p, h : CrcByte(p, h).v = Crc[p][h] /\ CrcByte(p, h).payload = p /\ CrcByte(p, h).half = h
BY DEF Plain, CrcByte

\* The values of a CRC are values of bytes.
LEMMA CrcValues ==
  ASSUME NEW p \in Payloads
  PROVE  /\ Crc[p][1] \in Values /\ Crc[p][2] \in Values
         /\ Crc[p][1] \in Nat /\ Crc[p][2] \in Nat
         /\ ~SyncInside(p) => Crc[p][1] # Sync /\ Crc[p][2] # Sync
<1>1. Crc[p] \in [{1, 2} -> Values] /\ Values \subseteq Nat
  BY FramingAssumption DEF FramingAssumption
<1>2. Crc[p][1] \in Range(Crc[p]) /\ Crc[p][2] \in Range(Crc[p])
  BY <1>1 DEF Range
<1> QED
  BY <1>1, <1>2 DEF SyncInside

\* Two before, two behind.
LEMMA Enclosed ==
  ASSUME NEW S, NEW a \in S, NEW b \in S, NEW c \in S, NEW d \in S, NEW body \in Seq(S),
         NEW whole, whole = << a, b >> \o body \o << c, d >>
  PROVE  /\ whole \in Seq(S) /\ Len(whole) = Len(body) + 4
         /\ whole[1] = a /\ whole[2] = b
         /\ \A i \in 1 .. Len(body) : whole[i + 2] = body[i]
         /\ whole[Len(body) + 3] = c /\ whole[Len(body) + 4] = d
<1> DEFINE front == << a, b >> \o body
<1>1. Len(body) \in Nat /\ << a, b >> \in Seq(S) /\ << c, d >> \in Seq(S)
      /\ Len(<< a, b >>) = 2 /\ Len(<< c, d >>) = 2
  BY LenProperties
<1>2. /\ front \in Seq(S) /\ Len(front) = Len(body) + 2
      /\ \A i \in 1 .. Len(body) + 2 : front[i] = IF i <= 2 THEN << a, b >>[i] ELSE body[i - 2]
  BY <1>1, ConcatProperties
<1> HIDE DEF front
<1>3. /\ whole \in Seq(S) /\ Len(whole) = Len(body) + 4
      /\ \A i \in 1 .. Len(body) + 4 :
           whole[i] = IF i <= Len(body) + 2 THEN front[i] ELSE << c, d >>[i - (Len(body) + 2)]
  <2>1. whole = front \o << c, d >>
    BY DEF front
  <2> QED
    BY <1>1, <1>2, <2>1, ConcatProperties
<1>4. whole[1] = a /\ whole[2] = b
  BY <1>1, <1>2, <1>3
<1>5. ASSUME NEW i \in 1 .. Len(body)
      PROVE  whole[i + 2] = body[i]
  BY <1>1, <1>2, <1>3
<1>6. whole[Len(body) + 3] = c /\ whole[Len(body) + 4] = d
  BY <1>1, <1>3
<1> QED
  BY <1>3, <1>4, <1>5, <1>6

LEMMA NoBytes ==
  ASSUME NEW S, NEW s \in Seq(S), Len(s) \notin Nat \ {0}
  PROVE  s = << >>
BY EmptySeq

LEMMA FrameBytes ==
  ASSUME NEW p \in Payloads
  PROVE  /\ p \in Seq(Nat) /\ Len(p) \in 1 .. MaxPayload /\ p # Nothing
         /\ Encode(p) \in Seq(ByteSet) /\ Len(Encode(p)) = Len(p) + 4
         /\ Encode(p)[1] = Plain(Sync) /\ Encode(p)[2] = Plain(Len(p) - 1)
         /\ \A i \in 1 .. Len(p) : Encode(p)[i + 2] = Plain(p[i])
         /\ Encode(p)[Len(p) + 3] = CrcByte(p, 1) /\ Encode(p)[Len(p) + 4] = CrcByte(p, 2)
<1>1. Values \subseteq Nat /\ Sync \in Nat /\ p \in Seq(Values) /\ Len(p) \in 1 .. MaxPayload
      /\ MaxPayload \in Nat
  BY FramingAssumption DEF FramingAssumption
<1>2. Len(p) \in Nat /\ Len(p) >= 1
  BY <1>1
<1>3. p \in Seq(Nat) /\ p # Nothing
  <2>1. p \in Seq(Nat)
    BY <1>1, SeqMonotonic
  <2>2. p = << >> => Len(p) = 0
    OBVIOUS
  <2> QED
    BY <1>2, <2>1, <2>2 DEF Nothing
<1>4. /\ \A n \in Nat : Plain(n) \in ByteSet
      /\ CrcByte(p, 1) \in ByteSet /\ CrcByte(p, 2) \in ByteSet
  BY <1>3, CrcValues DEF CrcByte, Plain, ByteSet
<1> DEFINE body == [i \in DOMAIN p |-> Plain(p[i])]
<1>5. DOMAIN p = 1 .. Len(p) /\ \A i \in 1 .. Len(p) : p[i] \in Nat
  BY <1>3
<1>6. body \in [1 .. Len(p) -> ByteSet] /\ \A i \in 1 .. Len(p) : body[i] = Plain(p[i])
  BY <1>4, <1>5
<1> HIDE DEF body
<1> DEFINE S == ByteSet
<1> HIDE DEF S
<1>7. body \in Seq(S) /\ Len(body) = Len(p)
  <2>1. body \in [1 .. Len(p) -> S]
    BY <1>6 DEF S
  <2> QED
    BY <1>2, <2>1
<1>8. /\ Plain(Sync) \in S /\ Plain(Len(p) - 1) \in S
      /\ CrcByte(p, 1) \in S /\ CrcByte(p, 2) \in S
  <2>1. Len(p) - 1 \in Nat /\ 1 \in Nat /\ 2 \in Nat
    BY <1>2
  <2> QED
    BY <1>1, <1>4, <2>1 DEF S
<1>9. Encode(p) = << Plain(Sync), Plain(Len(p) - 1) >> \o body \o << CrcByte(p, 1), CrcByte(p, 2) >>
  BY DEF Encode, body
<1>10. /\ Encode(p) \in Seq(S) /\ Len(Encode(p)) = Len(body) + 4
       /\ Encode(p)[1] = Plain(Sync) /\ Encode(p)[2] = Plain(Len(p) - 1)
       /\ \A i \in 1 .. Len(body) : Encode(p)[i + 2] = body[i]
       /\ Encode(p)[Len(body) + 3] = CrcByte(p, 1) /\ Encode(p)[Len(body) + 4] = CrcByte(p, 2)
  BY <1>7, <1>8, <1>9, Enclosed
<1> QED
  BY <1>1, <1>3, <1>6, <1>7, <1>10 DEF S

\* A frame without a sync byte in payload or CRC has no other anywhere.
LEMMA OneSync ==
  ASSUME NEW p \in Payloads, ~SyncInside(p), MaxPayload <= Sync,
         NEW k \in 2 .. Len(p) + 4
  PROVE  Encode(p)[k].v # Sync
<1>1. Len(p) \in 1 .. MaxPayload /\ MaxPayload \in Nat /\ Sync \in Nat /\ p \in Seq(Nat)
  BY FrameBytes, FramingAssumption DEF FramingAssumption
<1>2. CASE k = 2
  <2>1. Encode(p)[k].v = Len(p) - 1
    BY <1>2, FrameBytes, ByteIs
  <2> QED
    BY <1>1, <2>1
<1>3. CASE k \in 3 .. Len(p) + 2
  <2>1. k - 2 \in 1 .. Len(p) /\ k = (k - 2) + 2
    BY <1>1, <1>3
  <2>2. Encode(p)[k] = Plain(p[k - 2])
    BY <2>1, FrameBytes
  <2>3. p[k - 2] # Sync
    BY <1>1, <2>1 DEF Range, SyncInside
  <2> QED
    BY <2>2, <2>3, ByteIs
<1>4. CASE k \in {Len(p) + 3, Len(p) + 4}
  <2>1. Encode(p)[k].v \in {Crc[p][1], Crc[p][2]}
    BY <1>4, FrameBytes, ByteIs
  <2> QED
    BY <2>1, CrcValues
<1> QED
  BY <1>1, <1>2, <1>3, <1>4

\* What the parser may have: nothing, a sync byte, or part of a frame that is not too long.
PartOfFrame(buf) ==
  /\ buf \in Seq(ByteSet)
  /\ Len(buf) >= 1 => buf[1].v = Sync
  /\ Len(buf) >= 2 => buf[2].v + 1 <= MaxPayload /\ Len(buf) < buf[2].v + 5

\* How many bytes it waits for yet.
LeftOf(buf) == buf[2].v + 5 - Len(buf)

Prefix(buf, p, n) ==
  buf \in Seq(ByteSet) /\ Len(buf) = n /\ \A i \in 1 .. n : buf[i] = Encode(p)[i]

LEMMA Appended ==
  ASSUME NEW buf \in Seq(ByteSet), NEW byte \in ByteSet
  PROVE  LET more == Append(buf, byte)
         IN /\ more \in Seq(ByteSet) /\ Len(more) = Len(buf) + 1
            /\ more[Len(buf) + 1] = byte /\ \A i \in 1 .. Len(buf) : more[i] = buf[i]
            /\ Len(buf) >= 1 => more[2].v \in Nat
<1>1. Append(buf, byte) \in Seq(ByteSet) /\ Len(Append(buf, byte)) = Len(buf) + 1
  OBVIOUS
<1>2. ASSUME Len(buf) >= 1
      PROVE  Append(buf, byte)[2].v \in Nat
  <2>1. Append(buf, byte)[2] \in ByteSet
    BY <1>1, <1>2
  <2> QED
    BY <2>1 DEF ByteSet
<1> QED
  BY <1>1, <1>2

LEMMA FedPart ==
  ASSUME NEW buf, PartOfFrame(buf), NEW byte \in ByteSet
  PROVE  LET fed == Fed(buf, byte).buf
         IN /\ PartOfFrame(fed)
            /\ Len(buf) >= 2 =>
                 \/ fed = << >>
                 \/ Len(fed) >= 2 /\ LeftOf(fed) = LeftOf(buf) - 1
            /\ buf = << >> /\ byte.v # Sync => fed = << >>
            /\ Len(buf) <= 1 /\ byte = Plain(Sync) /\ MaxPayload <= Sync => fed = << byte >>
<1> DEFINE more == Append(buf, byte)
           fed == Fed(buf, byte).buf
<1>1. buf \in Seq(ByteSet) /\ Len(buf) \in Nat
  BY DEF PartOfFrame
<1>2. /\ more \in Seq(ByteSet) /\ Len(more) = Len(buf) + 1
      /\ more[Len(buf) + 1] = byte /\ \A i \in 1 .. Len(buf) : more[i] = buf[i]
      /\ Len(buf) >= 1 => more[2].v \in Nat
  BY <1>1, Appended
<1>3. MaxPayload \in Nat /\ Sync \in Nat /\ byte.v \in Nat
  BY FramingAssumption DEF FramingAssumption, ByteSet
<1>4. PartOfFrame(<< >>)
  BY DEF PartOfFrame
<1>5. byte.v = Sync => PartOfFrame(<< byte >>)
  BY DEF PartOfFrame
<1>6. CASE buf = << >>
  <2>1. fed = IF byte.v = Sync THEN more ELSE << >>
    BY <1>6 DEF Fed
  <2>2. more = << byte >>
    BY <1>6
  <2>3. Plain(Sync).v = Sync
    BY DEF Plain
  <2> QED
    BY <1>4, <1>5, <1>6, <2>1, <2>2, <2>3
<1>7. CASE Len(buf) = 1
  <2>1. Len(more) = 2 /\ more[2] = byte /\ more[1].v = Sync /\ buf # << >>
    BY <1>1, <1>2, <1>7 DEF PartOfFrame
  <2>2. fed = IF byte.v + 1 > MaxPayload THEN TooLong(more) ELSE more
    <3>1. ~(Len(more) = byte.v + 1 + 4)
      BY <1>3, <2>1
    <3> QED
      BY <2>1, <3>1 DEF Fed
  <2>3. TooLong(more) = IF byte.v = Sync THEN << byte >> ELSE << >>
    BY <2>1 DEF TooLong
  <2>4. byte.v + 1 <= MaxPayload => PartOfFrame(more)
    BY <1>2, <1>3, <2>1 DEF PartOfFrame
  <2>5. Plain(Sync).v = Sync
    BY DEF Plain
  <2>6. PartOfFrame(fed)
    BY <1>3, <1>4, <1>5, <2>2, <2>3, <2>4
  <2>7. byte = Plain(Sync) /\ MaxPayload <= Sync => fed = << byte >>
    BY <1>3, <2>2, <2>3, <2>5
  <2> QED
    BY <1>7, <2>6, <2>7
<1>8. CASE Len(buf) >= 2
  <2>1. /\ buf # << >> /\ Len(more) >= 3 /\ more[1].v = Sync /\ more[2] = buf[2]
        /\ buf[2].v \in Nat
    BY <1>1, <1>2, <1>8 DEF PartOfFrame
  <2>2. fed = IF Len(more) = buf[2].v + 5 THEN << >> ELSE more
    <3>1. Len(more) # 2 /\ Len(more) >= 2
      BY <2>1, <1>2, <1>1
    <3>2. (Len(more) = buf[2].v + 1 + 4) <=> (Len(more) = buf[2].v + 5)
      BY <2>1
    <3> QED
      BY <2>1, <3>1, <3>2 DEF Fed
  <2>3. Len(more) <= buf[2].v + 5 /\ buf[2].v + 1 <= MaxPayload
    BY <1>1, <1>2, <1>8, <2>1 DEF PartOfFrame
  <2>4. Len(more) # buf[2].v + 5 => PartOfFrame(more) /\ LeftOf(more) = LeftOf(buf) - 1
    BY <1>1, <1>2, <2>1, <2>3 DEF PartOfFrame, LeftOf
  <2> QED
    BY <1>1, <1>4, <1>8, <2>1, <2>2, <2>4
<1>9. buf = << >> \/ Len(buf) = 1 \/ Len(buf) >= 2
  <2>1. \A n \in Nat \ {0} : n = 1 \/ n >= 2
    OBVIOUS
  <2> QED
    BY <1>1, <2>1, NoBytes, Zenon
<1> QED
  BY <1>6, <1>7, <1>8, <1>9

\* Of a frame that it has met at its beginning the parser keeps all, and returns it.
LEMMA FedInStep ==
  ASSUME NEW p \in Payloads, NEW k \in 1 .. Len(p) + 4, NEW buf, Prefix(buf, p, k - 1)
  PROVE  LET fed == Fed(buf, Encode(p)[k])
         IN /\ k < Len(p) + 4 => Prefix(fed.buf, p, k) /\ fed.got = Nothing
            /\ k = Len(p) + 4 => fed.buf = << >> /\ fed.got = p
<1> DEFINE byte == Encode(p)[k]
           more == Append(buf, byte)
           fed == Fed(buf, byte)
<1>1. p \in Seq(Nat) /\ Len(p) \in 1 .. MaxPayload /\ Len(p) \in Nat /\ MaxPayload \in Nat
  BY FrameBytes, FramingAssumption DEF FramingAssumption
<1>2. byte \in ByteSet
  BY <1>1, FrameBytes
<1>3. buf \in Seq(ByteSet) /\ Len(buf) = k - 1
  BY DEF Prefix
<1>4. more \in Seq(ByteSet) /\ Len(more) = k /\ \A i \in 1 .. k : more[i] = Encode(p)[i]
  <2>1. /\ more \in Seq(ByteSet) /\ Len(more) = Len(buf) + 1
        /\ more[Len(buf) + 1] = byte /\ \A i \in 1 .. Len(buf) : more[i] = buf[i]
    BY <1>2, <1>3, Appended
  <2> QED
    BY <1>3, <2>1 DEF Prefix
<1>5. Prefix(more, p, k)
  BY <1>4 DEF Prefix
<1> HIDE DEF more
<1>6. CASE k = 1
  <2>1. buf = << >> /\ byte.v = Sync
    BY <1>3, <1>6, FrameBytes, ByteIs
  <2>2. fed = [buf |-> more, got |-> Nothing]
    BY <2>1 DEF Fed, more
  <2> QED
    BY <1>1, <1>5, <1>6, <2>2
<1>7. CASE k # 1
  <2>1. buf # << >> /\ k >= 2
    BY <1>3, <1>7
  <2>2. more[2] = Plain(Len(p) - 1)
    BY <1>4, <2>1, FrameBytes
  <2>3. more[2].v + 1 = Len(p)
    BY <1>1, <2>2, ByteIs
  <2>4. ~(Len(more) = 2 /\ Len(p) > MaxPayload)
    BY <1>1
  <2>5. CASE k < Len(p) + 4
    <3>1. fed = [buf |-> more, got |-> Nothing]
      BY <1>4, <2>1, <2>3, <2>4, <2>5 DEF Fed, more
    <3> QED
      BY <1>5, <2>5, <3>1
  <2>6. CASE k = Len(p) + 4
    <3> DEFINE bytes == SubSeq(more, 3, 2 + Len(p))
               q == [i \in DOMAIN bytes |-> bytes[i].v]
    <3>1. fed = [buf |-> << >>,
                 got |-> IF CrcMatches(bytes, more[Len(p) + 3], more[Len(p) + 4])
                           THEN [i \in 1 .. Len(p) |-> bytes[i].v] ELSE Nothing]
      BY <1>1, <1>4, <2>1, <2>3, <2>4, <2>6 DEF Fed, more
    <3>2. /\ DOMAIN bytes = 1 .. Len(p) /\ \A i \in 1 .. Len(p) : bytes[i] = more[i + 2]
      BY <1>1, <1>4, <2>6
    <3>3. \A i \in 1 .. Len(p) : more[i + 2] = Plain(p[i])
      BY <1>1, <1>4, <2>6, FrameBytes
    <3>4. \A i \in 1 .. Len(p) : bytes[i].v = p[i] /\ bytes[i].half = 0
      BY <3>2, <3>3, ByteIs
    <3> HIDE DEF bytes
    <3>5. q = p /\ [i \in 1 .. Len(p) |-> bytes[i].v] = p
      BY <1>1, <3>2, <3>4
    <3>6. more[Len(p) + 3] = CrcByte(p, 1) /\ more[Len(p) + 4] = CrcByte(p, 2)
      BY <1>1, <1>4, <2>6, FrameBytes
    <3>7. CrcMatches(bytes, more[Len(p) + 3], more[Len(p) + 4])
      BY <3>2, <3>4, <3>5, <3>6, ByteIs DEF CrcMatches
    <3> QED
      BY <2>6, <3>1, <3>5, <3>7
  <2> QED
    BY <2>5, <2>6
<1> QED
  BY <1>6, <1>7

-------------------------------------------------------------------------------
(* What the parser makes of the line.                                       *)

LineTypes ==
  /\ payload \in Payloads \union {Nothing} /\ spoiled \in BOOLEAN
  /\ place \in Nat /\ good \in 0 .. MostGood
  /\ payload = Nothing => place = 1 /\ spoiled = FALSE
  /\ payload # Nothing => place \in 1 .. Len(payload) + 4

\* Of a frame with noise, or with a sync byte where the parser may look for one, nothing
\* is known; it does not count as good.
Hurt == payload # Nothing /\ (spoiled = TRUE \/ (SyncInside(payload) /\ good < MostGood))
Fresh == good = 0 /\ place = 1
InStep == IF payload = Nothing THEN feed_buf = << >> ELSE Prefix(feed_buf, payload, place - 1)
Lags(shortest) ==
  Len(feed_buf) >= 2 /\ LeftOf(feed_buf) + (place - 1) + good * shortest <= MaxPayload + 2
Searches == feed_buf = << >> /\ place > 1 /\ good < FeedLoss

FeedInv(shortest) ==
  /\ LineTypes /\ PartOfFrame(feed_buf)
  /\ Hurt \/ Fresh \/ InStep \/ Lags(shortest) \/ Searches
  /\ FeedRecovers

\* While the parser waits for the rest of what is no frame, FeedLoss good frames cannot pass.
FeedLossFits(shortest) ==
  /\ \A p \in Payloads : shortest <= Len(p) + 4
  /\ MaxPayload + 2 <= FeedLoss * shortest /\ MaxPayload <= Sync

LEMMA LossCounts ==
  /\ MostGood \in Nat /\ FeedLoss \in Nat /\ FeedLoss < MostGood /\ 0 < MostGood
  /\ PollLoss \in Nat /\ PollLoss < MostGood
BY FramingAssumption DEF FramingAssumption, MostGood

\* Nothing is a sequence, but no payload.
LEMMA PayloadIs ==
  ASSUME LineTypes, payload # Nothing
  PROVE  /\ payload \in Payloads /\ Len(payload) \in Nat /\ Len(payload) >= 1
         /\ Encode(payload)[place] \in ByteSet /\ place \in 1 .. Len(payload) + 4
<1>1. payload \in Payloads /\ place \in 1 .. Len(payload) + 4
  BY DEF LineTypes
<1>2. Len(payload) \in 1 .. MaxPayload /\ MaxPayload \in Nat
  BY <1>1, FrameBytes, FramingAssumption DEF FramingAssumption
<1>3. Encode(payload) \in Seq(ByteSet) /\ Len(Encode(payload)) = Len(payload) + 4
  BY <1>1, FrameBytes
<1> QED
  BY <1>1, <1>2, <1>3, ElementOfSeq

\* Lagging is shorter than FeedLoss frames.
LEMMA LagIsShort ==
  ASSUME NEW shortest \in Nat, FeedLossFits(shortest), LineTypes, PartOfFrame(feed_buf),
         Lags(shortest)
  PROVE  good < FeedLoss
<1>1. good \in Nat /\ place - 1 \in Nat /\ FeedLoss \in Nat
  BY LossCounts DEF LineTypes, Nothing
<1>2. Len(feed_buf) \in Nat /\ feed_buf[2].v \in Nat
  <2>1. feed_buf[2] \in ByteSet /\ Len(feed_buf) \in Nat
    BY DEF PartOfFrame, Lags
  <2> QED
    BY <2>1 DEF ByteSet
<1>3. LeftOf(feed_buf) \in Nat /\ LeftOf(feed_buf) >= 1
  BY <1>2 DEF Lags, PartOfFrame, LeftOf
<1>4. PICK a \in Nat : a = good * shortest
  BY <1>1
<1>5. PICK b \in Nat : b = FeedLoss * shortest
  BY <1>1
<1>6. a < b
  BY <1>1, <1>3, <1>4, <1>5, FramingAssumption DEF Lags, FeedLossFits, FramingAssumption
<1>7. ASSUME FeedLoss <= good
      PROVE  FALSE
  <2>1. FeedLoss * shortest <= good * shortest
    BY <1>1, <1>7
  <2> QED
    BY <1>4, <1>5, <1>6, <2>1
<1> QED
  BY <1>1, <1>7

LEMMA LineStarts == FramingInit => LineTypes /\ PartOfFrame(feed_buf) /\ Fresh /\ FeedRecovers
<1> SUFFICES ASSUME FramingInit PROVE LineTypes /\ PartOfFrame(feed_buf) /\ Fresh /\ FeedRecovers
  OBVIOUS
<1>1. /\ payload = Nothing /\ place = 1 /\ spoiled = FALSE /\ good = 0 /\ feed_buf = << >>
  BY DEF FramingInit
<1>2. LineTypes /\ Fresh
  <2>1. good \in 0 .. MostGood /\ place \in Nat
    BY <1>1, LossCounts
  <2> QED
    BY <1>1, <2>1 DEF LineTypes, Fresh
<1>3. PartOfFrame(feed_buf)
  BY <1>1 DEF PartOfFrame
<1> QED
  BY <1>1, <1>2, <1>3, LossCounts DEF FeedRecovers

\* What a byte does to the sender.
LEMMA ByteSent ==
  ASSUME LineTypes, payload # Nothing, NEW hurt \in BOOLEAN, spoiled = TRUE => hurt = TRUE,
         AfterByte(hurt)
  PROVE  /\ LineTypes'
         /\ place < Len(payload) + 4 =>
              place' = place + 1 /\ spoiled' = hurt /\ UNCHANGED << payload, good, last >>
         /\ place = Len(payload) + 4 =>
              /\ payload' = Nothing /\ place' = 1 /\ last' = payload
              /\ hurt = TRUE \/ (SyncInside(payload) /\ good < MostGood) => good' = 0
              /\ ~(hurt = TRUE \/ (SyncInside(payload) /\ good < MostGood)) =>
                   good' = IF good < MostGood THEN good + 1 ELSE good
<1>1. place \in 1 .. Len(payload) + 4 /\ Len(payload) \in Nat /\ payload \in Payloads
  BY PayloadIs
<1>2. CASE place < Len(payload) + 4
  <2>1. place' = place + 1 /\ spoiled' = hurt /\ UNCHANGED << payload, good, last >>
    BY <1>2 DEF AfterByte
  <2>2. place' \in 1 .. Len(payload) + 4 /\ place' \in Nat
    BY <1>1, <1>2, <2>1
  <2>3. LineTypes'
    BY <2>1, <2>2 DEF LineTypes
  <2> QED
    BY <1>1, <1>2, <2>1, <2>3
<1>3. CASE place = Len(payload) + 4
  <2>1. /\ payload' = Nothing /\ place' = 1 /\ spoiled' = FALSE /\ last' = payload
        /\ good' = CASE hurt -> 0
                     [] SyncInside(payload) /\ good < MostGood -> 0
                     [] OTHER -> IF good < MostGood THEN good + 1 ELSE good
    BY <1>1, <1>3 DEF AfterByte
  <2>2. hurt = TRUE \/ (SyncInside(payload) /\ good < MostGood) => good' = 0
    BY <2>1
  <2>3. ~(hurt = TRUE \/ (SyncInside(payload) /\ good < MostGood)) =>
          good' = IF good < MostGood THEN good + 1 ELSE good
    BY <2>1
  <2>4. good' \in 0 .. MostGood
    BY <2>2, <2>3, LossCounts DEF LineTypes
  <2>5. LineTypes'
    BY <2>1, <2>4 DEF LineTypes
  <2> QED
    BY <1>1, <1>3, <2>1, <2>2, <2>3, <2>5
<1>4. place < Len(payload) + 4 \/ place = Len(payload) + 4
  BY <1>1
<1> QED
  BY <1>2, <1>3, <1>4

\* A byte that is received, whichever, leaves part of a frame.
LEMMA ByteReceived ==
  ASSUME PartOfFrame(feed_buf), NEW byte \in ByteSet, Receive(byte)
  PROVE  /\ PartOfFrame(feed_buf') /\ feed_buf' = Fed(feed_buf, byte).buf
         /\ feed_got' = IF Fed(feed_buf, byte).got = Nothing THEN feed_got
                        ELSE Fed(feed_buf, byte).got
         /\ Len(feed_buf) >= 2 =>
              \/ feed_buf' = << >>
              \/ Len(feed_buf') >= 2 /\ LeftOf(feed_buf') = LeftOf(feed_buf) - 1
         /\ feed_buf = << >> /\ byte.v # Sync => feed_buf' = << >>
         /\ Len(feed_buf) <= 1 /\ byte = Plain(Sync) /\ MaxPayload <= Sync => feed_buf' = << byte >>
<1>1. /\ feed_buf' = Fed(feed_buf, byte).buf
      /\ feed_got' = IF Fed(feed_buf, byte).got = Nothing THEN feed_got
                     ELSE Fed(feed_buf, byte).got
  BY DEF Receive
<1> QED
  BY <1>1, FedPart

\* A byte of a frame, sent as it is.
LEMMA SendKeepsFeed ==
  ASSUME NEW shortest \in Nat, FeedLossFits(shortest), FeedInv(shortest), SendByte
  PROVE  FeedInv(shortest)'
<1> DEFINE byte == Encode(payload)[place]
<1>1. /\ payload # Nothing /\ Receive(byte) /\ AfterByte(spoiled)
      /\ LineTypes /\ PartOfFrame(feed_buf)
  BY DEF SendByte, FeedInv
<1>2. /\ payload \in Payloads /\ Len(payload) \in Nat /\ Len(payload) >= 1
      /\ byte \in ByteSet /\ place \in 1 .. Len(payload) + 4
  BY <1>1, PayloadIs
<1>3. spoiled \in BOOLEAN
  BY <1>1 DEF LineTypes
<1>4. /\ LineTypes'
      /\ place < Len(payload) + 4 =>
           place' = place + 1 /\ spoiled' = spoiled /\ UNCHANGED << payload, good, last >>
      /\ place = Len(payload) + 4 =>
           /\ payload' = Nothing /\ place' = 1 /\ last' = payload
           /\ spoiled = TRUE \/ (SyncInside(payload) /\ good < MostGood) => good' = 0
           /\ ~(spoiled = TRUE \/ (SyncInside(payload) /\ good < MostGood)) =>
                good' = IF good < MostGood THEN good + 1 ELSE good
  BY <1>1, <1>3, ByteSent
<1>5. /\ PartOfFrame(feed_buf') /\ feed_buf' = Fed(feed_buf, byte).buf
      /\ feed_got' = IF Fed(feed_buf, byte).got = Nothing THEN feed_got
                     ELSE Fed(feed_buf, byte).got
      /\ Len(feed_buf) >= 2 =>
           \/ feed_buf' = << >>
           \/ Len(feed_buf') >= 2 /\ LeftOf(feed_buf') = LeftOf(feed_buf) - 1
      /\ feed_buf = << >> /\ byte.v # Sync => feed_buf' = << >>
      /\ Len(feed_buf) <= 1 /\ byte = Plain(Sync) /\ MaxPayload <= Sync => feed_buf' = << byte >>
  BY <1>1, <1>2, ByteReceived
<1>6. PartOfFrame(feed_buf)'
  BY <1>5 DEF PartOfFrame
<1> HIDE DEF byte
<1>7. place < Len(payload) + 4 \/ place = Len(payload) + 4
  BY <1>2
<1>8. good \in Nat /\ good <= MostGood
  BY <1>1, LossCounts DEF LineTypes
<1>9. place < Len(payload) + 4 => FeedRecovers'
  BY <1>1, <1>4 DEF FeedRecovers
\* Where nothing is known before, the frame is not good.
<1>10. ASSUME Hurt
       PROVE  FeedInv(shortest)'
  <2>1. CASE place < Len(payload) + 4
    <3>1. Hurt'
      BY <1>4, <1>10, <2>1 DEF Hurt
    <3> QED
      BY <1>4, <1>6, <1>9, <2>1, <3>1 DEF FeedInv
  <2>2. CASE place = Len(payload) + 4
    <3>1. good' = 0 /\ place' = 1
      BY <1>4, <1>10, <2>2 DEF Hurt
    <3>2. FeedRecovers' /\ Fresh'
      BY <3>1, LossCounts DEF FeedRecovers, Fresh
    <3> QED
      BY <1>4, <1>6, <3>2 DEF FeedInv
  <2> QED
    BY <1>7, <2>1, <2>2
\* A parser that is in step has the frame at its end.
<1>11. ASSUME InStep
       PROVE  FeedInv(shortest)'
  <2>1. Prefix(feed_buf, payload, place - 1)
    BY <1>1, <1>11 DEF InStep
  <2>2. /\ place < Len(payload) + 4 => Prefix(feed_buf', payload, place)
        /\ place = Len(payload) + 4 => feed_buf' = << >> /\ Fed(feed_buf, byte).got = payload
    BY <1>2, <1>5, <2>1, FedInStep DEF byte
  <2>3. CASE place < Len(payload) + 4
    <3>1. payload' = payload /\ place' - 1 = place
      BY <1>2, <1>4, <2>3
    <3>2. InStep'
      BY <1>1, <2>2, <2>3, <3>1 DEF InStep, Prefix
    <3> QED
      BY <1>4, <1>6, <1>9, <2>3, <3>2 DEF FeedInv
  <2>4. CASE place = Len(payload) + 4
    <3>1. feed_got' = payload /\ last' = payload /\ payload' = Nothing /\ feed_buf' = << >>
      BY <1>1, <1>4, <1>5, <2>2, <2>4
    <3>2. InStep' /\ FeedRecovers'
      BY <3>1 DEF InStep, FeedRecovers
    <3> QED
      BY <1>4, <1>6, <3>2 DEF FeedInv
  <2> QED
    BY <1>7, <2>3, <2>4
\* While the parser has not met a frame at its beginning, few have passed; and there is
\* no sync byte in this one, except at its beginning.
<1>12. ASSUME ~Hurt, good < FeedLoss
       PROVE  /\ good < MostGood /\ (place > 1 => byte.v # Sync)
              /\ place = Len(payload) + 4 => good' = good + 1 /\ FeedRecovers'
  <2>1. good < MostGood
    BY <1>8, <1>12, LossCounts
  <2>2. ~(spoiled = TRUE) /\ ~SyncInside(payload)
    BY <1>1, <1>12, <2>1 DEF Hurt
  <2>3. place > 1 => byte.v # Sync
    <3>1. place > 1 => place \in 2 .. Len(payload) + 4
      BY <1>2
    <3> QED
      BY <1>2, <2>2, <3>1, OneSync DEF byte, FeedLossFits
  <2>4. place = Len(payload) + 4 => good' = good + 1
    BY <1>4, <2>1, <2>2
  <2>5. place = Len(payload) + 4 => ~(good' > FeedLoss)
    BY <1>8, <1>12, <2>4, LossCounts
  <2> QED
    BY <2>1, <2>3, <2>4, <2>5 DEF FeedRecovers
<1>13. ASSUME ~Hurt, good < FeedLoss, feed_buf' = << >>
       PROVE  FeedInv(shortest)'
  <2>1. CASE place < Len(payload) + 4
    <3>1. place' > 1 /\ good' < FeedLoss
      BY <1>2, <1>4, <1>13, <2>1
    <3>2. Searches'
      BY <1>13, <3>1 DEF Searches
    <3> QED
      BY <1>4, <1>6, <1>9, <2>1, <3>2 DEF FeedInv
  <2>2. CASE place = Len(payload) + 4
    <3>1. InStep' /\ FeedRecovers'
      BY <1>4, <1>12, <1>13, <2>2 DEF InStep
    <3> QED
      BY <1>4, <1>6, <3>1 DEF FeedInv
  <2> QED
    BY <1>7, <2>1, <2>2
<1>14. ASSUME ~Hurt, Searches
       PROVE  FeedInv(shortest)'
  <2>1. feed_buf' = << >>
    BY <1>5, <1>12, <1>14 DEF Searches
  <2> QED
    BY <1>13, <1>14, <2>1 DEF Searches
<1>15. ASSUME ~Hurt, Lags(shortest)
       PROVE  FeedInv(shortest)'
  <2>1. good < FeedLoss
    BY <1>1, <1>15, LagIsShort
  <2>2. CASE feed_buf' = << >>
    BY <1>13, <1>15, <2>1, <2>2
  <2>3. CASE Len(feed_buf') >= 2 /\ LeftOf(feed_buf') = LeftOf(feed_buf) - 1
    <3>1. LeftOf(feed_buf) \in Int
      <4>1. feed_buf[2] \in ByteSet /\ Len(feed_buf) \in Nat
        BY <1>1, <1>15 DEF PartOfFrame, Lags
      <4> QED
        BY <4>1 DEF ByteSet, LeftOf
    <3>2. PICK a \in Nat : a = good * shortest
      BY <1>8
    <3>3. LeftOf(feed_buf) + (place - 1) + a <= MaxPayload + 2 /\ MaxPayload \in Nat
      BY <1>15, <3>2, FramingAssumption DEF Lags, FramingAssumption
    <3>4. LeftOf(feed_buf') + (place' - 1) + good' * shortest <= MaxPayload + 2
      <4>1. CASE place < Len(payload) + 4
        <5>1. place' - 1 = place /\ good' * shortest = a
          BY <1>2, <1>4, <3>2, <4>1
        <5> QED
          BY <1>2, <2>3, <3>1, <3>3, <5>1
      <4>2. CASE place = Len(payload) + 4
        <5>1. place' - 1 = 0 /\ good' = good + 1
          BY <1>4, <1>12, <1>15, <2>1, <4>2
        <5>2. good' * shortest = a + shortest
          BY <1>8, <3>2, <5>1
        <5>3. shortest <= place
          BY <1>2, <4>2 DEF FeedLossFits
        <5> QED
          BY <1>2, <2>3, <3>1, <3>3, <5>1, <5>2, <5>3
      <4> QED
        BY <1>7, <4>1, <4>2
    <3>5. Lags(shortest)'
      BY <2>3, <3>4 DEF Lags, LeftOf
    <3>6. FeedRecovers'
      BY <1>7, <1>9, <1>12, <1>15, <2>1
    <3> QED
      BY <1>4, <1>6, <3>5, <3>6 DEF FeedInv
  <2> QED
    BY <1>5, <1>15, <2>2, <2>3 DEF Lags
<1>16. ASSUME ~Hurt, Fresh
       PROVE  FeedInv(shortest)'
  <2>1. good = 0 /\ place = 1 /\ byte = Plain(Sync) /\ place < Len(payload) + 4
    BY <1>2, <1>16, FrameBytes DEF Fresh, byte
  <2>2. place' = 2 /\ UNCHANGED << payload, good >>
    BY <1>4, <2>1
  <2>3. CASE Len(feed_buf) <= 1
    <3>1. feed_buf' = << byte >>
      BY <1>5, <2>1, <2>3 DEF FeedLossFits
    <3>2. Prefix(feed_buf', payload, 1)
      BY <1>2, <2>1, <3>1 DEF Prefix, byte
    <3>3. InStep'
      BY <1>1, <2>2, <3>2 DEF InStep, Prefix
    <3> QED
      BY <1>4, <1>6, <1>9, <2>1, <3>3 DEF FeedInv
  <2>4. CASE Len(feed_buf) >= 2
    <3>1. LeftOf(feed_buf) \in Int /\ LeftOf(feed_buf) <= MaxPayload + 2
      <4>1. feed_buf[2] \in ByteSet /\ Len(feed_buf) \in Nat
        BY <1>1, <2>4 DEF PartOfFrame
      <4>2. feed_buf[2].v \in Nat
        BY <4>1 DEF ByteSet
      <4>3. feed_buf[2].v + 1 <= MaxPayload /\ MaxPayload \in Nat
        BY <1>1, <2>4, FramingAssumption DEF PartOfFrame, FramingAssumption
      <4> QED
        BY <2>4, <4>1, <4>2, <4>3 DEF LeftOf
    <3>2. Lags(shortest)
      BY <2>1, <2>4, <3>1 DEF Lags
    <3> QED
      BY <1>15, <1>16, <3>2
  <2> QED
    BY <1>1, <2>3, <2>4 DEF PartOfFrame
<1> QED
  BY <1>10, <1>11, <1>14, <1>15, <1>16 DEF FeedInv

\* Noise leaves a frame that is hurt, or none.
LEMMA NoiseKeepsFeed ==
  ASSUME NEW shortest \in Nat, FeedInv(shortest), Noise
  PROVE  FeedInv(shortest)'
<1>1. LineTypes /\ PartOfFrame(feed_buf)
  BY DEF FeedInv
<1>2. ASSUME NEW v \in Values
      PROVE  Plain(v) \in ByteSet
  <2>1. v \in Nat /\ << >> \in Seq(Nat)
    BY FramingAssumption DEF FramingAssumption
  <2> QED
    BY <2>1 DEF Plain, ByteSet
<1>3. ASSUME payload # Nothing, AfterByte(TRUE), PartOfFrame(feed_buf)'
      PROVE  FeedInv(shortest)'
  <2>1. /\ LineTypes'
        /\ place < Len(payload) + 4 =>
             place' = place + 1 /\ spoiled' = TRUE /\ UNCHANGED << payload, good, last >>
        /\ place = Len(payload) + 4 => payload' = Nothing /\ place' = 1 /\ good' = 0
    BY <1>1, <1>3, ByteSent
  <2>2. CASE place < Len(payload) + 4
    <3>1. Hurt'
      BY <1>3, <2>1, <2>2 DEF Hurt
    <3>2. FeedRecovers'
      BY <1>3, <2>1, <2>2 DEF FeedRecovers
    <3> QED
      BY <1>3, <2>1, <3>1, <3>2 DEF FeedInv
  <2>3. CASE place = Len(payload) + 4
    <3>1. Fresh' /\ FeedRecovers'
      BY <2>1, <2>3, LossCounts DEF Fresh, FeedRecovers
    <3> QED
      BY <1>3, <2>1, <3>1 DEF FeedInv
  <2>4. place \in 1 .. Len(payload) + 4 /\ Len(payload) \in Nat
    BY <1>1, <1>3, PayloadIs
  <2> QED
    BY <2>2, <2>3, <2>4
<1>4. ASSUME LoseByte
      PROVE  FeedInv(shortest)'
  <2>1. payload # Nothing /\ AfterByte(TRUE) /\ feed_buf' = feed_buf
    BY <1>4 DEF LoseByte, feed
  <2> QED
    BY <1>1, <1>3, <2>1 DEF PartOfFrame
<1>5. ASSUME NEW v \in Values, ChangeByte(v)
      PROVE  FeedInv(shortest)'
  <2>1. payload # Nothing /\ AfterByte(TRUE) /\ Receive(Plain(v))
    BY <1>5 DEF ChangeByte
  <2>2. PartOfFrame(feed_buf')
    BY <1>1, <1>2, <2>1, ByteReceived
  <2> QED
    BY <1>3, <2>1, <2>2 DEF PartOfFrame
<1>6. ASSUME NEW v \in Values, AddByte(v)
      PROVE  FeedInv(shortest)'
  <2>1. /\ Receive(Plain(v)) /\ spoiled' = (payload # Nothing) /\ good' = 0
        /\ UNCHANGED << payload, place, last >>
    BY <1>6 DEF AddByte
  <2>2. PartOfFrame(feed_buf')
    BY <1>1, <1>2, <2>1, ByteReceived
  <2>3. good' \in 0 .. MostGood
    BY <2>1, LossCounts
  <2>4. LineTypes'
    BY <1>1, <2>1, <2>3 DEF LineTypes
  <2>5. FeedRecovers'
    BY <2>1, LossCounts DEF FeedRecovers
  <2>6. Hurt' \/ Fresh'
    <3>1. CASE payload = Nothing
      BY <1>1, <2>1, <3>1 DEF Fresh, LineTypes
    <3>2. CASE payload # Nothing
      BY <2>1, <3>2 DEF Hurt
    <3> QED
      BY <3>1, <3>2
  <2> QED
    BY <2>2, <2>4, <2>5, <2>6 DEF FeedInv, PartOfFrame
<1> QED
  BY <1>4, <1>5, <1>6 DEF Noise

LEMMA StartKeepsFeed ==
  ASSUME NEW shortest \in Nat, FeedInv(shortest), NEW p \in Payloads, StartFrame(p)
  PROVE  FeedInv(shortest)'
<1>1. /\ payload = Nothing /\ payload' = p /\ p # Nothing
      /\ UNCHANGED << place, spoiled, good, last, feed_buf >>
  BY FrameBytes DEF StartFrame
<1>2. LineTypes /\ PartOfFrame(feed_buf) /\ place = 1 /\ spoiled = FALSE
  BY <1>1 DEF FeedInv, LineTypes
<1>3. place' \in 1 .. Len(payload') + 4 /\ place' \in Nat
  <2>1. Len(p) \in 1 .. MaxPayload /\ MaxPayload \in Nat
    BY FrameBytes, FramingAssumption DEF FramingAssumption
  <2> QED
    BY <1>1, <1>2, <2>1
<1>4. LineTypes'
  BY <1>1, <1>2, <1>3 DEF LineTypes
<1>5. PartOfFrame(feed_buf)' /\ FeedRecovers'
  BY <1>1, <1>2 DEF PartOfFrame, FeedRecovers
<1>6. CASE Fresh
  <2>1. Fresh'
    BY <1>1, <1>6 DEF Fresh
  <2> QED
    BY <1>4, <1>5, <2>1 DEF FeedInv
<1>7. CASE InStep
  <2>1. feed_buf = << >>
    BY <1>1, <1>7 DEF InStep
  <2>2. Prefix(feed_buf', payload', 0)
    BY <1>1, <2>1 DEF Prefix
  <2>3. InStep'
    BY <1>1, <1>2, <2>2 DEF InStep, Prefix
  <2> QED
    BY <1>4, <1>5, <2>3 DEF FeedInv
<1>8. CASE Lags(shortest)
  <2>1. Lags(shortest)'
    BY <1>1, <1>8 DEF Lags, LeftOf
  <2> QED
    BY <1>4, <1>5, <2>1 DEF FeedInv
<1>9. ~Hurt /\ ~Searches
  BY <1>1, <1>2 DEF Hurt, Searches
<1> QED
  BY <1>6, <1>7, <1>8, <1>9 DEF FeedInv

LEMMA FeedKeeps ==
  ASSUME NEW shortest \in Nat, FeedLossFits(shortest), FeedInv(shortest),
         [FramingNext]_framingVars
  PROVE  FeedInv(shortest)'
<1>1. ASSUME UNCHANGED << payload, place, spoiled, good, last, feed_buf, feed_got >>
      PROVE  FeedInv(shortest)'
  BY <1>1 DEF FeedInv, LineTypes, PartOfFrame, Hurt, Fresh, InStep, Lags, LeftOf, Searches, Prefix,
              FeedRecovers
<1>2. ASSUME Poll \/ UNCHANGED framingVars
      PROVE  FeedInv(shortest)'
  <2>1. UNCHANGED << payload, place, spoiled, good, last, feed_buf, feed_got >>
    BY <1>2 DEF Poll, SkipByte, SkipTooBig, ReadPacket, framingVars, sender, feed
  <2> QED
    BY <1>1, <2>1
<1> QED
  BY <1>2, SendKeepsFeed, NoiseKeepsFeed, StartKeepsFeed DEF FramingNext

\* The supervisor's parser recovers from whatever noise (supervisor_protocol.c), for any
\* messages, any values of their CRCs and any longest payload: of frames in a row without
\* a sync byte inside, in payload or CRC, it loses at most FeedLoss, if FeedLoss frames
\* of at least shortest bytes are as long as what a believed length makes it wait for; and
\* after MostGood of them it loses none, whatever is inside.  A length that may be
\* believed is below the sync byte.
THEOREM FeedAlwaysRecovers ==
  ASSUME NEW shortest \in Nat, FeedLossFits(shortest)
  PROVE  FramingSpec => []FeedRecovers
<1>1. FramingInit => FeedInv(shortest)
  BY LineStarts DEF FeedInv
<1>2. FeedInv(shortest) /\ [FramingNext]_framingVars => FeedInv(shortest)'
  BY FeedKeeps
<1>3. FeedInv(shortest) => FeedRecovers
  BY DEF FeedInv
<1> QED
  BY <1>1, <1>2, <1>3, PTL DEF FramingSpec

-------------------------------------------------------------------------------
(***************************************************************************)
(* The parser of the battery controller.  The ring it reads wraps in many   *)
(* ways, but a packet that is whole is read as it was received.             *)
(***************************************************************************)

\* The bytes of the ring, of values to top.
RingTypes(top) ==
  /\ rx \in Seq(ByteSet) /\ \A i \in 1 .. Len(rx) : rx[i].v <= top
  /\ Len(rx) < RxSize /\ rx_pointer \in 0 .. RxSize - 1

\* An index of less than twice the ring wraps once at most.
WrapsOnce(i) == i % RxSize = IF i < RxSize THEN i ELSE i - RxSize

LEMMA Wrapped ==
  /\ RxSize \in Nat /\ RxSize > 0
  /\ \A i \in Nat : i < 2 * RxSize => WrapsOnce(i)
<1>1. RxSize \in Nat /\ RxSize > 0
  <2>1. RxSize \in Nat /\ Sync \in Nat /\ RxSize > Sync + 5
    BY FramingAssumption DEF FramingAssumption
  <2> QED
    BY <2>1
<1>2. ASSUME NEW i \in Nat, i < 2 * RxSize
      PROVE  WrapsOnce(i)
  <2>1. CASE i < RxSize
    BY <1>1, <2>1 DEF WrapsOnce
  <2>2. CASE RxSize <= i
    BY <1>1, <1>2, <2>2 DEF WrapsOnce
  <2> QED
    BY <1>1, <2>1, <2>2
<1> QED
  BY <1>1, <1>2

\* The array has the bytes in order from rx_pointer on.
LEMMA ArrayIs ==
  ASSUME NEW top, RingTypes(top), NEW j \in 0 .. Len(rx) - 1
  PROVE  /\ rx_pointer + j < RxSize => InArray(rx_pointer + j) = rx[j + 1]
         /\ rx_pointer + j >= RxSize => InArray(rx_pointer + j - RxSize) = rx[j + 1]
         /\ InArray((rx_pointer + j) % RxSize) = rx[j + 1]
<1>1. rx_pointer \in Nat /\ rx_pointer < RxSize /\ Len(rx) \in Nat /\ Len(rx) < RxSize
      /\ RxSize \in Nat
  <2>1. RxSize \in Nat
    BY FramingAssumption DEF FramingAssumption
  <2> QED
    BY <2>1 DEF RingTypes
<1>2. ASSUME NEW i \in Nat, i < RxSize, i = rx_pointer + j \/ i = rx_pointer + j - RxSize
      PROVE  InArray(i) = rx[j + 1]
  <2>1. i + RxSize - rx_pointer \in Nat /\ i + RxSize - rx_pointer < 2 * RxSize
    BY <1>1, <1>2
  <2>2. (i + RxSize - rx_pointer) % RxSize =
          IF i + RxSize - rx_pointer < RxSize THEN i + RxSize - rx_pointer
          ELSE i + RxSize - rx_pointer - RxSize
    <3>1. WrapsOnce(i + RxSize - rx_pointer)
      BY <2>1, Wrapped, Zenon
    <3> QED
      BY <1>1, <1>2, <3>1 DEF WrapsOnce
  <2>3. (i + RxSize - rx_pointer) % RxSize = j
    BY <1>1, <1>2, <2>2
  <2> QED
    BY <1>1, <1>2, <2>3 DEF InArray
<1>3. rx_pointer + j < RxSize => InArray(rx_pointer + j) = rx[j + 1]
  BY <1>1, <1>2
<1>4. rx_pointer + j >= RxSize => InArray(rx_pointer + j - RxSize) = rx[j + 1]
  BY <1>1, <1>2
<1>5. (rx_pointer + j) % RxSize =
        IF rx_pointer + j < RxSize THEN rx_pointer + j ELSE rx_pointer + j - RxSize
  <2>1. rx_pointer + j \in Nat /\ rx_pointer + j < 2 * RxSize
    BY <1>1
  <2>2. WrapsOnce(rx_pointer + j)
    BY <2>1, Wrapped, Zenon
  <2> QED
    BY <1>1, <2>2 DEF WrapsOnce
<1> QED
  BY <1>1, <1>3, <1>4, <1>5

\* The length byte is the second byte.
LEMMA LengthIs ==
  ASSUME NEW top, RingTypes(top), Len(rx) >= 2
  PROVE  PayloadLen = rx[2].v + 1 /\ PayloadLen \in Nat /\ PayloadLen >= 1
<1>1. Len(rx) \in Nat /\ 1 \in 0 .. Len(rx) - 1 /\ 2 \in 1 .. Len(rx)
  BY DEF RingTypes
<1>2. InArray((rx_pointer + 1) % RxSize) = rx[2]
  BY <1>1, ArrayIs
<1>3. rx[2] \in ByteSet
  BY <1>1 DEF RingTypes
<1> QED
  BY <1>2, <1>3 DEF PayloadLen, ByteSet

\* However the packet lies, it is read as it came.
LEMMA RingReads ==
  ASSUME NEW top, RingTypes(top), Whole
  PROVE  /\ DOMAIN ReadBytes.bytes = 1 .. PayloadLen
         /\ \A i \in 1 .. PayloadLen : ReadBytes.bytes[i] = rx[i + 2]
         /\ ReadBytes.low = rx[PayloadLen + 3] /\ ReadBytes.high = rx[PayloadLen + 4]
<1> DEFINE L == PayloadLen
           d == (rx_pointer + 2) % RxSize
           c == ContiguousLen
           len == IF c <= 2 THEN Len(rx) ELSE c
           first == IF len - 2 > L THEN L ELSE len - 2
           crc == (rx_pointer + 2 + L) % RxSize
<1>1. /\ rx_pointer \in Nat /\ rx_pointer < RxSize /\ Len(rx) \in Nat /\ Len(rx) < RxSize
      /\ RxSize \in Nat
  <2>1. RxSize \in Nat
    BY FramingAssumption DEF FramingAssumption
  <2> QED
    BY <2>1 DEF RingTypes
<1>2. L \in Nat /\ L >= 1 /\ L + 4 <= Len(rx)
  BY <1>1, LengthIs DEF Whole
<1>3. c = IF Len(rx) > RxSize - rx_pointer THEN RxSize - rx_pointer ELSE Len(rx)
  BY DEF ContiguousLen
<1>4. ReadBytes = IF L + 4 <= len THEN InOnePiece(d) ELSE InPieces(d, first)
  BY DEF ReadBytes
<1>5. d = IF rx_pointer + 2 < RxSize THEN rx_pointer + 2 ELSE rx_pointer + 2 - RxSize
  <2>1. rx_pointer + 2 \in Nat /\ rx_pointer + 2 < 2 * RxSize
    BY <1>1, <1>2
  <2>2. WrapsOnce(rx_pointer + 2)
    BY <2>1, Wrapped, Zenon
  <2> QED
    BY <1>1, <1>2, <2>2 DEF WrapsOnce
<1> HIDE DEF L, d, c
<1>6. CASE L + 4 <= len
  <2>1. ASSUME NEW i \in 1 .. L + 2
        PROVE  InArray(d + i - 1) = rx[i + 2]
    <3>1. i + 1 \in 0 .. Len(rx) - 1 /\ (i + 1) + 1 = i + 2
      BY <1>1, <1>2
    <3>2. /\ rx_pointer + (i + 1) < RxSize => InArray(rx_pointer + (i + 1)) = rx[i + 2]
          /\ rx_pointer + (i + 1) >= RxSize => InArray(rx_pointer + (i + 1) - RxSize) = rx[i + 2]
      BY <3>1, ArrayIs
    <3>3. CASE rx_pointer + (i + 1) < RxSize
      <4>1. d + i - 1 = rx_pointer + (i + 1)
        BY <1>1, <1>5, <3>3
      <4> QED
        BY <3>2, <3>3, <4>1
    <3>4. CASE rx_pointer + (i + 1) >= RxSize
      <4>1. c <= 2 /\ rx_pointer + 2 >= RxSize
        BY <1>1, <1>2, <1>3, <1>6, <3>4
      <4>2. d + i - 1 = rx_pointer + (i + 1) - RxSize
        BY <1>1, <1>5, <4>1
      <4> QED
        BY <3>2, <3>4, <4>2
    <3> QED
      BY <1>1, <3>3, <3>4
  <2>2. /\ DOMAIN InOnePiece(d).bytes = 1 .. L
        /\ \A i \in 1 .. L : InOnePiece(d).bytes[i] = InArray(d + i - 1)
        /\ InOnePiece(d).low = InArray(d + L) /\ InOnePiece(d).high = InArray(d + L + 1)
    BY DEF InOnePiece, L
  <2>3. d \in Int
    BY <1>1, <1>5
  <2>4. InArray(d + L) = rx[L + 3]
    <3>1. L + 1 \in 1 .. L + 2 /\ d + (L + 1) - 1 = d + L /\ (L + 1) + 2 = L + 3
      BY <1>2, <2>3
    <3> QED
      BY <2>1, <3>1
  <2>5. InArray(d + L + 1) = rx[L + 4]
    <3>1. L + 2 \in 1 .. L + 2 /\ d + (L + 2) - 1 = d + L + 1 /\ (L + 2) + 2 = L + 4
      BY <1>2, <2>3
    <3> QED
      BY <2>1, <3>1
  <2>6. \A i \in 1 .. L : InArray(d + i - 1) = rx[i + 2]
    BY <1>2, <2>1
  <2> QED
    BY <1>4, <1>6, <2>2, <2>4, <2>5, <2>6 DEF L
<1>7. CASE ~(L + 4 <= len)
  <2>1. /\ c > 2 /\ len = c /\ c = RxSize - rx_pointer /\ len < Len(rx) /\ d = rx_pointer + 2
    BY <1>1, <1>2, <1>3, <1>5, <1>7
  <2>2. first \in Nat /\ first <= L /\ rx_pointer + 2 + first <= RxSize
        /\ (first < L => rx_pointer + 2 + first = RxSize)
    <3>1. first = IF len - 2 > L THEN L ELSE len - 2
      OBVIOUS
    <3> HIDE DEF len, first
    <3> QED
      BY <1>1, <1>2, <2>1, <3>1
  <2> HIDE DEF len, first
  <2>3. ASSUME NEW i \in 1 .. L, i <= first
        PROVE  InArray(d + i - 1) = rx[i + 2]
    <3>1. i + 1 \in 0 .. Len(rx) - 1 /\ (i + 1) + 1 = i + 2 /\ d + i - 1 = rx_pointer + (i + 1)
          /\ rx_pointer + (i + 1) < RxSize
      BY <1>1, <1>2, <2>1, <2>2, <2>3
    <3> QED
      BY <3>1, ArrayIs
  <2>4. ASSUME NEW i \in 1 .. L, ~(i <= first)
        PROVE  InArray(((rx_pointer + 2 + first) % RxSize) + i - first - 1) = rx[i + 2]
    <3>1. rx_pointer + 2 + first = RxSize
      BY <1>2, <2>2, <2>4
    <3>2. (rx_pointer + 2 + first) % RxSize = 0
      BY <1>1, <3>1, Wrapped
    <3>3. i + 1 \in 0 .. Len(rx) - 1 /\ (i + 1) + 1 = i + 2
          /\ 0 + i - first - 1 = rx_pointer + (i + 1) - RxSize /\ rx_pointer + (i + 1) >= RxSize
      BY <1>1, <1>2, <2>2, <2>4, <3>1
    <3> QED
      BY <3>2, <3>3, ArrayIs
  <2>5. InArray(crc) = rx[L + 3]
    <3>1. L + 2 \in 0 .. Len(rx) - 1 /\ (L + 2) + 1 = L + 3 /\ rx_pointer + (L + 2) = rx_pointer + 2 + L
      BY <1>1, <1>2
    <3> QED
      BY <3>1, ArrayIs
  <2>6. InArray((crc + 1) % RxSize) = rx[L + 4]
    <3>1. L + 3 \in 0 .. Len(rx) - 1 /\ (L + 3) + 1 = L + 4
      BY <1>1, <1>2
    <3>2. (crc + 1) % RxSize = (rx_pointer + (L + 3)) % RxSize
      <4>1. crc = IF rx_pointer + 2 + L < RxSize THEN rx_pointer + 2 + L
                  ELSE rx_pointer + 2 + L - RxSize
        <5>1. rx_pointer + 2 + L \in Nat /\ rx_pointer + 2 + L < 2 * RxSize
          BY <1>1, <1>2
        <5>2. WrapsOnce(rx_pointer + 2 + L)
          BY <5>1, Wrapped, Zenon
        <5> QED
          BY <1>1, <1>2, <5>2 DEF WrapsOnce
      <4> HIDE DEF crc
      <4>2. crc \in Nat /\ crc < RxSize /\ crc + 1 \in Nat /\ crc + 1 < 2 * RxSize
        BY <1>1, <1>2, <4>1
      <4>3. (crc + 1) % RxSize = IF crc + 1 < RxSize THEN crc + 1 ELSE crc + 1 - RxSize
        BY <4>2, Wrapped
      <4>4. (rx_pointer + (L + 3)) % RxSize =
              IF rx_pointer + (L + 3) < RxSize THEN rx_pointer + (L + 3)
              ELSE rx_pointer + (L + 3) - RxSize
        <5>1. rx_pointer + (L + 3) \in Nat /\ rx_pointer + (L + 3) < 2 * RxSize
          BY <1>1, <1>2
        <5>2. WrapsOnce(rx_pointer + (L + 3))
          BY <5>1, Wrapped, Zenon
        <5> QED
          BY <1>1, <1>2, <5>2 DEF WrapsOnce
      <4> QED
        BY <1>1, <1>2, <4>1, <4>3, <4>4
    <3> QED
      BY <3>1, <3>2, ArrayIs
  <2>7. /\ DOMAIN InPieces(d, first).bytes = 1 .. L
        /\ \A i \in 1 .. L : InPieces(d, first).bytes[i] =
             IF i <= first THEN InArray(d + i - 1)
             ELSE InArray(((rx_pointer + 2 + first) % RxSize) + i - first - 1)
        /\ InPieces(d, first).low = InArray(crc)
        /\ InPieces(d, first).high = InArray((crc + 1) % RxSize)
    BY DEF InPieces, L
  <2>8. \A i \in 1 .. L : InPieces(d, first).bytes[i] = rx[i + 2]
    BY <2>3, <2>4, <2>7
  <2>9. ReadBytes = InPieces(d, first)
    BY <1>4, <1>7 DEF len, first
  <2> QED
    BY <2>5, <2>6, <2>7, <2>8, <2>9 DEF L
<1> QED
  BY <1>6, <1>7

\* What reading consumes: a byte that is no sync byte, or as much as a length says.
Consumes(n) ==
  /\ Flush(n) /\ UNCHANGED << sender, feed >>
  /\ \/ n = 1 /\ rx[1].v # Sync
     \/ /\ n = PayloadLen + 4 /\ Whole /\ rx[1].v = Sync
        /\ PayloadLen > MaxPayload \/ ReadPacket

LEMMA PollConsumes ==
  ASSUME NEW top \in Nat, RingTypes(top), Poll
  PROVE  \E n \in 1 .. Len(rx) : n <= top + 5 /\ Consumes(n)
<1>1. Len(rx) \in Nat
  BY DEF RingTypes
<1>2. CASE SkipByte
  <2>1. 1 \in 1 .. Len(rx) /\ 1 <= top + 5
    BY <1>1, <1>2 DEF SkipByte
  <2>2. Flush(1) /\ UNCHANGED << sender, feed >> /\ rx[1].v # Sync
    BY <1>2 DEF SkipByte
  <2> QED
    BY <2>1, <2>2 DEF Consumes
<1>3. ASSUME Whole
      PROVE  PayloadLen + 4 \in 1 .. Len(rx) /\ PayloadLen + 4 <= top + 5 /\ rx[1].v = Sync
  <2>1. PayloadLen = rx[2].v + 1 /\ PayloadLen \in Nat /\ rx[2].v <= top
    BY <1>1, <1>3, LengthIs DEF Whole, RingTypes
  <2>2. rx[2].v \in Nat
    <3>1. rx[2] \in ByteSet
      BY <1>1, <1>3 DEF Whole, RingTypes
    <3> QED
      BY <3>1 DEF ByteSet
  <2> QED
    BY <1>1, <1>3, <2>1, <2>2 DEF Whole
<1>4. CASE SkipTooBig
  <2>1. Whole /\ PayloadLen > MaxPayload /\ Flush(PayloadLen + 4) /\ UNCHANGED << sender, feed >>
    BY <1>4 DEF SkipTooBig
  <2> QED
    BY <1>3, <2>1 DEF Consumes
<1>5. CASE ReadPacket
  <2>1. Whole /\ Flush(PayloadLen + 4) /\ UNCHANGED << sender, feed >>
    BY <1>5 DEF ReadPacket
  <2> QED
    BY <1>3, <1>5, <2>1 DEF Consumes
<1> QED
  BY <1>2, <1>4, <1>5 DEF Poll

LEMMA Flushed ==
  ASSUME NEW top, RingTypes(top), NEW n \in 1 .. Len(rx), Flush(n)
  PROVE  /\ RingTypes(top)'
         /\ Len(rx') \in Nat /\ Len(rx') = Len(rx) - n
         /\ \A i \in 1 .. Len(rx') : rx'[i] = rx[i + n]
<1>1. rx \in Seq(ByteSet) /\ Len(rx) \in Nat /\ rx' = SubSeq(rx, n + 1, Len(rx))
  BY DEF RingTypes, Flush
<1>2. /\ rx' \in Seq(ByteSet) /\ Len(rx') \in Nat /\ Len(rx') = Len(rx) - n
      /\ \A i \in 1 .. Len(rx') : rx'[i] = rx[i + n]
  <2> DEFINE S == ByteSet
  <2> HIDE DEF S
  <2>1. rx \in Seq(S)
    BY <1>1 DEF S
  <2>2. rx' \in Seq(S) /\ Len(rx') = Len(rx) - n
        /\ \A i \in 1 .. Len(rx) - n : rx'[i] = rx[i + n]
    BY <1>1, <2>1
  <2> QED
    BY <1>1, <2>2 DEF S
<1>3. \A i \in 1 .. Len(rx') : rx'[i].v <= top
  <2>1. \A i \in 1 .. Len(rx') : i + n \in 1 .. Len(rx)
    BY <1>1, <1>2
  <2> QED
    BY <1>2, <2>1 DEF RingTypes
<1>4. rx_pointer' \in 0 .. RxSize - 1 /\ Len(rx') < RxSize
  <2>1. RxSize \in Nat /\ RxSize > 0
    BY Wrapped
  <2>2. rx_pointer' = (rx_pointer + n) % RxSize /\ rx_pointer + n \in Nat
        /\ rx_pointer + n < 2 * RxSize
    BY <1>1, <2>1 DEF Flush, RingTypes
  <2>3. WrapsOnce(rx_pointer + n)
    BY <2>2, Wrapped, Zenon
  <2> QED
    BY <1>1, <1>2, <2>1, <2>2, <2>3 DEF RingTypes, WrapsOnce
<1> QED
  BY <1>2, <1>3, <1>4 DEF RingTypes

LEMMA RingReceives ==
  ASSUME NEW top, RingTypes(top), NEW byte \in ByteSet, byte.v <= top, Receive(byte)
  PROVE  /\ RingTypes(top)' /\ poll_got' = poll_got
         /\ Len(rx') \in Nat /\ Len(rx') = Len(rx) + 1
         /\ \A i \in 1 .. Len(rx) : rx'[i] = rx[i]
         /\ rx'[Len(rx) + 1] = byte
<1>1. /\ rx \in Seq(ByteSet) /\ Len(rx) \in Nat /\ rx' = Append(rx, byte)
      /\ Len(rx) < RxSize - 1 /\ rx_pointer' = rx_pointer /\ poll_got' = poll_got
  BY DEF RingTypes, Receive
<1>2. /\ rx' \in Seq(ByteSet) /\ Len(rx') = Len(rx) + 1 /\ rx'[Len(rx) + 1] = byte
      /\ \A i \in 1 .. Len(rx) : rx'[i] = rx[i]
  BY <1>1, Appended
<1>3. \A i \in 1 .. Len(rx') : rx'[i].v <= top
  <2>1. \A i \in 1 .. Len(rx') : i \in 1 .. Len(rx) \/ i = Len(rx) + 1
    BY <1>1, <1>2
  <2> QED
    BY <1>2, <2>1 DEF RingTypes
<1>4. RxSize \in Nat
  BY Wrapped
<1> QED
  BY <1>1, <1>2, <1>3, <1>4 DEF RingTypes

(* From place b on the unread bytes are frames: they begin at the places S, and the one *)
(* being sent at Begins, which may be read in part.  A place below 1 has been read.     *)

Begins == Len(rx) + 2 - place

\* The frame p, which one of S follows; while the parser may still look for a sync byte
\* there is none inside, and what follows the last one is known.
FrameAt(shortest, b, S, s, p) ==
  /\ s + Len(p) + 4 \in S
  /\ \A i \in 1 .. Len(p) + 4 : rx[s + i - 1] = Encode(p)[i]
  /\ s - b < PollLoss * shortest => ~SyncInside(p)
  /\ s + Len(p) + 4 = Begins => (good - 1) * shortest <= s - b /\ p = last

FramesFrom(shortest, b, S) ==
  /\ b \in Int /\ S \subseteq Nat \ {0}
  /\ good * shortest <= Begins - b
  /\ \A i \in 1 .. place - 1 : Begins + i - 1 >= 1 => rx[Begins + i - 1] = Encode(payload)[i]
  /\ Begins >= 1 => Begins \in S
  /\ \A s \in S : b <= s /\ s <= Begins
  /\ \A s \in S : s = Begins \/ \E p \in Payloads : FrameAt(shortest, b, S, s, p)

\* Where the parser is: at a frame, before the frames, inside one, or inside the one sent.
AtFrame(S) ==
  1 \in S /\ (Begins = 1 /\ payload = Nothing /\ good > PollLoss => poll_got = last)
BeforeFrames(b, S) == b > 1 /\ b \in S
InsideFrame(S) ==
  \E s \in S : s > 1 /\ (\A i \in 1 .. s - 1 : rx[i].v # Sync) /\ (s = Begins => good <= PollLoss)
InsideLast(shortest, b) == Begins <= 0 /\ Begins - b < PollLoss * shortest

Reads(shortest, b, S) ==
  /\ FramesFrom(shortest, b, S)
  /\ AtFrame(S) \/ BeforeFrames(b, S) \/ InsideFrame(S) \/ InsideLast(shortest, b)

ReadsFrames(shortest) == \E b \in Int, S \in SUBSET (Nat \ {0}) : Reads(shortest, b, S)

PollInv(shortest, top) ==
  LineTypes /\ RingTypes(top) /\ (Hurt \/ ReadsFrames(shortest))

\* What the parser consumes at a wrong length is not longer than PollLoss good frames.
PollLossFits(shortest, top) ==
  /\ shortest > 0 /\ \A p \in Payloads : shortest <= Len(p) + 4
  /\ \A v \in Values : v <= top
  /\ top + 4 <= PollLoss * shortest /\ MaxPayload <= Sync

LEMMA MoreFrames ==
  ASSUME NEW k \in Nat, NEW m \in Int, NEW n \in Int, n < m
  PROVE  n * k + k <= m * k
<1>1. PICK j \in Nat : m = n + 1 + j
  <2>1. m - n - 1 \in Nat /\ m = n + 1 + (m - n - 1)
    OBVIOUS
  <2> QED
    BY <2>1
<1>2. m * k = n * k + k + j * k /\ j * k \in Nat
  BY <1>1
<1>3. n * k \in Int
  OBVIOUS
<1> QED
  BY <1>2, <1>3

LEMMA FewFrames ==
  ASSUME NEW k \in Nat, NEW m \in Int, NEW n \in Int, m * k < n * k
  PROVE  m < n
<1>1. m * k \in Int /\ n * k \in Int
  OBVIOUS
<1> SUFFICES ASSUME n <= m PROVE FALSE
  OBVIOUS
<1>2. n < m
  <2>1. n # m
    BY <1>1
  <2> QED
    BY <2>1
<1> QED
  BY <1>1, <1>2, MoreFrames

\* The last of the places up to n.
LEMMA LastUpTo ==
  ASSUME NEW n \in Nat, NEW S \in SUBSET Nat, NEW s \in S, s <= n
  PROVE  \E x \in S : x <= n /\ \A y \in S : y <= n => y <= x
<1> DEFINE T == {k \in Nat : \E y \in S : y <= n /\ k = n - y}
<1>1. T \in SUBSET Nat /\ n - s \in T
  OBVIOUS
<1>2. PICK k \in T : \A j \in T : ~(<< j, k >> \in OpToRel(<, Nat))
  <2> HIDE DEF T
  <2> QED
    BY <1>1, NatLessThanWellFounded, WFMin
<1>3. PICK x \in S : x <= n /\ k = n - x
  OBVIOUS
<1>4. ASSUME NEW y \in S, y <= n, ~(y <= x)
      PROVE  FALSE
  <2>1. n - y \in T /\ n - y < k /\ n - y \in Nat /\ k \in Nat
    BY <1>3, <1>4
  <2> DEFINE j == n - y
  <2> HIDE DEF j, T
  <2>2. j \in T /\ j < k /\ j \in Nat /\ k \in Nat
    BY <2>1 DEF j
  <2>3. << j, k >> \in Nat \X Nat /\ << j, k >>[1] < << j, k >>[2]
    BY <2>2
  <2>4. << j, k >> \in OpToRel(<, Nat)
    BY <2>3, Zenon DEF OpToRel
  <2> QED
    BY <1>2, <2>2, <2>4
<1> QED
  BY <1>3, <1>4

\* The numbers of the invariant.
LEMMA LineNumbers ==
  ASSUME LineTypes, NEW top, RingTypes(top)
  PROVE  /\ good \in Nat /\ good <= MostGood /\ MostGood \in Nat
         /\ PollLoss \in Nat /\ PollLoss < MostGood
         /\ place \in Nat /\ place >= 1 /\ Len(rx) \in Nat /\ Begins \in Int
         /\ Begins <= Len(rx) + 1 /\ (payload = Nothing => Begins = Len(rx) + 1)
<1>1. good \in Nat /\ good <= MostGood /\ MostGood \in Nat /\ PollLoss \in Nat
      /\ PollLoss < MostGood
  BY LossCounts DEF LineTypes
<1>2. Len(rx) \in Nat
  BY DEF RingTypes
<1>3. place \in Nat /\ place >= 1 /\ (payload = Nothing => place = 1)
  <2>1. CASE payload = Nothing
    BY <2>1 DEF LineTypes
  <2>2. CASE payload # Nothing
    BY <2>2, PayloadIs DEF LineTypes
  <2> QED
    BY <2>1, <2>2
<1> QED
  BY <1>1, <1>2, <1>3 DEF Begins

\* Few frames have passed where the places of S are near b.
LEMMA NearIsFew ==
  ASSUME NEW shortest \in Nat, LineTypes, NEW top, RingTypes(top),
         NEW b \in Int, NEW x \in Int, x - b < PollLoss * shortest
  PROVE  /\ good * shortest <= x - b => good < PollLoss
         /\ (good - 1) * shortest <= x - b => good <= PollLoss
<1>1. good \in Int /\ PollLoss \in Int
  BY LineNumbers
<1>2. good * shortest \in Int /\ (good - 1) * shortest \in Int /\ PollLoss * shortest \in Int
  BY <1>1
<1>3. ASSUME good * shortest <= x - b
      PROVE  good < PollLoss
  <2>1. good * shortest < PollLoss * shortest
    BY <1>2, <1>3
  <2> QED
    BY <1>1, <2>1, FewFrames
<1>4. ASSUME (good - 1) * shortest <= x - b
      PROVE  good <= PollLoss
  <2>1. (good - 1) * shortest < PollLoss * shortest
    BY <1>2, <1>4
  <2>2. good - 1 < PollLoss
    BY <1>1, <2>1, FewFrames
  <2> QED
    BY <1>1, <2>2
<1> QED
  BY <1>3, <1>4

\* The places S, where n bytes are gone.
Shifted(S, n, T) ==
  /\ T \in SUBSET (Nat \ {0}) /\ \A t \in T : t + n \in S
  /\ \A s \in S : s > n => s - n \in T

LEMMA FlushKeepsFrames ==
  ASSUME NEW shortest \in Nat, LineTypes, NEW top, RingTypes(top),
         NEW b \in Int, NEW S \in SUBSET (Nat \ {0}), FramesFrom(shortest, b, S),
         NEW n \in 1 .. Len(rx), Flush(n), UNCHANGED sender,
         NEW T, Shifted(S, n, T)
  PROVE  FramesFrom(shortest, b - n, T)' /\ Begins' = Begins - n
<1>1. /\ UNCHANGED << payload, place, good, last >>
      /\ Len(rx') \in Nat /\ Len(rx') = Len(rx) - n
      /\ \A i \in 1 .. Len(rx') : rx'[i] = rx[i + n]
  BY Flushed DEF sender
<1>2. /\ place \in Nat /\ place >= 1 /\ Len(rx) \in Nat /\ Begins \in Int /\ n \in Nat
      /\ Begins <= Len(rx) + 1 /\ Begins = Len(rx) + 2 - place
  BY LineNumbers DEF Begins
<1>3. Begins' = Begins - n
  BY <1>1, <1>2 DEF Begins
<1>4. T \subseteq Nat \ {0} /\ \A t \in T : t + n \in S
  BY DEF Shifted
<1>5. \A s \in S : s > n => s - n \in T
  BY DEF Shifted
<1>6. ASSUME NEW i \in 1 .. place - 1, Begins' + i - 1 >= 1
      PROVE  rx'[Begins' + i - 1] = Encode(payload)[i]
  <2>1. i \in Nat /\ i <= place - 1 /\ Begins - n + i - 1 >= 1
    BY <1>2, <1>3, <1>6
  <2>2. /\ Begins - n + i - 1 \in 1 .. Len(rx) - n
        /\ (Begins - n + i - 1) + n = Begins + i - 1 /\ Begins + i - 1 >= 1
    BY <1>2, <2>1
  <2>3. rx'[Begins - n + i - 1] = rx[(Begins - n + i - 1) + n]
    BY <1>1, <2>2
  <2>4. rx[Begins + i - 1] = Encode(payload)[i]
    BY <2>2 DEF FramesFrom
  <2> QED
    BY <1>3, <2>2, <2>3, <2>4
<1>7. Begins' >= 1 => Begins' \in T
  BY <1>2, <1>3, <1>5 DEF FramesFrom
<1>8. ASSUME NEW t \in T
      PROVE  b - n <= t /\ t <= Begins'
  <2>1. b <= t + n /\ t + n <= Begins /\ t \in Nat
    BY <1>4, <1>8 DEF FramesFrom
  <2> QED
    BY <1>2, <1>3, <2>1
<1>9. ASSUME NEW t \in T, t # Begins'
      PROVE  \E p \in Payloads : FrameAt(shortest, b - n, T, t, p)'
  <2>1. t + n \in S /\ t \in Nat /\ t >= 1 /\ t + n # Begins
    BY <1>2, <1>3, <1>4, <1>9
  <2>2. PICK p \in Payloads : FrameAt(shortest, b, S, t + n, p)
    BY <2>1 DEF FramesFrom
  <2>3. Len(p) \in Nat
    BY FrameBytes, FramingAssumption DEF FramingAssumption
  <2>4. t + Len(p) + 4 \in T /\ t + Len(p) + 4 <= Len(rx') + 1
    <3>1. (t + n) + Len(p) + 4 \in S /\ (t + n) + Len(p) + 4 > n
          /\ ((t + n) + Len(p) + 4) - n = t + Len(p) + 4
      BY <1>2, <2>1, <2>2, <2>3 DEF FrameAt
    <3>2. (t + n) + Len(p) + 4 <= Begins
      BY <3>1 DEF FramesFrom
    <3>3. t + Len(p) + 4 \in T
      BY <1>5, <3>1
    <3>4. t + Len(p) + 4 <= Len(rx) - n + 1
      BY <1>2, <2>1, <2>3, <3>2
    <3> QED
      BY <1>1, <3>3, <3>4
  <2>5. ASSUME NEW i \in 1 .. Len(p) + 4
        PROVE  rx'[t + i - 1] = Encode(p)[i]
    <3>1. i \in Nat /\ i >= 1 /\ i <= Len(p) + 4
      BY <2>3
    <3>2. t + i - 1 \in 1 .. Len(rx')
      BY <1>1, <2>1, <2>3, <2>4, <3>1
    <3>3. (t + i - 1) + n = (t + n) + i - 1
      BY <1>2, <2>1, <3>1
    <3>4. rx'[t + i - 1] = rx[(t + i - 1) + n]
      BY <1>1, <3>2
    <3> QED
      BY <2>2, <3>3, <3>4 DEF FrameAt
  <2>6. t - (b - n) = (t + n) - b
        /\ (t + Len(p) + 4 = Begins' => (t + n) + Len(p) + 4 = Begins)
    BY <1>2, <1>3, <2>1, <2>3
  <2>7. /\ t - (b - n) < PollLoss * shortest => ~SyncInside(p)
        /\ t + Len(p) + 4 = Begins' => (good' - 1) * shortest <= t - (b - n) /\ p = last'
    BY <1>1, <2>2, <2>6 DEF FrameAt
  <2>8. FrameAt(shortest, b - n, T, t, p)'
    BY <2>4, <2>5, <2>7 DEF FrameAt
  <2> QED
    BY <2>8
<1>10. good' * shortest <= Begins' - (b - n)
  <2>1. Begins' - (b - n) = Begins - b
    BY <1>2, <1>3
  <2> QED
    BY <1>1, <2>1 DEF FramesFrom
<1>11. b - n \in Int
  BY <1>2
<1>12. \A i \in 1 .. place' - 1 : Begins' + i - 1 >= 1 => rx'[Begins' + i - 1] = Encode(payload')[i]
  BY <1>1, <1>6
<1>13. \A t \in T : t = Begins' \/ \E p \in Payloads : FrameAt(shortest, b - n, T, t, p)'
  BY <1>9
<1>14. FramesFrom(shortest, b - n, T)'
  BY <1>4, <1>7, <1>8, <1>10, <1>11, <1>12, <1>13 DEF FramesFrom
<1> QED
  BY <1>3, <1>14

\* At a frame the parser reads it, if all of it is there.
LEMMA PollAtFrame ==
  ASSUME NEW shortest \in Nat, LineTypes, NEW top, RingTypes(top),
         NEW b \in Int, NEW S \in SUBSET (Nat \ {0}), FramesFrom(shortest, b, S), 1 \in S,
         NEW n \in 1 .. Len(rx), Consumes(n), NEW T, Shifted(S, n, T)
  PROVE  AtFrame(T)'
<1>1. /\ place \in Nat /\ place >= 1 /\ Len(rx) \in Nat /\ Begins \in Int
      /\ Begins = Len(rx) + 2 - place /\ (payload = Nothing => place = 1)
  BY LineNumbers DEF Begins, LineTypes
<1>2. Begins' = Begins - n /\ UNCHANGED << payload, place, good, last >> /\ Flush(n)
  BY FlushKeepsFrames DEF Consumes, sender
<1>3. 1 <= Begins
  BY DEF FramesFrom
<1>4. ASSUME Whole
      PROVE  Len(rx) >= 5 /\ PayloadLen = rx[2].v + 1 /\ PayloadLen + 4 <= Len(rx)
  BY <1>1, <1>4, LengthIs DEF Whole
<1>5. CASE Begins = 1
  <2>1. Len(rx) = place - 1 /\ payload # Nothing
    BY <1>1, <1>5
  <2>2. \A i \in 1 .. Len(rx) : rx[i] = Encode(payload)[i]
    <3> SUFFICES ASSUME NEW i \in 1 .. Len(rx) PROVE rx[i] = Encode(payload)[i]
      OBVIOUS
    <3>1. i \in 1 .. place - 1 /\ Begins + i - 1 = i /\ i >= 1
      BY <1>1, <1>5, <2>1
    <3> QED
      BY <3>1 DEF FramesFrom
  <2>3. payload \in Payloads /\ Len(payload) \in Nat /\ place <= Len(payload) + 4
    BY <2>1, PayloadIs
  <2>4. rx[1].v = Sync
    <3>1. 1 \in 1 .. Len(rx)
      BY <1>1
    <3>2. rx[1] = Plain(Sync)
      BY <2>2, <2>3, <3>1, FrameBytes
    <3> QED
      BY <3>2, ByteIs
  <2>5. ASSUME Whole
        PROVE  FALSE
    <3>1. rx[2] = Plain(Len(payload) - 1)
      <4>1. 2 \in 1 .. Len(rx)
        BY <1>1, <1>4, <2>5
      <4> QED
        BY <2>2, <2>3, <4>1, FrameBytes
    <3>2. PayloadLen = Len(payload)
      BY <1>4, <2>3, <2>5, <3>1, ByteIs
    <3> QED
      BY <1>1, <1>4, <2>1, <2>3, <2>5, <3>2
  <2> QED
    BY <2>4, <2>5 DEF Consumes
<1>6. CASE 1 < Begins
  <2>1. PICK p \in Payloads : FrameAt(shortest, b, S, 1, p)
    BY <1>6 DEF FramesFrom
  <2>2. Len(p) \in Nat /\ Len(p) >= 1 /\ Len(p) <= MaxPayload /\ p \in Seq(Nat) /\ p # Nothing
        /\ MaxPayload \in Nat
    BY FrameBytes, FramingAssumption DEF FramingAssumption
  <2>3. ASSUME NEW i \in 1 .. Len(p) + 4
        PROVE  rx[i] = Encode(p)[i]
    <3>1. 1 + i - 1 = i
      BY <2>2
    <3> QED
      BY <2>1, <3>1 DEF FrameAt
  <2>4. rx[1].v = Sync
    <3>1. 1 \in 1 .. Len(p) + 4
      BY <2>2
    <3> QED
      BY <2>3, <3>1, FrameBytes, ByteIs
  <2>5. rx[2].v = Len(p) - 1
    <3>1. 2 \in 1 .. Len(p) + 4
      BY <2>2
    <3> QED
      BY <2>3, <3>1, FrameBytes, ByteIs
  <2>6. /\ n = PayloadLen + 4 /\ Whole /\ PayloadLen = Len(p) /\ ReadPacket
    <3>1. n = PayloadLen + 4 /\ Whole /\ (PayloadLen > MaxPayload \/ ReadPacket)
      BY <2>4 DEF Consumes
    <3>2. PayloadLen = Len(p)
      BY <1>4, <2>2, <2>5, <3>1
    <3> QED
      BY <2>2, <3>1, <3>2
  <2>7. 1 + n \in S /\ 1 + n = 1 + Len(p) + 4 /\ 1 \in T
    <3>1. 1 + Len(p) + 4 \in S /\ 1 + n = 1 + Len(p) + 4
      BY <2>1, <2>2, <2>6 DEF FrameAt
    <3>2. 1 + n > n /\ (1 + n) - n = 1
      BY <2>2, <2>6
    <3> QED
      BY <3>1, <3>2 DEF Shifted
  <2>8. poll_got' = p
    <3> DEFINE bytes == ReadBytes.bytes
               q == [i \in DOMAIN bytes |-> bytes[i].v]
    <3>1. /\ DOMAIN bytes = 1 .. Len(p) /\ \A i \in 1 .. Len(p) : bytes[i] = rx[i + 2]
          /\ ReadBytes.low = rx[Len(p) + 3] /\ ReadBytes.high = rx[Len(p) + 4]
      BY <2>6, RingReads
    <3>2. poll_got' = IF CrcMatches(bytes, ReadBytes.low, ReadBytes.high)
                        THEN [i \in 1 .. Len(p) |-> bytes[i].v] ELSE poll_got
      BY <2>6 DEF ReadPacket
    <3> HIDE DEF bytes
    <3>3. ASSUME NEW i \in 1 .. Len(p)
          PROVE  bytes[i].v = p[i] /\ bytes[i].half = 0
      <4>1. i + 2 \in 1 .. Len(p) + 4
        BY <2>2
      <4>2. bytes[i] = Plain(p[i])
        BY <2>3, <3>1, <4>1, FrameBytes
      <4> QED
        BY <4>2, ByteIs
    <3>4. q = p /\ [i \in 1 .. Len(p) |-> bytes[i].v] = p
      BY <2>2, <3>1, <3>3
    <3>5. ReadBytes.low = CrcByte(p, 1) /\ ReadBytes.high = CrcByte(p, 2)
      <4>1. Len(p) + 3 \in 1 .. Len(p) + 4 /\ Len(p) + 4 \in 1 .. Len(p) + 4
        BY <2>2
      <4> QED
        BY <2>3, <3>1, <4>1, FrameBytes
    <3>6. CrcMatches(bytes, ReadBytes.low, ReadBytes.high)
      BY <3>1, <3>3, <3>4, <3>5, ByteIs DEF CrcMatches
    <3> QED
      BY <3>2, <3>4, <3>6
  <2>9. Begins' = 1 => p = last
    <3>1. Begins' = 1 => 1 + Len(p) + 4 = Begins
      BY <1>1, <1>2, <2>2, <2>6
    <3> QED
      BY <2>1, <3>1 DEF FrameAt
  <2> QED
    BY <1>2, <2>7, <2>8, <2>9 DEF AtFrame
<1> QED
  BY <1>1, <1>3, <1>5, <1>6

\* Inside a frame it skips a byte, and gets to the next one.
LEMMA PollInsideFrame ==
  ASSUME NEW shortest \in Nat, LineTypes, NEW top, RingTypes(top),
         NEW b \in Int, NEW S \in SUBSET (Nat \ {0}), FramesFrom(shortest, b, S), InsideFrame(S),
         NEW n \in 1 .. Len(rx), Consumes(n), NEW T, Shifted(S, n, T)
  PROVE  n = 1 /\ (AtFrame(T) \/ InsideFrame(T))'
<1>1. /\ Len(rx) \in Nat /\ Begins \in Int /\ good \in Nat /\ PollLoss \in Nat
  BY LineNumbers
<1>2. PICK s \in S : s > 1 /\ (\A i \in 1 .. s - 1 : rx[i].v # Sync) /\ (s = Begins => good <= PollLoss)
  BY DEF InsideFrame
<1>3. s \in Nat /\ 1 \in 1 .. s - 1
  BY <1>2
<1>4. n = 1 /\ Flush(1)
  BY <1>2, <1>3 DEF Consumes
<1>5. /\ Begins' = Begins - 1 /\ UNCHANGED << payload, place, good, last >>
      /\ Len(rx') = Len(rx) - 1 /\ \A i \in 1 .. Len(rx') : rx'[i] = rx[i + 1]
  BY <1>4, FlushKeepsFrames, Flushed DEF Consumes, sender
<1>6. s - 1 \in T
  BY <1>2, <1>3, <1>4 DEF Shifted
<1>7. s - 1 = Begins' => good' <= PollLoss
  BY <1>1, <1>2, <1>3, <1>5
<1>8. CASE s - 1 = 1
  <2>1. ~(Begins' = 1 /\ good' > PollLoss)
    BY <1>1, <1>5, <1>7, <1>8
  <2> QED
    BY <1>4, <1>6, <1>8, <2>1 DEF AtFrame
<1>9. CASE s - 1 > 1
  <2>1. ASSUME NEW i \in 1 .. (s - 1) - 1
        PROVE  rx'[i].v # Sync
    <3>1. s <= Len(rx) + 1
      BY <1>1, LineNumbers DEF FramesFrom
    <3>2. i \in 1 .. Len(rx) - 1 /\ i + 1 \in 1 .. s - 1
      BY <1>1, <1>3, <3>1
    <3> QED
      BY <1>2, <1>5, <3>2
  <2>2. InsideFrame(T)'
    BY <1>6, <1>7, <1>9, <2>1 DEF InsideFrame
  <2> QED
    BY <1>4, <2>2
<1> QED
  BY <1>3, <1>2, <1>8, <1>9

LEMMA PollInsideLast ==
  ASSUME NEW shortest \in Nat, NEW top, PollLossFits(shortest, top), LineTypes, RingTypes(top), ~Hurt,
         NEW b \in Int, NEW S \in SUBSET (Nat \ {0}), FramesFrom(shortest, b, S),
         InsideLast(shortest, b),
         NEW n \in 1 .. Len(rx), Consumes(n), NEW T, Shifted(S, n, T)
  PROVE  InsideLast(shortest, b - n)'
<1>1. /\ Len(rx) \in Nat /\ Begins \in Int /\ good \in Nat /\ PollLoss \in Nat /\ place \in Nat
      /\ PollLoss < MostGood /\ MostGood \in Nat /\ Begins = Len(rx) + 2 - place
      /\ (payload = Nothing => Begins = Len(rx) + 1)
  BY LineNumbers DEF Begins
<1>2. Begins <= 0 /\ Begins - b < PollLoss * shortest /\ good * shortest <= Begins - b
  BY DEF InsideLast, FramesFrom
<1>3. good < PollLoss
  BY <1>1, <1>2, NearIsFew
<1>4. payload # Nothing
  BY <1>1, <1>2
<1>5. payload \in Payloads /\ ~SyncInside(payload) /\ place \in 1 .. Len(payload) + 4
      /\ Len(payload) \in Nat
  BY <1>1, <1>3, <1>4, PayloadIs DEF Hurt
<1>6. 2 - Begins \in 1 .. place - 1 /\ 2 - Begins \in 2 .. Len(payload) + 4
      /\ Begins + (2 - Begins) - 1 = 1
  BY <1>1, <1>2, <1>5
<1>7. rx[1] = Encode(payload)[2 - Begins]
  BY <1>6 DEF FramesFrom
<1>8. rx[1].v # Sync
  BY <1>5, <1>6, <1>7, OneSync DEF PollLossFits
<1>9. n = 1
  BY <1>8 DEF Consumes
<1>10. Begins' = Begins - n
  BY FlushKeepsFrames DEF Consumes
<1>11. Begins - n <= 0 /\ (Begins - n) - (b - n) = Begins - b
  BY <1>1, <1>2, <1>9
<1> QED
  BY <1>2, <1>10, <1>11 DEF InsideLast

\* Before the frames whatever it consumes leaves it there or near their beginning.
LEMMA PollBeforeFrames ==
  ASSUME NEW shortest \in Nat, NEW top \in Nat, PollLossFits(shortest, top), LineTypes,
         RingTypes(top), ~Hurt,
         NEW b \in Int, NEW S \in SUBSET (Nat \ {0}), FramesFrom(shortest, b, S),
         BeforeFrames(b, S),
         NEW n \in 1 .. Len(rx), n <= top + 5, Consumes(n), NEW T, Shifted(S, n, T)
  PROVE  \/ AtFrame(T)' \/ BeforeFrames(b - n, T)' \/ InsideFrame(T)'
         \/ InsideLast(shortest, b - n)'
<1>1. /\ Len(rx) \in Nat /\ Begins \in Int /\ good \in Nat /\ PollLoss \in Nat /\ n \in Nat
      /\ Begins <= Len(rx) + 1 /\ n >= 1
  BY LineNumbers
<1>2. /\ Begins' = Begins - n /\ UNCHANGED << payload, place, good, last >>
      /\ Len(rx') = Len(rx) - n /\ \A i \in 1 .. Len(rx') : rx'[i] = rx[i + n]
  BY FlushKeepsFrames, Flushed DEF Consumes, sender
<1>3. b > 1 /\ b \in S /\ b <= Begins /\ good * shortest <= Begins - b
  BY DEF BeforeFrames, FramesFrom
<1>4. PICK far \in Nat : far = PollLoss * shortest /\ top + 4 <= far
  BY <1>1 DEF PollLossFits
<1>5. CASE b - n >= 1
  <2>1. b - n \in T
    BY <1>1, <1>3, <1>5 DEF Shifted
  <2>2. CASE b - n > 1
    BY <1>2, <2>1, <2>2 DEF BeforeFrames
  <2>3. CASE b - n = 1
    <3>1. Begins' = 1 => Begins - b < PollLoss * shortest
      BY <1>1, <1>2, <1>3, <1>4, <2>3
    <3>2. Begins' = 1 => good < PollLoss
      BY <1>1, <1>3, <3>1, NearIsFew
    <3>3. ~(Begins' = 1 /\ good' > PollLoss)
      BY <1>1, <1>2, <3>2
    <3> QED
      BY <2>1, <2>3, <3>3 DEF AtFrame
  <2> QED
    BY <1>1, <1>5, <2>2, <2>3
<1>6. CASE b - n < 1
  <2>1. n - b < far
    BY <1>1, <1>3, <1>4
  <2>2. CASE Begins - n <= 0
    <3>1. (Begins - n) - (b - n) < far
      BY <1>1, <2>1, <2>2
    <3> QED
      BY <1>2, <1>4, <2>2, <3>1 DEF InsideLast
  <2>3. CASE Begins - n >= 1
    <3>1. b <= n
      BY <1>1, <1>6
    <3>2. PICK s \in S : s <= n /\ \A y \in S : y <= n => y <= s
      <4>1. S \in SUBSET Nat
        OBVIOUS
      <4> QED
        BY <1>1, <1>3, <3>1, <4>1, LastUpTo
    <3>3. s \in Nat /\ s >= 1 /\ s # Begins /\ b <= s
      BY <1>1, <2>3, <3>2 DEF FramesFrom
    <3>4. PICK p \in Payloads : FrameAt(shortest, b, S, s, p)
      BY <3>3 DEF FramesFrom
    <3>5. Len(p) \in Nat
      BY FrameBytes
    <3> DEFINE e == s + Len(p) + 4
    <3>6. e \in S /\ e \in Nat /\ e > n /\ e <= Begins
      <4>1. e \in S /\ e \in Nat /\ e > s
        BY <3>3, <3>4, <3>5 DEF FrameAt
      <4>2. ~(e <= n)
        BY <3>2, <3>3, <4>1
      <4>3. e <= Begins
        BY <4>1 DEF FramesFrom
      <4> QED
        BY <1>1, <4>1, <4>2, <4>3
    <3>7. s - b < PollLoss * shortest
      BY <1>1, <1>4, <2>1, <3>2, <3>3
    <3>8. ~SyncInside(p)
      BY <3>4, <3>7 DEF FrameAt
    <3>9. ASSUME e = Begins
          PROVE  good <= PollLoss
      <4>1. (good - 1) * shortest <= s - b
        BY <3>4, <3>9 DEF FrameAt
      <4>2. s \in Int
        BY <3>3
      <4> QED
        BY <3>7, <4>1, <4>2, NearIsFew, Zenon
    <3>10. ASSUME NEW i \in 1 .. (e - n) - 1
           PROVE  rx'[i].v # Sync
      <4>1. i \in 1 .. Len(rx) - n /\ i + n - s + 1 \in 2 .. Len(p) + 4
            /\ s + (i + n - s + 1) - 1 = i + n
        BY <1>1, <3>2, <3>3, <3>5, <3>6
      <4>2. rx[i + n] = Encode(p)[i + n - s + 1]
        <5>1. i + n - s + 1 \in 1 .. Len(p) + 4
          BY <3>5, <4>1
        <5>2. rx[s + (i + n - s + 1) - 1] = Encode(p)[i + n - s + 1]
          BY <3>4, <5>1 DEF FrameAt
        <5> QED
          BY <4>1, <5>2
      <4>3. rx'[i] = rx[i + n]
        BY <1>2, <4>1
      <4> QED
        BY <3>8, <4>1, <4>2, <4>3, OneSync DEF PollLossFits
    <3>11. e - n \in T /\ e - n >= 1 /\ e - n \in Nat
      BY <1>1, <3>6 DEF Shifted
    <3>12. e - n = Begins' => good' <= PollLoss
      <4>1. e - n = Begins' => e = Begins
        BY <1>1, <1>2, <3>6
      <4> QED
        BY <1>2, <3>9, <4>1
    <3> HIDE DEF e
    <3>13. CASE e - n = 1
      <4>1. ~(Begins' = 1 /\ good' > PollLoss)
        BY <1>1, <1>2, <3>12, <3>13
      <4> QED
        BY <3>11, <3>13, <4>1 DEF AtFrame
    <3>14. CASE e - n > 1
      <4>1. InsideFrame(T)'
        BY <3>10, <3>11, <3>12, <3>14 DEF InsideFrame
      <4> QED
        BY <4>1
    <3> QED
      BY <3>11, <3>13, <3>14
  <2> QED
    BY <1>1, <2>2, <2>3
<1> QED
  BY <1>1, <1>5, <1>6

LEMMA PollKeepsReads ==
  ASSUME NEW shortest \in Nat, NEW top \in Nat, PollLossFits(shortest, top),
         PollInv(shortest, top), Poll
  PROVE  PollInv(shortest, top)'
<1>1. LineTypes /\ RingTypes(top)
  BY DEF PollInv
<1>2. PICK n \in 1 .. Len(rx) : n <= top + 5 /\ Consumes(n)
  BY <1>1, PollConsumes
<1>3. Flush(n) /\ UNCHANGED << payload, place, spoiled, good, last >> /\ UNCHANGED sender
  BY <1>2 DEF Consumes, sender
<1>4. LineTypes' /\ RingTypes(top)'
  <2>1. RingTypes(top)'
    BY <1>1, <1>3, Flushed
  <2> QED
    BY <1>1, <1>3, <2>1 DEF LineTypes
<1>5. CASE Hurt
  <2>1. Hurt'
    BY <1>3, <1>5 DEF Hurt
  <2> QED
    BY <1>4, <2>1 DEF PollInv
<1>6. CASE ~Hurt
  <2>1. PICK b \in Int, S \in SUBSET (Nat \ {0}) : Reads(shortest, b, S)
    BY <1>6 DEF PollInv, ReadsFrames
  <2> DEFINE T == {t \in Nat \ {0} : t + n \in S}
  <2>2. Shifted(S, n, T) /\ T \in SUBSET (Nat \ {0}) /\ b - n \in Int
    <3>1. n \in Nat
      BY <1>1 DEF RingTypes
    <3>2. ASSUME NEW s \in S, s > n
          PROVE  s - n \in T
      <4>1. s - n \in Nat \ {0} /\ (s - n) + n = s
        BY <3>1, <3>2
      <4> QED
        BY <4>1
    <3> QED
      BY <3>1, <3>2 DEF Shifted
  <2> HIDE DEF T
  <2>3. FramesFrom(shortest, b, S)
    BY <2>1 DEF Reads
  <2>4. FramesFrom(shortest, b - n, T)'
    BY <1>1, <1>2, <1>3, <2>2, <2>3, FlushKeepsFrames
  <2>5. AtFrame(S) => AtFrame(T)'
    BY <1>1, <1>2, <2>2, <2>3, PollAtFrame DEF AtFrame
  <2>6. BeforeFrames(b, S) => \/ AtFrame(T)' \/ BeforeFrames(b - n, T)' \/ InsideFrame(T)'
                              \/ InsideLast(shortest, b - n)'
    BY <1>1, <1>2, <1>6, <2>2, <2>3, PollBeforeFrames
  <2>7. InsideFrame(S) => AtFrame(T)' \/ InsideFrame(T)'
    BY <1>1, <1>2, <2>2, <2>3, PollInsideFrame
  <2>8. InsideLast(shortest, b) => InsideLast(shortest, b - n)'
    BY <1>1, <1>2, <1>6, <2>2, <2>3, PollInsideLast
  <2>9. Reads(shortest, b - n, T)'
    BY <2>1, <2>4, <2>5, <2>6, <2>7, <2>8 DEF Reads
  <2> QED
    BY <1>4, <2>2, <2>9 DEF PollInv, ReadsFrames
<1> QED
  BY <1>5, <1>6

LEMMA FrameUpTo ==
  ASSUME NEW shortest \in Nat, NEW top \in Nat, PollLossFits(shortest, top),
         NEW p \in Payloads, NEW k \in 1 .. Len(p) + 4
  PROVE  Encode(p)[k].v <= top
<1>1. /\ Len(p) \in 1 .. MaxPayload /\ MaxPayload \in Nat /\ Sync \in Nat /\ p \in Seq(Values)
      /\ Sync <= top /\ Len(p) - 1 <= top
  <2>1. /\ Len(p) \in 1 .. MaxPayload /\ MaxPayload \in Nat /\ Sync \in Nat /\ p \in Seq(Values)
        /\ Sync \in Values
    BY FrameBytes, FramingAssumption DEF FramingAssumption
  <2>2. Sync <= top /\ MaxPayload <= Sync
    BY <2>1 DEF PollLossFits
  <2> QED
    BY <2>1, <2>2
<1>2. CASE k = 1
  BY <1>1, <1>2, FrameBytes, ByteIs
<1>3. CASE k = 2
  BY <1>1, <1>3, FrameBytes, ByteIs
<1>4. CASE k \in 3 .. Len(p) + 2
  <2>1. k - 2 \in 1 .. Len(p) /\ k = (k - 2) + 2
    BY <1>1, <1>4
  <2>2. Encode(p)[k].v = p[k - 2]
    <3>1. Encode(p)[k] = Plain(p[k - 2])
      BY <2>1, FrameBytes
    <3> QED
      BY <3>1, ByteIs
  <2>3. p[k - 2] \in Values
    BY <1>1, <2>1
  <2> QED
    BY <2>2, <2>3 DEF PollLossFits
<1>5. CASE k \in {Len(p) + 3, Len(p) + 4}
  <2>1. Encode(p)[k].v \in Values
    BY <1>5, FrameBytes, ByteIs, CrcValues
  <2> QED
    BY <2>1 DEF PollLossFits
<1> QED
  BY <1>1, <1>2, <1>3, <1>4, <1>5

\* When a frame with noise ends, or noise comes between two, nothing is good yet: frames
\* begin behind what is unread.
LEMMA ReadsAnew ==
  ASSUME NEW shortest \in Nat, LineTypes, NEW top, RingTypes(top), place = 1, good = 0,
         NEW b, b = Begins
  PROVE  b \in Int /\ {b} \in SUBSET (Nat \ {0}) /\ Reads(shortest, b, {b})
<1>1. Len(rx) \in Nat /\ Begins = Len(rx) + 1 /\ PollLoss \in Nat /\ b = Begins
  BY LineNumbers DEF Begins
<1>2. b \in Int /\ {b} \in SUBSET (Nat \ {0})
  BY <1>1
<1>3. good * shortest <= Begins - b
  <2>1. good * shortest = 0
    OBVIOUS
  <2> QED
    BY <1>1, <2>1
<1>4. \A i \in 1 .. place - 1 : FALSE
  OBVIOUS
<1>5. FramesFrom(shortest, b, {b})
  BY <1>1, <1>2, <1>3, <1>4 DEF FramesFrom
<1>6. CASE b = 1
  <2>1. ~(good > PollLoss)
    BY <1>1
  <2>2. AtFrame({b})
    BY <1>6, <2>1 DEF AtFrame
  <2> QED
    BY <1>2, <1>5, <2>2 DEF Reads
<1>7. CASE b > 1
  <2>1. BeforeFrames(b, {b})
    BY <1>7 DEF BeforeFrames
  <2> QED
    BY <1>2, <1>5, <2>1 DEF Reads
<1> QED
  BY <1>1, <1>6, <1>7

LEMMA ReadsAnewNext ==
  ASSUME NEW shortest \in Nat, NEW top
  PROVE  LineTypes' /\ RingTypes(top)' /\ place' = 1 /\ good' = 0 => ReadsFrames(shortest)'
<1>1. LineTypes /\ RingTypes(top) /\ place = 1 /\ good = 0 => ReadsFrames(shortest)
  <2> SUFFICES ASSUME LineTypes, RingTypes(top), place = 1, good = 0
               PROVE  ReadsFrames(shortest)
    OBVIOUS
  <2>1. PICK b \in Int : b = Begins
    BY LineNumbers
  <2> QED
    BY <2>1, ReadsAnew DEF ReadsFrames
<1>2. (LineTypes /\ RingTypes(top) /\ place = 1 /\ good = 0)' => ReadsFrames(shortest)'
  BY <1>1, PTL
<1> QED
  BY <1>2

\* A byte of a good frame extends what has been received of it.
LEMMA SendMore ==
  ASSUME NEW shortest \in Nat, LineTypes, NEW top, RingTypes(top), payload # Nothing,
         NEW b \in Int, NEW S \in SUBSET (Nat \ {0}), Reads(shortest, b, S),
         place < Len(payload) + 4, place' = place + 1, UNCHANGED << payload, good, last >>,
         Len(rx') = Len(rx) + 1, \A i \in 1 .. Len(rx) : rx'[i] = rx[i],
         rx'[Len(rx) + 1] = Encode(payload)[place], poll_got' = poll_got
  PROVE  Reads(shortest, b, S)'
<1>1. /\ Len(rx) \in Nat /\ Begins \in Int /\ place \in Nat /\ place >= 1
      /\ Begins = Len(rx) + 2 - place /\ Begins <= Len(rx) + 1
  BY LineNumbers DEF Begins
<1>2. Begins' = Begins
  BY <1>1 DEF Begins
<1>3. FramesFrom(shortest, b, S)
  BY DEF Reads
<1>4. ASSUME NEW i \in 1 .. place' - 1, Begins + i - 1 >= 1
      PROVE  rx'[Begins + i - 1] = Encode(payload)[i]
  <2>1. CASE i = place
    <3>1. Begins + i - 1 = Len(rx) + 1
      BY <1>1, <2>1
    <3> QED
      BY <2>1, <3>1
  <2>2. CASE i # place
    <3>1. i \in 1 .. place - 1 /\ Begins + i - 1 \in 1 .. Len(rx)
      BY <1>1, <1>4, <2>2
    <3>2. rx[Begins + i - 1] = Encode(payload)[i]
      BY <1>3, <1>4, <3>1 DEF FramesFrom
    <3> QED
      BY <3>1, <3>2
  <2> QED
    BY <2>1, <2>2
<1>5. ASSUME NEW s \in S, s # Begins
      PROVE  \E p \in Payloads : FrameAt(shortest, b, S, s, p)'
  <2>1. PICK p \in Payloads : FrameAt(shortest, b, S, s, p)
    BY <1>3, <1>5 DEF FramesFrom
  <2>2. Len(p) \in Nat /\ s \in Nat /\ s >= 1
    BY FrameBytes
  <2>3. s + Len(p) + 4 <= Begins
    BY <1>3, <2>1 DEF FrameAt, FramesFrom
  <2>4. ASSUME NEW i \in 1 .. Len(p) + 4
        PROVE  rx'[s + i - 1] = Encode(p)[i]
    <3>1. s + i - 1 \in 1 .. Len(rx)
      BY <1>1, <2>2, <2>3
    <3> QED
      BY <2>1, <3>1 DEF FrameAt
  <2>5. FrameAt(shortest, b, S, s, p)'
    BY <1>2, <2>1, <2>4 DEF FrameAt
  <2> QED
    BY <2>5
<1>6. FramesFrom(shortest, b, S)'
  <2>1. good' * shortest <= Begins' - b
    BY <1>2, <1>3 DEF FramesFrom
  <2>2. \A i \in 1 .. place' - 1 :
          Begins' + i - 1 >= 1 => rx'[Begins' + i - 1] = Encode(payload')[i]
    BY <1>2, <1>4
  <2>3. /\ b \in Int /\ S \subseteq Nat \ {0} /\ (Begins' >= 1 => Begins' \in S)
        /\ \A s \in S : b <= s /\ s <= Begins'
    BY <1>2, <1>3 DEF FramesFrom
  <2>4. \A s \in S : s = Begins' \/ \E p \in Payloads : FrameAt(shortest, b, S, s, p)'
    BY <1>2, <1>5
  <2> QED
    BY <2>1, <2>2, <2>3, <2>4 DEF FramesFrom
<1>7. AtFrame(S) => AtFrame(S)'
  BY DEF AtFrame
<1>8. BeforeFrames(b, S) => BeforeFrames(b, S)'
  BY DEF BeforeFrames
<1>9. InsideFrame(S) => InsideFrame(S)'
  <2> SUFFICES ASSUME InsideFrame(S) PROVE InsideFrame(S)'
    OBVIOUS
  <2>1. PICK s \in S : s > 1 /\ (\A i \in 1 .. s - 1 : rx[i].v # Sync)
                       /\ (s = Begins => good <= PollLoss)
    BY DEF InsideFrame
  <2>2. s <= Len(rx) + 1 /\ s \in Nat
    <3>1. s <= Begins
      BY <1>3 DEF FramesFrom
    <3> QED
      BY <1>1, <3>1
  <2>3. \A i \in 1 .. s - 1 : rx'[i].v # Sync
    <3>1. \A i \in 1 .. s - 1 : i \in 1 .. Len(rx)
      BY <1>1, <2>2
    <3> QED
      BY <2>1, <3>1
  <2>4. s = Begins' => good' <= PollLoss
    BY <1>2, <2>1
  <2> QED
    BY <2>1, <2>3, <2>4 DEF InsideFrame
<1>10. InsideLast(shortest, b) => InsideLast(shortest, b)'
  BY <1>2 DEF InsideLast
<1> QED
  BY <1>6, <1>7, <1>8, <1>9, <1>10 DEF Reads

\* Its last byte makes it one of the frames.
LEMMA SendLast ==
  ASSUME NEW shortest \in Nat, NEW top, PollLossFits(shortest, top), LineTypes, RingTypes(top),
         payload # Nothing, ~Hurt,
         NEW b \in Int, NEW S \in SUBSET (Nat \ {0}), Reads(shortest, b, S),
         place = Len(payload) + 4, payload' = Nothing, place' = 1, last' = payload,
         good' = IF good < MostGood THEN good + 1 ELSE good,
         Len(rx') = Len(rx) + 1, \A i \in 1 .. Len(rx) : rx'[i] = rx[i],
         rx'[Len(rx) + 1] = Encode(payload)[place], poll_got' = poll_got,
         NEW e, e = Len(rx) + 2, NEW U, U = S \union {e}
  PROVE  U \in SUBSET (Nat \ {0}) /\ Reads(shortest, b, U)'
<1>1. /\ Len(rx) \in Nat /\ Begins \in Int /\ place \in Nat /\ place >= 1
      /\ Begins = Len(rx) + 2 - place /\ Begins <= Len(rx) + 1 /\ good \in Nat
      /\ PollLoss \in Nat /\ MostGood \in Nat /\ PollLoss < MostGood
  BY LineNumbers DEF Begins
<1>2. /\ payload \in Payloads /\ Len(payload) \in Nat /\ shortest <= Len(payload) + 4
  BY PayloadIs DEF PollLossFits
<1>3. Begins' = e /\ e = Begins + Len(payload) + 4 /\ e \in Nat /\ e >= 2 /\ e > Begins
  BY <1>1, <1>2 DEF Begins
<1>4. FramesFrom(shortest, b, S)
  BY DEF Reads
<1>5. U \in SUBSET (Nat \ {0}) /\ e \in U /\ \A s \in S : s \in U
  <2>1. e \in Nat \ {0}
    BY <1>3
  <2> QED
    BY <2>1
<1>6. PICK passed \in Nat : passed = good * shortest
  BY <1>1
<1>7. passed <= Begins - b
  BY <1>4, <1>6 DEF FramesFrom
<1>8. good' * shortest <= passed + shortest /\ (good' - 1) * shortest <= passed
      /\ good' \in Nat /\ good' <= good + 1
  <2>1. CASE good < MostGood
    <3>1. good' = good + 1
      BY <2>1
    <3>2. good' * shortest = good * shortest + shortest /\ good' - 1 = good
      BY <1>1, <3>1
    <3> QED
      BY <1>1, <1>6, <3>1, <3>2
  <2>2. CASE ~(good < MostGood)
    <3>1. good' = good
      BY <2>2
    <3>2. (good - 1) * shortest = good * shortest - shortest
      BY <1>1
    <3> QED
      BY <1>1, <1>6, <3>1, <3>2
  <2> QED
    BY <2>1, <2>2
<1> HIDE DEF Begins
\* The frame itself.
<1>9. PICK x \in Int, p \in Payloads : x = Begins /\ p = payload
  BY <1>1, <1>2
<1>10. ASSUME x >= 1
       PROVE  FrameAt(shortest, b, U, x, p)'
  <2>1. ASSUME NEW i \in 1 .. Len(p) + 4
        PROVE  rx'[x + i - 1] = Encode(p)[i]
    <3>1. CASE i = place
      <4>1. x + i - 1 = Len(rx) + 1
        BY <1>1, <1>9, <3>1
      <4> QED
        BY <1>9, <3>1, <4>1
    <3>2. CASE i # place
      <4>1. i \in 1 .. place - 1 /\ x + i - 1 \in 1 .. Len(rx) /\ x + i - 1 >= 1
        BY <1>1, <1>2, <1>9, <1>10, <3>2
      <4>2. rx[x + i - 1] = Encode(p)[i]
        BY <1>4, <1>9, <4>1 DEF FramesFrom
      <4> QED
        BY <4>1, <4>2
    <3> QED
      BY <3>1, <3>2
  <2>2. x - b < PollLoss * shortest => ~SyncInside(p)
    <3> SUFFICES ASSUME x - b < PollLoss * shortest PROVE ~SyncInside(p)
      OBVIOUS
    <3>1. good < PollLoss
      BY <1>1, <1>6, <1>7, <1>9, NearIsFew
    <3> QED
      BY <1>1, <1>9, <3>1 DEF Hurt
  <2>3. (good' - 1) * shortest <= x - b
    <3>1. (good' - 1) * shortest \in Int
      BY <1>8
    <3> QED
      BY <1>1, <1>7, <1>8, <1>9, <3>1
  <2>4. x + Len(p) + 4 \in U
    BY <1>3, <1>5, <1>9
  <2>5. p = last'
    BY <1>9
  <2> QED
    BY <2>1, <2>2, <2>3, <2>4, <2>5 DEF FrameAt
\* The frames before it.
<1>11. ASSUME NEW s \in S, s # x
       PROVE  \E q \in Payloads : FrameAt(shortest, b, U, s, q)'
  <2>1. PICK q \in Payloads : FrameAt(shortest, b, S, s, q)
    BY <1>4, <1>9, <1>11 DEF FramesFrom
  <2>2. Len(q) \in Nat /\ s \in Nat /\ s >= 1
    <3>1. q \in Seq(Nat)
      BY FrameBytes
    <3>2. s \in Nat \ {0}
      OBVIOUS
    <3> QED
      BY <3>1, <3>2
  <2>3. s + Len(q) + 4 \in S /\ s + Len(q) + 4 <= Begins
    BY <1>4, <2>1 DEF FrameAt, FramesFrom
  <2>4. ASSUME NEW i \in 1 .. Len(q) + 4
        PROVE  rx'[s + i - 1] = Encode(q)[i]
    <3>1. s + i - 1 \in 1 .. Len(rx)
      BY <1>1, <2>2, <2>3
    <3> QED
      BY <2>1, <3>1 DEF FrameAt
  <2>5. s + Len(q) + 4 # Begins'
    BY <1>1, <1>3, <2>2, <2>3
  <2>6. s + Len(q) + 4 \in U
    BY <1>5, <2>3
  <2>7. FrameAt(shortest, b, U, s, q)'
    BY <2>1, <2>4, <2>5, <2>6 DEF FrameAt
  <2> QED
    BY <2>7
<1>12. FramesFrom(shortest, b, U)'
  <2>1. good' * shortest <= Begins' - b
    <3>1. good' * shortest \in Int
      BY <1>8
    <3> QED
      BY <1>1, <1>2, <1>3, <1>7, <1>8, <3>1
  <2>2. \A i \in 1 .. place' - 1 : FALSE
    OBVIOUS
  <2>3. ASSUME NEW s \in U
        PROVE  b <= s /\ s <= Begins'
    <3>1. CASE s = e
      BY <1>1, <1>3, <1>7, <3>1
    <3>2. CASE s \in S
      <4>1. b <= s /\ s <= Begins /\ s \in Nat
        BY <1>4, <3>2 DEF FramesFrom
      <4> QED
        BY <1>1, <1>3, <4>1
    <3> QED
      BY <3>1, <3>2
  <2>4. ASSUME NEW s \in U, s # Begins'
        PROVE  \E q \in Payloads : FrameAt(shortest, b, U, s, q)'
    <3>1. s \in S
      BY <1>3, <2>4
    <3>2. CASE s = x
      <4>1. x >= 1
        BY <3>1, <3>2
      <4> QED
        BY <1>10, <3>2, <4>1
    <3> QED
      BY <1>11, <3>1, <3>2
  <2>5. \A s \in U : s = Begins' \/ \E q \in Payloads : FrameAt(shortest, b, U, s, q)'
    BY <2>4
  <2>6. Begins' \in U /\ U \subseteq Nat \ {0}
    BY <1>3, <1>5
  <2> QED
    BY <2>1, <2>2, <2>3, <2>5, <2>6 DEF FramesFrom
\* Where the parser is.
<1>13. CASE AtFrame(S)
  <2>1. 1 \in U /\ Begins' # 1
    BY <1>3, <1>5, <1>13 DEF AtFrame
  <2>2. AtFrame(U)'
    BY <2>1 DEF AtFrame
  <2> QED
    BY <1>5, <1>12, <2>2 DEF Reads
<1>14. CASE BeforeFrames(b, S)
  <2>1. BeforeFrames(b, U)'
    BY <1>5, <1>14 DEF BeforeFrames
  <2> QED
    BY <1>5, <1>12, <2>1 DEF Reads
<1>15. CASE InsideFrame(S)
  <2>1. PICK s \in S : s > 1 /\ (\A i \in 1 .. s - 1 : rx[i].v # Sync)
    BY <1>15 DEF InsideFrame
  <2>2. s <= Begins /\ s \in Nat /\ s \in U
    BY <1>4, <1>5 DEF FramesFrom
  <2>3. \A i \in 1 .. s - 1 : rx'[i].v # Sync
    <3>1. \A i \in 1 .. s - 1 : i \in 1 .. Len(rx)
      BY <1>1, <2>2
    <3> QED
      BY <2>1, <3>1
  <2>4. s # Begins'
    BY <1>1, <1>3, <2>2
  <2>5. InsideFrame(U)'
    BY <2>1, <2>2, <2>3, <2>4 DEF InsideFrame
  <2> QED
    BY <1>5, <1>12, <2>5 DEF Reads
<1>16. CASE InsideLast(shortest, b)
  <2>1. Begins <= 0 /\ Begins - b < PollLoss * shortest
    BY <1>16 DEF InsideLast
  <2>2. good < PollLoss
    BY <1>1, <1>6, <1>7, <2>1, NearIsFew
  <2>3. good' <= PollLoss /\ e > 1
    BY <1>1, <1>3, <1>8, <2>2
  <2>4. ~SyncInside(payload)
    BY <1>1, <2>2 DEF Hurt
  <2>5. ASSUME NEW i \in 1 .. e - 1
        PROVE  rx'[i].v # Sync
    <3>1. i + 1 - Begins \in 2 .. Len(payload) + 4 /\ Begins + (i + 1 - Begins) - 1 = i
          /\ i >= 1 /\ i \in Nat /\ i <= Len(rx) + 1
      BY <1>1, <1>3, <2>1
    <3>2. rx'[i] = Encode(payload)[i + 1 - Begins]
      <4>1. CASE i = Len(rx) + 1
        <5>1. i + 1 - Begins = place
          BY <1>1, <4>1
        <5> QED
          BY <4>1, <5>1
      <4>2. CASE i # Len(rx) + 1
        <5>1. i \in 1 .. Len(rx) /\ i + 1 - Begins \in 1 .. place - 1
          BY <1>1, <3>1, <4>2, <2>1
        <5>2. rx[Begins + (i + 1 - Begins) - 1] = Encode(payload)[i + 1 - Begins]
          BY <1>4, <3>1, <5>1 DEF FramesFrom
        <5> QED
          BY <3>1, <5>1, <5>2
      <4> QED
        BY <4>1, <4>2
    <3> QED
      BY <1>2, <2>4, <3>1, <3>2, OneSync DEF PollLossFits
  <2>6. InsideFrame(U)'
    BY <1>3, <1>5, <2>3, <2>5 DEF InsideFrame
  <2> QED
    BY <1>5, <1>12, <2>6 DEF Reads
<1> QED
  BY <1>13, <1>14, <1>15, <1>16 DEF Reads

LEMMA SendKeepsReads ==
  ASSUME NEW shortest \in Nat, NEW top \in Nat, PollLossFits(shortest, top),
         PollInv(shortest, top), SendByte
  PROVE  PollInv(shortest, top)'
<1> DEFINE byte == Encode(payload)[place]
<1>1. /\ payload # Nothing /\ Receive(byte) /\ AfterByte(spoiled)
      /\ LineTypes /\ RingTypes(top)
  BY DEF SendByte, PollInv
<1>2. /\ payload \in Payloads /\ Len(payload) \in Nat /\ byte \in ByteSet
      /\ place \in 1 .. Len(payload) + 4
  BY <1>1, PayloadIs
<1>3. byte.v <= top
  BY <1>2, FrameUpTo
<1>4. /\ RingTypes(top)' /\ poll_got' = poll_got
      /\ Len(rx') \in Nat /\ Len(rx') = Len(rx) + 1
      /\ \A i \in 1 .. Len(rx) : rx'[i] = rx[i]
      /\ rx'[Len(rx) + 1] = byte
  BY <1>1, <1>2, <1>3, RingReceives
<1>5. spoiled \in BOOLEAN
  BY <1>1 DEF LineTypes
<1>6. /\ LineTypes'
      /\ place < Len(payload) + 4 =>
           place' = place + 1 /\ spoiled' = spoiled /\ UNCHANGED << payload, good, last >>
      /\ place = Len(payload) + 4 =>
           /\ payload' = Nothing /\ place' = 1 /\ last' = payload
           /\ spoiled = TRUE \/ (SyncInside(payload) /\ good < MostGood) => good' = 0
           /\ ~(spoiled = TRUE \/ (SyncInside(payload) /\ good < MostGood)) =>
                good' = IF good < MostGood THEN good + 1 ELSE good
  BY <1>1, <1>5, ByteSent
<1>7. place < Len(payload) + 4 \/ place = Len(payload) + 4
  BY <1>2
<1>8. CASE Hurt
  <2>1. CASE place < Len(payload) + 4
    <3>1. Hurt'
      BY <1>6, <1>8, <2>1 DEF Hurt
    <3> QED
      BY <1>4, <1>6, <3>1 DEF PollInv
  <2>2. CASE place = Len(payload) + 4
    <3>1. good' = 0 /\ place' = 1
      BY <1>6, <1>8, <2>2 DEF Hurt
    <3>2. ReadsFrames(shortest)'
      <4>1. LineTypes' /\ RingTypes(top)' /\ place' = 1 /\ good' = 0
        BY <1>4, <1>6, <3>1
      <4> QED
        BY <4>1, ReadsAnewNext
    <3> QED
      BY <1>4, <1>6, <3>2 DEF PollInv
  <2> QED
    BY <1>7, <2>1, <2>2
<1>9. CASE ~Hurt
  <2>1. PICK b \in Int, S \in SUBSET (Nat \ {0}) : Reads(shortest, b, S)
    BY <1>9 DEF PollInv, ReadsFrames
  <2>2. CASE place < Len(payload) + 4
    <3>1. Reads(shortest, b, S)'
      BY <1>1, <1>4, <1>6, <2>1, <2>2, SendMore
    <3> QED
      BY <1>4, <1>6, <3>1 DEF PollInv, ReadsFrames
  <2>3. CASE place = Len(payload) + 4
    <3>1. good' = IF good < MostGood THEN good + 1 ELSE good
      BY <1>1, <1>6, <1>9, <2>3 DEF Hurt
    <3>2. PICK e \in Nat : e = Len(rx) + 2
      BY <1>1 DEF RingTypes
    <3>3. payload' = Nothing /\ place' = 1 /\ last' = payload
      BY <1>6, <2>3
    <3>4. PICK U : U = S \union {e}
      OBVIOUS
    <3>5. U \in SUBSET (Nat \ {0}) /\ Reads(shortest, b, U)'
      BY <1>1, <1>4, <1>9, <2>1, <2>3, <3>1, <3>2, <3>3, <3>4, SendLast
    <3> QED
      BY <1>4, <1>6, <3>5 DEF PollInv, ReadsFrames
  <2> QED
    BY <1>7, <2>2, <2>3
<1> QED
  BY <1>8, <1>9

LEMMA NoiseKeepsReads ==
  ASSUME NEW shortest \in Nat, NEW top \in Nat, PollLossFits(shortest, top),
         PollInv(shortest, top), Noise
  PROVE  PollInv(shortest, top)'
<1>1. LineTypes /\ RingTypes(top)
  BY DEF PollInv
<1>2. ASSUME NEW v \in Values
      PROVE  Plain(v) \in ByteSet /\ Plain(v).v <= top
  <2>1. v \in Nat /\ << >> \in Seq(Nat) /\ v <= top
    BY FramingAssumption DEF FramingAssumption, PollLossFits
  <2> QED
    BY <2>1, ByteIs DEF Plain, ByteSet
<1>3. ASSUME LineTypes', RingTypes(top)', place' = 1, good' = 0
      PROVE  PollInv(shortest, top)'
  BY <1>3, ReadsAnewNext DEF PollInv
<1>4. ASSUME payload # Nothing, AfterByte(TRUE), RingTypes(top)'
      PROVE  PollInv(shortest, top)'
  <2>1. /\ LineTypes'
        /\ place < Len(payload) + 4 =>
             place' = place + 1 /\ spoiled' = TRUE /\ UNCHANGED << payload, good, last >>
        /\ place = Len(payload) + 4 => payload' = Nothing /\ place' = 1 /\ good' = 0
    BY <1>1, <1>4, ByteSent
  <2>2. CASE place < Len(payload) + 4
    <3>1. Hurt'
      BY <1>4, <2>1, <2>2 DEF Hurt
    <3> QED
      BY <1>4, <2>1, <3>1 DEF PollInv
  <2>3. CASE place = Len(payload) + 4
    BY <1>3, <1>4, <2>1, <2>3
  <2>4. place \in 1 .. Len(payload) + 4 /\ Len(payload) \in Nat
    BY <1>1, <1>4, PayloadIs
  <2> QED
    BY <2>2, <2>3, <2>4
<1>5. ASSUME LoseByte
      PROVE  PollInv(shortest, top)'
  <2>1. payload # Nothing /\ AfterByte(TRUE) /\ UNCHANGED << rx, rx_pointer >>
    BY <1>5 DEF LoseByte, poll
  <2>2. RingTypes(top)'
    BY <1>1, <2>1 DEF RingTypes
  <2> QED
    BY <1>4, <2>1, <2>2
<1>6. ASSUME NEW v \in Values, ChangeByte(v)
      PROVE  PollInv(shortest, top)'
  <2>1. payload # Nothing /\ AfterByte(TRUE) /\ Receive(Plain(v))
    BY <1>6 DEF ChangeByte
  <2>2. RingTypes(top)'
    BY <1>1, <1>2, <2>1, RingReceives
  <2> QED
    BY <1>4, <2>1, <2>2
<1>7. ASSUME NEW v \in Values, AddByte(v)
      PROVE  PollInv(shortest, top)'
  <2>1. /\ Receive(Plain(v)) /\ spoiled' = (payload # Nothing) /\ good' = 0
        /\ UNCHANGED << payload, place, last >>
    BY <1>7 DEF AddByte
  <2>2. RingTypes(top)'
    BY <1>1, <1>2, <2>1, RingReceives
  <2>3. good' \in 0 .. MostGood
    BY <2>1, LossCounts
  <2>4. LineTypes'
    BY <1>1, <2>1, <2>3 DEF LineTypes
  <2>5. CASE payload = Nothing
    <3>1. place' = 1
      BY <1>1, <2>1, <2>5 DEF LineTypes
    <3> QED
      BY <1>3, <2>1, <2>2, <2>4, <3>1
  <2>6. CASE payload # Nothing
    <3>1. Hurt'
      BY <2>1, <2>6 DEF Hurt
    <3> QED
      BY <2>2, <2>4, <3>1 DEF PollInv
  <2> QED
    BY <2>5, <2>6
<1> QED
  BY <1>5, <1>6, <1>7 DEF Noise

\* A frame begins where the last one ended.
LEMMA StartKeepsReads ==
  ASSUME NEW shortest \in Nat, NEW top \in Nat, PollInv(shortest, top),
         NEW p \in Payloads, StartFrame(p)
  PROVE  PollInv(shortest, top)'
<1>1. /\ payload = Nothing /\ payload' = p /\ p # Nothing
      /\ UNCHANGED << place, spoiled, good, last, rx, rx_pointer >>
  BY FrameBytes DEF StartFrame
<1>2. LineTypes /\ RingTypes(top) /\ place = 1 /\ spoiled = FALSE /\ ~Hurt
  BY <1>1 DEF PollInv, LineTypes, Hurt
<1>3. place' \in 1 .. Len(payload') + 4 /\ place' \in Nat
  <2>1. Len(p) \in 1 .. MaxPayload /\ MaxPayload \in Nat
    BY FrameBytes, FramingAssumption DEF FramingAssumption
  <2> QED
    BY <1>1, <1>2, <2>1
<1>4. LineTypes' /\ RingTypes(top)'
  BY <1>1, <1>2, <1>3 DEF LineTypes, RingTypes
<1>5. PICK b \in Int, S \in SUBSET (Nat \ {0}) : Reads(shortest, b, S)
  BY <1>2 DEF PollInv, ReadsFrames
<1>6. Begins' = Begins
  BY <1>1 DEF Begins
<1>7. FramesFrom(shortest, b, S)'
  <2>1. FramesFrom(shortest, b, S)
    BY <1>5 DEF Reads
  <2>2. \A i \in 1 .. place' - 1 : FALSE
    BY <1>1, <1>2
  <2>3. \A s \in S, q \in Payloads : FrameAt(shortest, b, S, s, q) => FrameAt(shortest, b, S, s, q)'
    BY <1>1, <1>6 DEF FrameAt
  <2> QED
    BY <1>1, <1>6, <2>1, <2>2, <2>3 DEF FramesFrom
<1>8. \/ AtFrame(S)' \/ BeforeFrames(b, S)' \/ InsideFrame(S)' \/ InsideLast(shortest, b)'
  <2>1. AtFrame(S) => AtFrame(S)'
    BY <1>1 DEF AtFrame
  <2>2. BeforeFrames(b, S) => BeforeFrames(b, S)'
    BY DEF BeforeFrames
  <2>3. InsideFrame(S) => InsideFrame(S)'
    BY <1>1, <1>6 DEF InsideFrame
  <2>4. InsideLast(shortest, b) => InsideLast(shortest, b)'
    BY <1>6 DEF InsideLast
  <2> QED
    BY <1>5, <2>1, <2>2, <2>3, <2>4 DEF Reads
<1> QED
  BY <1>4, <1>7, <1>8 DEF PollInv, Reads, ReadsFrames

LEMMA PollInvKeeps ==
  ASSUME NEW shortest \in Nat, NEW top \in Nat, PollLossFits(shortest, top),
         PollInv(shortest, top), [FramingNext]_framingVars
  PROVE  PollInv(shortest, top)'
<1>1. ASSUME UNCHANGED framingVars
      PROVE  PollInv(shortest, top)'
  <2>1. UNCHANGED << payload, place, spoiled, good, last, rx, rx_pointer, poll_got >>
    BY <1>1 DEF framingVars, sender, feed, poll
  <2>2. LineTypes' = LineTypes /\ RingTypes(top)' = RingTypes(top) /\ Hurt' = Hurt /\ Begins' = Begins
    BY <2>1 DEF LineTypes, RingTypes, Hurt, Begins
  <2>3. ASSUME NEW b \in Int, NEW S \in SUBSET (Nat \ {0}), Reads(shortest, b, S)
        PROVE  Reads(shortest, b, S)'
    <3>1. \A s \in S, q \in Payloads :
            FrameAt(shortest, b, S, s, q) => FrameAt(shortest, b, S, s, q)'
      BY <2>1, <2>2 DEF FrameAt
    <3>2. FramesFrom(shortest, b, S)'
      BY <2>1, <2>2, <2>3, <3>1 DEF FramesFrom, Reads
    <3>3. \/ AtFrame(S)' \/ BeforeFrames(b, S)' \/ InsideFrame(S)' \/ InsideLast(shortest, b)'
      BY <2>1, <2>2, <2>3 DEF AtFrame, BeforeFrames, InsideFrame, InsideLast, Reads
    <3> QED
      BY <3>2, <3>3 DEF Reads
  <2>4. ReadsFrames(shortest) => ReadsFrames(shortest)'
    BY <2>3 DEF ReadsFrames
  <2> QED
    BY <2>2, <2>4 DEF PollInv
<1> QED
  BY <1>1, PollKeepsReads, SendKeepsReads, NoiseKeepsReads, StartKeepsReads DEF FramingNext

\* When all is read, the parser has got the last frame.
LEMMA ReadsRecover ==
  ASSUME NEW shortest \in Nat, NEW top \in Nat, PollLossFits(shortest, top),
         PollInv(shortest, top)
  PROVE  PollRecovers
<1> SUFFICES ASSUME good > PollLoss, payload = Nothing, Len(rx) < 5
             PROVE  poll_got = last
  BY DEF PollRecovers
<1>1. LineTypes /\ RingTypes(top) /\ ~Hurt
  BY DEF PollInv, Hurt
<1>2. PICK b \in Int, S \in SUBSET (Nat \ {0}) : Reads(shortest, b, S)
  BY <1>1 DEF PollInv, ReadsFrames
<1>3. FramesFrom(shortest, b, S)
  BY <1>2 DEF Reads
<1>4. /\ Len(rx) \in Nat /\ Begins = Len(rx) + 1 /\ good \in Nat /\ PollLoss \in Nat
  BY <1>1, LineNumbers
<1>5. \A s \in S : s < Begins => s + 5 <= Begins
  <2> SUFFICES ASSUME NEW s \in S, s < Begins PROVE s + 5 <= Begins
    OBVIOUS
  <2>1. PICK p \in Payloads : FrameAt(shortest, b, S, s, p)
    BY <1>3, <1>4 DEF FramesFrom
  <2>2. Len(p) \in Nat /\ Len(p) >= 1
    BY FrameBytes, FramingAssumption DEF FramingAssumption
  <2>3. s + Len(p) + 4 <= Begins
    BY <1>3, <2>1 DEF FrameAt, FramesFrom
  <2> QED
    BY <1>4, <2>2, <2>3
<1>6. CASE AtFrame(S)
  <2>1. 1 \in S /\ 1 <= Begins
    BY <1>3, <1>6 DEF AtFrame, FramesFrom
  <2>2. Begins = 1
    BY <1>4, <1>5, <2>1
  <2> QED
    BY <1>6, <2>2 DEF AtFrame
<1>7. ~BeforeFrames(b, S)
  <2> SUFFICES ASSUME BeforeFrames(b, S) PROVE FALSE
    OBVIOUS
  <2>1. b > 1 /\ good * shortest <= Begins - b
    BY <1>3 DEF BeforeFrames, FramesFrom
  <2>2. PICK far \in Nat : far = PollLoss * shortest /\ top + 4 <= far
    BY <1>4 DEF PollLossFits
  <2>3. Begins - b < PollLoss * shortest
    BY <1>4, <2>1, <2>2
  <2>4. good < PollLoss
    BY <1>1, <1>4, <2>1, <2>3, NearIsFew
  <2> QED
    BY <1>4, <2>4
<1>8. ~InsideFrame(S)
  <2> SUFFICES ASSUME InsideFrame(S) PROVE FALSE
    OBVIOUS
  <2>1. PICK s \in S : s > 1 /\ (s = Begins => good <= PollLoss)
    BY DEF InsideFrame
  <2>2. s <= Begins /\ s \in Nat
    BY <1>3 DEF FramesFrom
  <2> QED
    BY <1>4, <1>5, <2>1, <2>2
<1>9. ~InsideLast(shortest, b)
  BY <1>4 DEF InsideLast
<1> QED
  BY <1>2, <1>6, <1>7, <1>8, <1>9 DEF Reads

LEMMA PollStarts ==
  ASSUME NEW shortest \in Nat, NEW top \in Nat, FramingInit
  PROVE  PollInv(shortest, top)
<1>1. rx = << >> /\ rx_pointer = 0 /\ place = 1 /\ good = 0
  BY DEF FramingInit
<1>2. LineTypes
  BY LineStarts
<1>3. RingTypes(top)
  <2>1. RxSize \in Nat /\ RxSize > 0
    BY Wrapped
  <2> QED
    BY <1>1, <2>1 DEF RingTypes
<1>4. \E b \in Int, S \in SUBSET (Nat \ {0}) : Reads(shortest, b, S)
  <2>1. PICK b \in Int : b = Begins
    BY <1>2, <1>3, LineNumbers
  <2> QED
    BY <1>1, <1>2, <1>3, <2>1, ReadsAnew
<1> QED
  BY <1>2, <1>3, <1>4 DEF PollInv, ReadsFrames

\* duart_read_packet recovers from whatever noise, for any messages, any values of their
\* CRCs, any longest payload and size of the ring, wherever its frames wrap: at a length
\* that it believes wrongly it consumes at most top + 5 bytes, and of frames in a row
\* without a sync byte inside, in payload or CRC, it loses no more than PollLoss, if
\* PollLoss frames of at least shortest bytes are as long as that.
THEOREM PollAlwaysRecovers ==
  ASSUME NEW shortest \in Nat, NEW top \in Nat, PollLossFits(shortest, top)
  PROVE  FramingSpec => []PollRecovers
<1>1. FramingInit => PollInv(shortest, top)
  BY PollStarts
<1>2. PollInv(shortest, top) /\ [FramingNext]_framingVars => PollInv(shortest, top)'
  BY PollInvKeeps
<1>3. PollInv(shortest, top) => PollRecovers
  BY ReadsRecover
<1> QED
  BY <1>1, <1>2, <1>3, PTL DEF FramingSpec
===============================================================================
