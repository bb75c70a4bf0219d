-------------------------------- MODULE RingBuf --------------------------------
(***************************************************************************)
(* The indices of lib/ringbuf.h.  One producer and one consumer share a     *)
(* ring without a lock: the producer only stores write_idx, the consumer    *)
(* only read_idx.  read_idx runs from 0 to 2*Capacity-1 and write_idx from  *)
(* 2*Capacity to 4*Capacity-1, so that a full ring and an empty one differ. *)
(* Capacity is a power of two and "& mask" is a remainder.                  *)
(***************************************************************************)
EXTENDS Integers

CONSTANT Capacity

ASSUME CapacityAssumption == Capacity \in Nat \ {0}

ReadIdxs == 0 .. (2 * Capacity - 1)
WriteIdxs == (2 * Capacity) .. (4 * Capacity - 1)

\* (write_idx - read_idx) & (2 * capacity - 1), the subtraction being positive.
Size(r, w) == IF w - r >= 2 * Capacity THEN w - r - 2 * Capacity ELSE w - r

FreeSpace(r, w) == IF Size(r, w) >= Capacity THEN 0 ELSE Capacity - Size(r, w)

\* The place in the array of the byte an index stands for.
Idx(i) == i % Capacity

\* How many of n bytes from index i on lie beyond the end of the array.
Beyond(i, n) == IF Idx(i) + n > Capacity THEN (Idx(i) + n) % Capacity ELSE 0

\* Fault variant: any room is room enough.
WritesUnlessFull(r, w, n) == IF Size(r, w) < Capacity THEN n ELSE 0

\* The number of bytes that a write of n stores: all of them or none.
Writes(r, w, n) == IF Size(r, w) < Capacity /\ n <= Capacity - Size(r, w) THEN n ELSE 0

AfterWrite(w, n) == IF w + n < 4 * Capacity THEN w + n ELSE 2 * Capacity + Beyond(w, n)

AfterRead(r, n) == IF r + n < 2 * Capacity THEN r + n ELSE Beyond(r, n)

\* The bytes that a peek offers: those up to the end of the array.
Contiguous(r, w) == Size(r, w) - Beyond(r, Size(r, w))
===============================================================================
