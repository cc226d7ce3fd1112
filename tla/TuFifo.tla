------------------------------- MODULE TuFifo -------------------------------
(***************************************************************************)
(* The ring buffer of the USB stack (usb/tinyusb/common/tusb_fifo.c).      *)
(* Both indices run through 0 .. 2 * depth - 1, so that a full buffer and  *)
(* an empty one differ, in 16-bit words whose wrap-around the code uses to *)
(* skip the rest of the index space.  An overwritable buffer lets the      *)
(* writer run past the reader; the next read moves the reader up.          *)
(*                                                                         *)
(* A buffer is a record of its depth, slots, indices and mode.  Mutexes    *)
(* and the copy loops are left out: the program has one thread, and an     *)
(* item is one byte.                                                       *)
(***************************************************************************)
EXTENDS Integers, Sequences

IdxMod == 65536      \* uint16_t

Lesser(a, b) == IF a < b THEN a ELSE b

(* tu_fifo_config *)
NewFifo(depth, ov) ==
  [depth |-> depth, buf |-> [i \in 0 .. depth - 1 |-> 0],
   wr |-> 0, rd |-> 0, overwritable |-> ov]

(* _ff_count: more than depth after an overflow *)
RawCount(f) == IF f.wr >= f.rd THEN f.wr - f.rd ELSE 2 * f.depth - (f.rd - f.wr)

FifoCount(f) == Lesser(RawCount(f), f.depth)

FifoRemaining(f) == IF f.depth > RawCount(f) THEN f.depth - RawCount(f) ELSE 0

(* advance_index *)
AdvanceIndex(depth, idx, offset) ==
  LET new == (idx + offset) % IdxMod
  IN IF idx > new \/ new >= 2 * depth
     THEN (new + (IdxMod - 1 - (2 * depth - 1))) % IdxMod
     ELSE new

(* idx2ptr *)
Slot(depth, idx) == idx % depth

(* _ff_correct_read_index: the buffer is full up to the write index        *)
CorrectedRead(f) == IF f.wr >= f.depth THEN f.wr - f.depth ELSE f.wr + f.depth

(* _ff_push_n and the new write index: items go in from index at onwards   *)
Pushed(f, at, items) ==
  LET place(i) == (i - Slot(f.depth, at)) % f.depth
  IN [f EXCEPT !.buf = [i \in DOMAIN @ |->
                          IF place(i) < Len(items) THEN items[place(i) + 1] ELSE @[i]],
               !.wr = AdvanceIndex(f.depth, at, Len(items))]

(* _tu_fifo_write_n: what an overwritable buffer keeps of the items, and   *)
(* where it puts them.                                                     *)
OverWritten(f, items) ==
  LET n == Len(items)
  IN IF n >= f.depth
     THEN Pushed(f, f.rd, SubSeq(items, n - f.depth + 1, n))
     ELSE IF RawCount(f) + n >= 2 * f.depth
     THEN Pushed(f, AdvanceIndex(f.depth, f.rd, f.depth - n), items)
     ELSE Pushed(f, f.wr, items)

Writable(f, n) == IF f.overwritable THEN Lesser(n, f.depth) ELSE Lesser(n, FifoRemaining(f))

FifoWritten(f, items) ==
  IF f.overwritable THEN OverWritten(f, items)
  ELSE Pushed(f, f.wr, SubSeq(items, 1, Writable(f, Len(items))))

(* _tu_fifo_read_n and _tu_fifo_peek_n *)
ReadFrom(f) == IF RawCount(f) > f.depth THEN CorrectedRead(f) ELSE f.rd

FifoFirst(f, n) ==
  [k \in 1 .. Lesser(n, FifoCount(f)) |-> f.buf[Slot(f.depth, ReadFrom(f) + k - 1)]]

(* Slots that no read can reach any more are blank, so that two buffers    *)
(* with the same contents are the same and a wrong index shows.            *)
Blanked(f) ==
  LET kept == {Slot(f.depth, ReadFrom(f) + k) : k \in 0 .. FifoCount(f) - 1}
  IN [f EXCEPT !.buf = [i \in DOMAIN @ |-> IF i \in kept THEN @[i] ELSE 0]]

FifoRead(f, n) == Blanked(
  [f EXCEPT !.rd = AdvanceIndex(f.depth, ReadFrom(f), Lesser(n, FifoCount(f)))])

(* tu_fifo_clear and tu_fifo_set_overwritable *)
Cleared(f) == Blanked([f EXCEPT !.rd = 0, !.wr = 0])

SetOverwritable(f, ov) == [f EXCEPT !.overwritable = ov]

(* What a reader would get, oldest first.                                  *)
Contents(f) == FifoFirst(f, f.depth)
=============================================================================
