---------------------------- MODULE MCUsbConsole ----------------------------
(***************************************************************************)
(* UsbConsole for TLC: packets of two bytes, so that answers of two and    *)
(* three bytes end in a full packet, a short one and an empty one.         *)
(* ControlRequests holds every kind of request; StreamRequests what it     *)
(* takes to open and close the port.                                       *)
(*                                                                         *)
(* The ring buffer is compared with what it stands for over buffers of up  *)
(* to four items: whatever was written and read before, the next write     *)
(* keeps the last (overwritable) or the first items that there is room     *)
(* for, and a read takes the oldest.  The code excepts a second overflow   *)
(* before a read ("incorrect data read back", tusb_fifo.c:517-525).        *)
(***************************************************************************)
EXTENDS UsbConsole

Get(len, want) == [kind |-> "get", v |-> 0, len |-> len, want |-> want]
Set(kind, v) == [kind |-> kind, v |-> v, len |-> 1, want |-> 1]

ControlRequests ==
  {Get(2, 3), Get(3, 3), Set("addr", 1), Set("cfg", 0), Set("cfg", 1),
   Set("line", 0), Set("line", 1), Set("coding", 0), Set("other", 0)}
StreamRequests == {Set("cfg", 1), Set("line", 0), Set("line", 1)}

Items(n) == [k \in 1 .. n |-> k]
Newest(s, n) == SubSeq(s, Len(s) - Lesser(n, Len(s)) + 1, Len(s))

(* The buffers that a write, a read and another write lead to.             *)
Buffers(depth, ov) ==
  {FifoWritten(FifoRead(FifoWritten(NewFifo(depth, ov), Items(a)), b), Items(c)) :
     a, b, c \in 0 .. depth + 1}

OverflowsTwice(f, n) == f.overwritable /\ n < f.depth /\ RawCount(f) + n >= 2 * f.depth

WritesKeep(f, n) == OverflowsTwice(f, n) \/
  Contents(FifoWritten(f, Items(n))) =
    IF f.overwritable THEN Newest(Contents(f) \o Items(n), f.depth)
    ELSE SubSeq(Contents(f) \o Items(n), 1, Lesser(f.depth, Len(Contents(f)) + n))

ReadsOldest(f, n) == FifoFirst(f, n) \o Contents(FifoRead(f, n)) = Contents(f)

ASSUME FifoAgrees ==
  \A depth \in 1 .. 4, ov \in BOOLEAN :
    \A f \in Buffers(depth, ov), n \in 0 .. depth + 1 :
      WritesKeep(f, n) /\ ReadsOldest(f, n)
=============================================================================
