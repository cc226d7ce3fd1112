---------------------------- MODULE CompletionRing ----------------------------
(***************************************************************************)
(* The completion queue as device.cpp keeps it: an array of                *)
(* kCompletionQueueDepth records with a read index, a write index and a    *)
(* count (device.h:149-152, device.cpp:133-151).  A popped record is not   *)
(* erased, so the array is full of stale records.                          *)
(***************************************************************************)
EXTENDS Integers, Sequences

CONSTANTS
  Records,     \* the completion records that are pushed
  NoRecord,    \* the value a record has after Reset
  Depth        \* kCompletionQueueDepth, 16 in the code

ASSUME DepthAssumption == Depth \in Nat \ {0}
ASSUME RecordAssumption == NoRecord \notin Records

VARIABLES
  slots,       \* completions_
  read,        \* completion_read_
  write,       \* completion_write_
  count,       \* completion_count_
  answer       \* what the last operation returned

vars == <<slots, read, write, count, answer>>

Indices == 0 .. (Depth - 1)

Returned(ok, r) == [ok |-> ok, record |-> r]

Init ==
  /\ slots = [k \in Indices |-> NoRecord]
  /\ read = 0 /\ write = 0 /\ count = 0
  /\ answer = Returned(FALSE, NoRecord)

-----------------------------------------------------------------------------
Push(r) ==
  \/ /\ count < Depth
     /\ slots' = [slots EXCEPT ![write] = r]
     /\ write' = (write + 1) % Depth
     /\ count' = count + 1
     /\ answer' = Returned(TRUE, NoRecord)
     /\ UNCHANGED read
  \/ /\ count >= Depth
     /\ answer' = Returned(FALSE, NoRecord)
     /\ UNCHANGED <<slots, read, write, count>>

(* A deviation for Pop: the read index does not wrap with the write index. *)
PopWithoutWrap ==
  \/ /\ count # 0
     /\ answer' = Returned(TRUE, slots[read])
     /\ read' = IF read + 1 < Depth THEN read + 1 ELSE read
     /\ count' = count - 1
     /\ UNCHANGED <<slots, write>>
  \/ /\ count = 0
     /\ answer' = Returned(FALSE, NoRecord)
     /\ UNCHANGED <<slots, read, write, count>>

Pop ==
  \/ /\ count # 0
     /\ answer' = Returned(TRUE, slots[read])
     /\ read' = (read + 1) % Depth
     /\ count' = count - 1
     /\ UNCHANGED <<slots, write>>
  \/ /\ count = 0
     /\ answer' = Returned(FALSE, NoRecord)
     /\ UNCHANGED <<slots, read, write, count>>

Reset ==
  /\ slots' = [k \in Indices |-> NoRecord]
  /\ read' = 0 /\ write' = 0 /\ count' = 0
  /\ answer' = Returned(FALSE, NoRecord)

Next == (\E r \in Records : Push(r)) \/ Pop \/ Reset

Spec == Init /\ [][Next]_vars

-----------------------------------------------------------------------------
(* The types of the ring's fields.                                         *)
TypeOK ==
  /\ slots \in [Indices -> Records \cup {NoRecord}]
  /\ read \in Indices
  /\ write \in Indices
  /\ count \in 0 .. Depth
  /\ answer \in [ok : BOOLEAN, record : Records \cup {NoRecord}]

(* The slot k places after another, around the ring.                       *)
SlotOf(from, k) == IF from + k < Depth THEN from + k ELSE from + k - Depth

(***************************************************************************)
(* The three indices never drift apart: the next free slot is where the    *)
(* run of queued records ends, and every queued slot holds a pushed record *)
(* rather than the blank of Reset (device.cpp:137-139, 147-149).           *)
(***************************************************************************)
IndicesAgree ==
  /\ write = SlotOf(read, count)
  /\ \A k \in 0 .. (count - 1) : slots[SlotOf(read, k)] \in Records

(***************************************************************************)
(* The ring is a bounded FIFO: no record is lost, duplicated, reordered or *)
(* overwritten by a push into a full queue (device.cpp:133-151).           *)
(***************************************************************************)
Fifo == INSTANCE BoundedFifo
          WITH queue <- [k \in 1 .. count |-> slots[SlotOf(read, k - 1)]]

RefinesBoundedFifo == Fifo!FifoSpec
=============================================================================
