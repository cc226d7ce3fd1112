---------------------------- MODULE QueueProofs ----------------------------
(***************************************************************************)
(* The two rings between the device and its client, which share nothing:   *)
(*   - the completion ring of the core is a bounded FIFO for every depth;  *)
(*   - both directions of the DSpico USB driver, with two buffers each,    *)
(*     deliver every byte of a transfer once and in order, for every block *)
(*     size and every length.  The invariant says, for each of the two     *)
(*     buffers of a direction, who owns it and which bytes it holds.       *)
(***************************************************************************)
EXTENDS CompletionRing, UsbEndpoints, SequenceTheorems, TLAPS

(***************************************************************************)
(* The completion ring.                                                    *)
(***************************************************************************)
(* The index arithmetic of the code is a wrap at Depth.                    *)
LEMMA NextIndex ==
  ASSUME NEW x \in Indices
  PROVE  (x + 1) % Depth = IF x + 1 < Depth THEN x + 1 ELSE 0
  BY DepthAssumption DEF Indices

IInv == TypeOK /\ IndicesAgree

Queue == [k \in 1 .. count |-> slots[SlotOf(read, k - 1)]]

(* A queued slot lies in the array, and the write slot is not one of them. *)
LEMMA SlotsDistinct ==
  ASSUME IInv, NEW k \in 0 .. (count - 1)
  PROVE  /\ SlotOf(read, k) \in Indices
         /\ count < Depth => SlotOf(read, k) # write
  BY DepthAssumption DEF IInv, TypeOK, IndicesAgree, SlotOf, Indices

LEMMA QueueType == ASSUME IInv PROVE Queue \in Seq(Records) /\ Len(Queue) = count
  <1>1. \A k \in 1 .. count : slots[SlotOf(read, k - 1)] \in Records
    BY DepthAssumption DEF IInv, TypeOK, IndicesAgree
  <1>2. count \in Nat
    BY DepthAssumption DEF IInv, TypeOK
  <1> QED
    BY <1>1, <1>2 DEF Queue

LEMMA InitIInv == Init => IInv
  <1> SUFFICES ASSUME Init PROVE IInv
    OBVIOUS
  <1>1. 0 \in Indices /\ 0 \in 0 .. Depth /\ 0 .. (0 - 1) = {}
    BY DepthAssumption DEF Indices
  <1>2. TypeOK
    BY <1>1, Zenon DEF Init, TypeOK, Returned
  <1>3. IndicesAgree
    BY <1>1, DepthAssumption DEF Init, IndicesAgree, SlotOf
  <1> QED
    BY <1>2, <1>3 DEF IInv

(***************************************************************************)
(* An accepted push appends to the queue, an effective pop takes its head, *)
(* and both keep the indices in step.                                      *)
(***************************************************************************)
LEMMA PushAccepted ==
  ASSUME IInv, NEW r \in Records, Push(r), count < Depth
  PROVE  /\ IInv'
         /\ Queue' = Append(Queue, r)
         /\ answer' = Returned(TRUE, NoRecord)
  <1>0. ~(count >= Depth)
    BY DepthAssumption DEF IInv, TypeOK
  <1>1. /\ slots' = [slots EXCEPT ![write] = r]
        /\ write' = (write + 1) % Depth
        /\ count' = count + 1
        /\ answer' = Returned(TRUE, NoRecord)
        /\ read' = read
    BY <1>0, Zenon DEF Push
  <1>2. /\ write' = IF write + 1 < Depth THEN write + 1 ELSE 0
        /\ write' \in Indices
    BY <1>1, NextIndex, DepthAssumption DEF IInv, TypeOK, Indices
  <1>3. TypeOK'
    <2>1. slots' \in [Indices -> Records \cup {NoRecord}]
      BY <1>1 DEF IInv, TypeOK
    <2>2. count' \in 0 .. Depth
      BY <1>1, DepthAssumption DEF IInv, TypeOK
    <2>3. answer' \in [ok : BOOLEAN, record : Records \cup {NoRecord}]
      BY <1>1, Zenon DEF Returned
    <2> QED
      BY <1>1, <1>2, <2>1, <2>2, <2>3, Zenon DEF IInv, TypeOK
  <1>4. \A k \in 0 .. (count - 1) :
          slots'[SlotOf(read, k)] = slots[SlotOf(read, k)]
    BY <1>1, SlotsDistinct DEF IInv, TypeOK
  <1>5. SlotOf(read, count) = write /\ slots'[write] = r
    BY <1>1, DepthAssumption DEF IInv, TypeOK, IndicesAgree
  <1>6. IndicesAgree'
    <2>1. write' = SlotOf(read', count')
      BY <1>1, <1>2, DepthAssumption
      DEF IInv, TypeOK, IndicesAgree, Indices, SlotOf
    <2>2. ASSUME NEW k \in 0 .. (count' - 1)
          PROVE  slots'[SlotOf(read', k)] \in Records
      <3>1. CASE k = count
        BY <1>1, <1>5, <3>1
      <3>2. CASE k # count
        <4>1. k \in 0 .. (count - 1)
          BY <1>1, <2>2, <3>2, DepthAssumption DEF IInv, TypeOK
        <4> QED
          BY <1>1, <1>4, <4>1 DEF IInv, IndicesAgree
      <3> QED
        BY <3>1, <3>2
    <2> QED
      BY <2>1, <2>2 DEF IndicesAgree
  <1>7. Queue' = Append(Queue, r)
    <2>1. Queue \in Seq(Records) /\ Len(Queue) = count /\ count \in Nat
      BY QueueType, DepthAssumption DEF IInv, TypeOK
    <2>2. Queue' = [k \in 1 .. (count + 1) |-> slots'[SlotOf(read, k - 1)]]
      BY <1>1 DEF Queue
    <2>3. ASSUME NEW k \in 1 .. count
          PROVE  slots'[SlotOf(read, k - 1)] = Queue[k]
      <3>1. k - 1 \in 0 .. (count - 1)
        BY <2>1
      <3> QED
        BY <1>4, <3>1 DEF Queue
    <2>4. slots'[SlotOf(read, (count + 1) - 1)] = r
      <3>1. (count + 1) - 1 = count
        BY <2>1
      <3> QED
        BY <1>5, <3>1
    <2> DEFINE s == Queue
               t == [k \in 1 .. (count + 1) |-> slots'[SlotOf(read, k - 1)]]
    <2>5. /\ \A k \in 1 .. count : t[k] = s[k]
          /\ t[count + 1] = r
      BY <2>1, <2>3, <2>4
    <2>6. \A k \in 1 .. (count + 1) : t[k] \in Records
      <3>1. \A k \in 1 .. count : s[k] \in Records
        BY <2>1
      <3>2. \A k \in 1 .. (count + 1) : k = count + 1 \/ k \in 1 .. count
        BY <2>1
      <3> HIDE DEF s, t
      <3> QED
        BY <2>5, <3>1, <3>2
    <2>7. t \in Seq(Records) /\ Len(t) = count + 1
      BY <2>1, <2>6
    <2> HIDE DEF s, t
    <2>8. s \in Seq(Records) /\ Len(s) = count
      BY <2>1 DEF s
    <2>9. t = Append(s, r)
      <3>1. /\ Append(s, r) \in Seq(Records)
            /\ Len(Append(s, r)) = count + 1
            /\ \A k \in 1 .. count : Append(s, r)[k] = s[k]
            /\ Append(s, r)[count + 1] = r
        BY <2>8, AppendProperties
      <3>2. \A k \in 1 .. (count + 1) : t[k] = Append(s, r)[k]
        BY <2>1, <2>5, <3>1
      <3> QED
        BY <2>7, <3>1, <3>2, SeqEqual
    <2> QED
      BY <2>2, <2>9 DEF s, t
  <1> QED
    BY <1>1, <1>3, <1>6, <1>7 DEF IInv

LEMMA PopEffective ==
  ASSUME IInv, Pop, count # 0
  PROVE  /\ IInv'
         /\ Queue # << >>
         /\ Queue' = Tail(Queue)
         /\ answer' = Returned(TRUE, Head(Queue))
  <1>1. /\ answer' = Returned(TRUE, slots[read])
        /\ read' = (read + 1) % Depth
        /\ count' = count - 1
        /\ slots' = slots /\ write' = write
    BY Zenon DEF Pop
  <1>2. /\ read' = IF read + 1 < Depth THEN read + 1 ELSE 0
        /\ read' \in Indices
    BY <1>1, NextIndex, DepthAssumption DEF IInv, TypeOK, Indices
  <1>3. slots[read] \in Records /\ SlotOf(read, 0) = read
    BY DepthAssumption DEF IInv, TypeOK, IndicesAgree, SlotOf, Indices
  <1>4. TypeOK'
    <2>1. count' \in 0 .. Depth
      BY <1>1, DepthAssumption DEF IInv, TypeOK
    <2>2. answer' \in [ok : BOOLEAN, record : Records \cup {NoRecord}]
      BY <1>1, <1>3, Zenon DEF Returned
    <2> QED
      BY <1>1, <1>2, <2>1, <2>2, Zenon DEF IInv, TypeOK
  <1>5. \A k \in 0 .. (count - 1) : SlotOf(read', k) = SlotOf(read, k + 1)
    BY <1>2, DepthAssumption DEF IInv, TypeOK, SlotOf, Indices
  <1>6. IndicesAgree'
    <2>1. write' = SlotOf(read', count')
      BY <1>1, <1>2, DepthAssumption
      DEF IInv, TypeOK, IndicesAgree, Indices, SlotOf
    <2>2. ASSUME NEW k \in 0 .. (count' - 1)
          PROVE  slots'[SlotOf(read', k)] \in Records
      <3>1. k \in 0 .. (count - 1) /\ k + 1 \in 0 .. (count - 1)
        BY <1>1, <2>2, DepthAssumption DEF IInv, TypeOK
      <3> QED
        BY <1>1, <1>5, <3>1 DEF IInv, IndicesAgree
    <2> QED
      BY <2>1, <2>2 DEF IndicesAgree
  <1>7. /\ Queue # << >> /\ Head(Queue) = slots[read]
        /\ Queue' = Tail(Queue)
    <2>1. Queue \in Seq(Records) /\ Len(Queue) = count /\ count \in Nat
      BY QueueType, DepthAssumption DEF IInv, TypeOK
    <2>2. \A k \in 1 .. count : Queue[k] = slots[SlotOf(read, k - 1)]
      BY DEF Queue
    <2>3. Queue' = [k \in 1 .. (count - 1) |-> slots[SlotOf(read', k - 1)]]
      BY <1>1 DEF Queue
    <2>4. ASSUME NEW k \in 1 .. (count - 1)
          PROVE  slots[SlotOf(read', k - 1)] = Queue[k + 1]
      <3>1. k - 1 \in 0 .. (count - 1) /\ k + 1 \in 1 .. count
            /\ (k - 1) + 1 = (k + 1) - 1
        BY <2>1
      <3> QED
        BY <1>5, <2>2, <3>1
    <2>5. Queue[1] = slots[read]
      <3>1. 1 \in 1 .. count /\ 1 - 1 = 0
        BY <2>1
      <3> QED
        BY <1>3, <2>2, <3>1
    <2> DEFINE s == Queue
               t == [k \in 1 .. (count - 1) |-> slots[SlotOf(read', k - 1)]]
    <2>6. \A k \in 1 .. (count - 1) : t[k] = s[k + 1] /\ t[k] \in Records
      BY <2>1, <2>4
    <2>7. t \in Seq(Records) /\ Len(t) = count - 1
      BY <2>1, <2>6
    <2> HIDE DEF s, t
    <2>8. s \in Seq(Records) /\ Len(s) = count /\ s[1] = slots[read]
      BY <2>1, <2>5 DEF s
    <2>9. s # << >> /\ Head(s) = slots[read]
      BY <2>1, <2>8
    <2>10. t = Tail(s)
      <3>1. /\ Tail(s) \in Seq(Records)
            /\ Len(Tail(s)) = count - 1
            /\ \A k \in 1 .. (count - 1) : Tail(s)[k] = s[k + 1]
        BY <2>8, <2>9, HeadTailProperties
      <3> QED
        BY <2>6, <2>7, <3>1, SeqEqual
    <2> QED
      BY <2>3, <2>9, <2>10 DEF s, t
  <1> QED
    BY <1>1, <1>4, <1>6, <1>7 DEF IInv

(* Everything else leaves the queue alone, except Reset, which empties it. *)
LEMMA RefusedKeepsAll ==
  ASSUME IInv, answer' = Returned(FALSE, NoRecord),
         UNCHANGED <<slots, read, write, count>>
  PROVE  IInv' /\ Queue' = Queue
  <1>1. TypeOK'
    BY Zenon DEF IInv, TypeOK, Returned
  <1> QED
    BY <1>1 DEF IInv, IndicesAgree, Queue

LEMMA ResetEmpties == ASSUME Reset PROVE IInv' /\ Queue' = << >>
  <1>1. 0 \in Indices /\ 0 \in 0 .. Depth /\ 0 .. (0 - 1) = {} /\ 1 .. 0 = {}
    BY DepthAssumption DEF Indices
  <1>2. TypeOK'
    BY <1>1, Zenon DEF Reset, TypeOK, Returned
  <1>3. IndicesAgree'
    BY <1>1, DepthAssumption DEF Reset, IndicesAgree, SlotOf
  <1>4. count' = 0
    BY Zenon DEF Reset
  <1>5. Queue' = << >>
    BY <1>4 DEF Queue
  <1> QED
    BY <1>2, <1>3, <1>5 DEF IInv

LEMMA NextIInv == IInv /\ [Next]_vars => IInv'
  <1> SUFFICES ASSUME IInv, [Next]_vars PROVE IInv'
    OBVIOUS
  <1>0. count \in Nat /\ count <= Depth
    BY DepthAssumption DEF IInv, TypeOK
  <1>1. ASSUME NEW r \in Records, Push(r) PROVE IInv'
    <2>1. CASE count < Depth
      BY <1>1, <2>1, PushAccepted
    <2>2. CASE ~(count < Depth)
      <3>1. /\ answer' = Returned(FALSE, NoRecord)
            /\ UNCHANGED <<slots, read, write, count>>
        BY <1>1, <2>2, Zenon DEF Push
      <3> QED
        BY <3>1, RefusedKeepsAll
    <2> QED
      BY <2>1, <2>2
  <1>2. CASE Pop
    <2>1. CASE count # 0
      BY <1>2, <2>1, PopEffective
    <2>2. CASE count = 0
      <3>1. /\ answer' = Returned(FALSE, NoRecord)
            /\ UNCHANGED <<slots, read, write, count>>
        BY <1>2, <2>2, Zenon DEF Pop
      <3> QED
        BY <3>1, RefusedKeepsAll
    <2> QED
      BY <2>1, <2>2
  <1>3. CASE Reset
    BY <1>3, ResetEmpties
  <1>4. CASE UNCHANGED vars
    BY <1>4 DEF vars, IInv, TypeOK, IndicesAgree
  <1> QED
    BY <1>1, <1>2, <1>3, <1>4 DEF Next

LEMMA Invariance == Spec => []IInv
  BY InitIInv, NextIInv, PTL DEF Spec

(***************************************************************************)
(* The write index is always where the run of queued records ends, and     *)
(* only pushed records are queued, for every depth.                        *)
(***************************************************************************)
THEOREM Agreement == Spec => []IndicesAgree
  <1>1. IInv => IndicesAgree
    BY DEF IInv
  <1> QED
    BY <1>1, Invariance, PTL

(***************************************************************************)
(* The ring of every depth is a bounded FIFO: nothing is lost, duplicated, *)
(* reordered or overwritten.                                               *)
(***************************************************************************)
THEOREM RingIsFifo == Spec => RefinesBoundedFifo
  <1>0. \A a, b : Fifo!Returned(a, b) = Returned(a, b)
    BY Zenon DEF Fifo!Returned, Returned
  <1>1. Init => Fifo!FifoInit
    <2> SUFFICES ASSUME Init PROVE Fifo!FifoInit
      OBVIOUS
    <2>1. count = 0 /\ answer = Returned(FALSE, NoRecord)
      BY Zenon DEF Init
    <2>2. Queue = << >>
      BY <2>1 DEF Queue
    <2> QED
      BY <1>0, <2>1, <2>2, Zenon DEF Fifo!FifoInit, Queue
  <1>2. IInv /\ [Next]_vars => [Fifo!FifoNext]_(Fifo!fifoVars)
    <2> SUFFICES ASSUME IInv, [Next]_vars
                 PROVE  Fifo!FifoNext \/ (Queue' = Queue /\ answer' = answer)
      BY DEF Fifo!fifoVars, Queue
    <2>0. count \in Nat /\ count <= Depth /\ Len(Queue) = count
      BY QueueType, DepthAssumption DEF IInv, TypeOK
    <2>1. ASSUME NEW r \in Records, Push(r) PROVE Fifo!FifoPush(r)
      <3>1. CASE count < Depth
        <4>1. Len(Queue) < Depth
          BY <2>0, <3>1
        <4> QED
          BY <1>0, <2>1, <3>1, <4>1, PushAccepted, Zenon DEF Fifo!FifoPush, Queue
      <3>2. CASE ~(count < Depth)
        <4>1. Len(Queue) = Depth
          BY <2>0, <3>2, DepthAssumption
        <4>2. /\ answer' = Returned(FALSE, NoRecord)
              /\ UNCHANGED <<slots, read, write, count>>
          BY <2>1, <3>2, Zenon DEF Push
        <4>3. Queue' = Queue
          BY <4>2, RefusedKeepsAll
        <4> QED
          BY <1>0, <4>1, <4>2, <4>3, Zenon DEF Fifo!FifoPush, Queue
      <3> QED
        BY <3>1, <3>2
    <2>2. CASE Pop
      <3>1. CASE count # 0
        BY <1>0, <2>2, <3>1, PopEffective, Zenon
        DEF Fifo!FifoNext, Fifo!FifoPop, Queue
      <3>2. CASE count = 0
        <4>1. Queue = << >>
          BY <3>2 DEF Queue
        <4>2. /\ answer' = Returned(FALSE, NoRecord)
              /\ UNCHANGED <<slots, read, write, count>>
          BY <2>2, <3>2, Zenon DEF Pop
        <4>3. Queue' = Queue
          BY <4>2, RefusedKeepsAll
        <4> QED
          BY <1>0, <4>1, <4>2, <4>3, Zenon DEF Fifo!FifoNext, Fifo!FifoPop, Queue
      <3> QED
        BY <3>1, <3>2
    <2>3. CASE Reset
      <3>1. answer' = Returned(FALSE, NoRecord)
        BY <2>3, Zenon DEF Reset
      <3> QED
        BY <1>0, <2>3, <3>1, ResetEmpties, Zenon
        DEF Fifo!FifoNext, Fifo!FifoClear, Queue
    <2>4. CASE UNCHANGED vars
      BY <2>4 DEF vars, Queue
    <2> QED
      BY <2>1, <2>2, <2>3, <2>4 DEF Next, Fifo!FifoNext
  <1> QED
    BY <1>1, <1>2, Invariance, PTL DEF Spec, RefinesBoundedFifo, Fifo!FifoSpec
-----------------------------------------------------------------------------
(***************************************************************************)
(* The USB driver.                                                         *)
(***************************************************************************)
Byte == Int \X Int
Buffers == [0 .. 1 -> [1 .. Blk -> Byte]]
Event == [dir : {"in", "out"}, n : Nat]
Move == [buf : {-1, 0, 1}, len : Int]

(* The first n bytes of a buffer are the bytes of transfer t after from.   *)
Holds(b, t, from, n) == \A k \in 1 .. n : b[k] = <<t, from + k>>

Waiting == {events[i] : i \in 1 .. Len(events)}
Queued(dir) == \E e \in Waiting : e.dir = dir

(* At most one event of each direction waits.                              *)
OneEach ==
  \A i, j \in 1 .. Len(events) : events[i].dir = events[j].dir => i = j

QueueTyped == events \in Seq(Event) /\ OneEach /\ pc \in {"idle", "fill", "receive"}

InTyped ==
  /\ tx \in [length : Nat, offset : Nat, remaining : Nat, buf : 0 .. 1, id : 1 .. 2]
  /\ tx.offset <= tx.length /\ tx.remaining <= tx.length
  /\ txBufs \in Buffers /\ txMove \in Move /\ txHost \in Seq(Byte) /\ txDone \in Int

(* The bytes of the transfer in the buffers when the driver has none left  *)
(* to fill, and while the block after the current one is still to fill.    *)
Ahead == Least(tx.length, tx.length - tx.remaining + 2 * Blk)
Current == Least(tx.length, tx.length - tx.remaining + Blk)

(* Between transfers nothing is on its way.                                *)
InRest ==
  txDone # Pending =>
    /\ txDone = tx.length /\ Len(txHost) = tx.length
    /\ pc # "fill" /\ txMove = NoMove /\ ~Queued("in")

(* While a block is sent, it is the one after what the host has.           *)
InSending ==
  txMove # NoMove =>
    /\ txDone = Pending /\ ~Queued("in") /\ txMove.buf \in 0 .. 1
    /\ tx.remaining = tx.length - Len(txHost)
    /\ txMove.len = Least(tx.remaining, Blk)
    /\ Holds(txBufs[txMove.buf], tx.id, Len(txHost), txMove.len)
    /\ tx.remaining > Blk => IF pc = "fill" THEN txMove.buf # tx.buf
                             ELSE txMove.buf = tx.buf

(* A block that was sent and not reported yet.                             *)
InSent ==
  \A e \in Waiting : e.dir = "in" =>
    /\ e.n = Least(tx.remaining, Blk)
    /\ Len(txHost) = tx.length - tx.remaining + e.n

(* The other buffer holds the block after it, unless it is still to fill.  *)
InAhead ==
  txDone = Pending =>
    /\ tx.offset = IF pc = "fill" THEN Current ELSE Ahead
    /\ pc # "fill" /\ tx.remaining > Blk =>
         Holds(txBufs[1 - tx.buf], tx.id, tx.length - tx.remaining + Blk,
               Least(tx.remaining - Blk, Blk))

InInv ==
  /\ QueueTyped /\ InTyped
  /\ txHost = Bytes(tx.id, Len(txHost))
  /\ InRest /\ InSending /\ InSent /\ InAhead
-----------------------------------------------------------------------------
OutTyped ==
  /\ rx \in [length : Nat, offset : Nat, received : Nat, buf : 0 .. 1, id : 1 .. 2]
  /\ rxHost \in [total : Nat, sent : Nat]
  /\ rx.offset <= rx.received /\ rx.received <= rxHost.total
  /\ rxHost.sent <= rxHost.total /\ rxHost.total <= rx.length
  /\ rxBufs \in Buffers /\ rxMove \in Move /\ rxData \in Seq(Byte) /\ rxDone \in Int
  /\ now \in [transferred : Int, len : Int]

OutRest ==
  rxDone # Pending =>
    /\ rxDone = rxHost.total /\ Len(rxData) = rxHost.total
    /\ pc # "receive" /\ rxMove = NoMove /\ ~Queued("out")

(* The buffer for the block after what was reported: the driver's own, or  *)
(* the other one while the driver still reads its own.                     *)
NextIn == IF pc = "receive" THEN 1 - rx.buf ELSE rx.buf

OutExpecting ==
  rxMove # NoMove =>
    /\ rxDone = Pending /\ ~Queued("out")
    /\ rxHost.sent = rx.received
    /\ rxMove.buf = NextIn /\ rxMove.len = Least(rx.length - rx.received, Blk)
    /\ pc = "receive" => now.transferred = Blk /\ now.len > 0

OutArrived ==
  \A e \in Waiting : e.dir = "out" =>
    /\ e.n = Least(Blk, rxHost.total - rx.received)
    /\ rxHost.sent = rx.received + e.n
    /\ Holds(rxBufs[NextIn], rx.id, rx.received, e.n)
    /\ pc = "receive" => now.transferred = Blk /\ now.len > 0

(* The driver's own buffer, between the report of a block and its copying. *)
OutReading ==
  /\ Len(rxData) = rx.offset
  /\ pc # "receive" => rx.received = rx.offset
  /\ pc = "receive" =>
       /\ rx.received = rx.offset + now.transferred
       /\ now.transferred = Least(Blk, rxHost.total - rx.offset)
       /\ now.len = Least(rx.length - rx.offset - Blk, Blk)
       /\ Holds(rxBufs[rx.buf], rx.id, rx.offset, now.transferred)

OutInv ==
  /\ QueueTyped /\ OutTyped
  /\ rxData = Bytes(rx.id, Len(rxData))
  /\ OutRest /\ OutExpecting /\ OutArrived /\ OutReading
-----------------------------------------------------------------------------
(* The event queue.                                                        *)

(* An event added behind a queue that has none of its direction.           *)
LEMMA Enqueue ==
  ASSUME QueueTyped, NEW e \in Event, ~Queued(e.dir), events' = Append(events, e),
         pc' = pc
  PROVE  QueueTyped' /\ Waiting' = Waiting \cup {e}
<1>1. /\ events' \in Seq(Event) /\ Len(events') = Len(events) + 1
      /\ Len(events) \in Nat /\ events'[Len(events) + 1] = e
      /\ \A i \in 1 .. Len(events) : events'[i] = events[i]
  BY AppendProperties DEF QueueTyped
<1>2. OneEach'
  BY <1>1 DEF OneEach, QueueTyped, Queued, Waiting
<1>3. Waiting' = Waiting \cup {e}
  BY <1>1 DEF Waiting
<1> QED
  BY <1>1, <1>2, <1>3 DEF QueueTyped

(* The first event taken off: none of its direction is left.               *)
LEMMA Dequeue ==
  ASSUME QueueTyped, events # << >>, events' = Tail(events),
         pc' \in {"idle", "fill", "receive"}
  PROVE  /\ QueueTyped' /\ Head(events) \in Waiting /\ Head(events) \in Event
         /\ Waiting' \subseteq Waiting
         /\ \A e \in Waiting' : e.dir # Head(events).dir
         /\ \A e \in Waiting : e.dir # Head(events).dir => e \in Waiting'
<1>1. /\ events' \in Seq(Event) /\ Len(events) \in Nat /\ Len(events) > 0
      /\ Len(events') = Len(events) - 1
      /\ Head(events) = events[1] /\ Head(events) \in Event
      /\ \A i \in 1 .. Len(events') : events'[i] = events[i + 1]
  BY HeadTailProperties, EmptySeq DEF QueueTyped
<1>2. OneEach'
  BY <1>1 DEF OneEach, QueueTyped
<1>3. Waiting' \subseteq Waiting /\ Head(events) \in Waiting
  BY <1>1 DEF Waiting
<1>4. \A e \in Waiting' : e.dir # Head(events).dir
  BY <1>1 DEF Waiting, OneEach, QueueTyped
<1>5. ASSUME NEW e \in Waiting, e.dir # Head(events).dir PROVE e \in Waiting'
  <2>1. PICK i \in 1 .. Len(events) : e = events[i]
    BY DEF Waiting
  <2>2. i - 1 \in 1 .. Len(events') /\ events'[i - 1] = e
    BY <1>1, <1>5, <2>1
  <2> QED BY <2>2 DEF Waiting
<1> QED
  BY <1>1, <1>2, <1>3, <1>4, <1>5 DEF QueueTyped
-----------------------------------------------------------------------------
(* Bytes.                                                                  *)

(* The first n bytes of a transfer are a sequence of n bytes.              *)
LEMMA BytesSeq ==
  ASSUME NEW t \in Int, NEW n \in Nat
  PROVE  Bytes(t, n) \in Seq(Byte) /\ Len(Bytes(t, n)) = n
<1>1. Bytes(t, n) \in [1 .. n -> Byte]
  BY DEF Bytes, Byte
<1> QED
  BY <1>1

(* No bytes yet.                                                           *)
LEMMA NoBytes == \A t : << >> = Bytes(t, 0) /\ Len(<< >>) = 0 /\ << >> \in Seq(Byte)
<1>1. << >> \in Seq(Byte) /\ Len(<< >>) = 0
  OBVIOUS
<1>2. ASSUME NEW t PROVE << >> = Bytes(t, 0)
  <2>1. Bytes(t, 0) \in [1 .. 0 -> Byte]
    BY DEF Bytes
  <2>2. Bytes(t, 0) \in Seq(Byte) /\ Len(Bytes(t, 0)) = 0
    BY <2>1
  <2> QED BY <2>2, EmptySeq
<1> QED BY <1>1, <1>2

(* Bytes that follow on are appended to the ones there are.                *)
LEMMA BytesGrow ==
  ASSUME NEW t \in Int, NEW h \in Nat, NEW b \in [1 .. Blk -> Byte],
         NEW n \in Nat, n <= Blk, Holds(b, t, h, n)
  PROVE  /\ Bytes(t, h) \o SubSeq(b, 1, n) = Bytes(t, h + n)
         /\ Bytes(t, h) \o SubSeq(b, 1, n) \in Seq(Byte)
<1> DEFINE s == Bytes(t, h)
           u == SubSeq(b, 1, n)
<1>1. s \in Seq(Byte) /\ Len(s) = h /\ \A k \in 1 .. h : s[k] = <<t, k>>
  BY BytesSeq DEF Bytes
<1>2. Blk \in Nat
  BY UsbAssumption
<1>3. b \in Seq(Byte) /\ Len(b) = Blk
  BY <1>2
<1>4. u \in Seq(Byte) /\ Len(u) = n /\ \A k \in 1 .. n : u[k] = <<t, h + k>>
  BY <1>2, <1>3 DEF Holds
<1> HIDE DEF s, u
<1>5. /\ s \o u \in Seq(Byte) /\ Len(s \o u) = h + n
      /\ \A k \in 1 .. h + n : (s \o u)[k] = IF k <= h THEN s[k] ELSE u[k - h]
  BY <1>1, <1>4, ConcatProperties
<1>6. \A k \in 1 .. h + n : (s \o u)[k] = <<t, k>>
  <2> TAKE k \in 1 .. h + n
  <2>1. CASE k <= h
    BY <1>1, <1>5, <2>1
  <2>2. CASE ~ (k <= h)
    <3>1. k - h \in 1 .. n /\ h + (k - h) = k
      BY <2>2
    <3> QED BY <1>4, <1>5, <2>2, <3>1
  <2> QED BY <2>1, <2>2
<1>7. Bytes(t, h + n) \in Seq(Byte) /\ Len(Bytes(t, h + n)) = h + n
  BY BytesSeq
<1>8. \A k \in 1 .. h + n : Bytes(t, h + n)[k] = <<t, k>>
  BY DEF Bytes
<1> QED
  BY <1>5, <1>6, <1>7, <1>8, SeqEqual DEF s, u

(* A buffer filled with n bytes holds them.                                *)
LEMMA FilledHolds ==
  ASSUME NEW t \in Int, NEW from \in Int, NEW n \in Int, n <= Blk
  PROVE  Filled(t, from, n) \in [1 .. Blk -> Byte] /\ Holds(Filled(t, from, n), t, from, n)
<1>1. Blk \in Nat
  BY UsbAssumption
<1>2. Filled(t, from, n) \in [1 .. Blk -> Byte]
  <2>1. ASSUME NEW k \in 1 .. Blk
        PROVE (IF k <= n THEN <<t, from + k>> ELSE <<0, 0>>) \in Byte
    BY <1>1 DEF Byte
  <2> QED BY <2>1 DEF Filled
<1>3. ASSUME NEW k \in 1 .. n PROVE Filled(t, from, n)[k] = <<t, from + k>>
  <2>1. k \in 1 .. Blk /\ k <= n
    BY <1>1
  <2> QED BY <2>1 DEF Filled
<1> QED
  BY <1>2, <1>3 DEF Holds
-----------------------------------------------------------------------------
(* The IN endpoint.                                                        *)

(* The types of the IN endpoint as the facts arithmetic needs.             *)
LEMMA InFacts ==
  ASSUME InTyped
  PROVE  /\ Blk \in Int /\ Blk > 0
         /\ tx.length \in Int /\ tx.offset \in Int /\ tx.remaining \in Int
         /\ 0 <= tx.offset /\ tx.offset <= tx.length
         /\ 0 <= tx.remaining /\ tx.remaining <= tx.length
         /\ tx.buf \in 0 .. 1 /\ 1 - tx.buf \in 0 .. 1 /\ tx.id \in 1 .. 2 /\ tx.id \in Int
         /\ Len(txHost) \in Nat
         /\ txBufs[0] \in [1 .. Blk -> Byte] /\ txBufs[1] \in [1 .. Blk -> Byte]
<1>1. Blk \in Int /\ Blk > 0
  BY UsbAssumption
<1>2. /\ tx.length \in Nat /\ tx.offset \in Nat /\ tx.remaining \in Nat
      /\ tx.offset <= tx.length /\ tx.remaining <= tx.length
      /\ tx.buf \in 0 .. 1 /\ tx.id \in 1 .. 2
  BY DEF InTyped
<1>3. Len(txHost) \in Nat
  BY DEF InTyped
<1>4. txBufs[0] \in [1 .. Blk -> Byte] /\ txBufs[1] \in [1 .. Blk -> Byte]
  BY DEF InTyped, Buffers
<1> QED
  BY <1>1, <1>2, <1>3, <1>4

(* A step of the other direction leaves the IN endpoint as it is.          *)
LEMMA InFrame ==
  ASSUME InInv, QueueTyped', UNCHANGED inVars, pc' = "fill" <=> pc = "fill",
         \A e \in Waiting' : e.dir = "in" => e \in Waiting
  PROVE  InInv'
<1>1. Queued("in")' => Queued("in")
  BY DEF Queued
<1>2. tx' = tx /\ txBufs' = txBufs /\ txMove' = txMove /\ txHost' = txHost /\ txDone' = txDone
  BY DEF inVars
<1>3. InTyped'
  BY <1>2 DEF InInv, InTyped
<1>4. InRest'
  BY <1>1, <1>2 DEF InInv, InRest
<1>5. InSending'
  BY <1>1, <1>2 DEF InInv, InSending
<1>6. InSent'
  BY <1>2 DEF InInv, InSent
<1>7. InAhead'
  BY <1>2 DEF InInv, InAhead, Ahead, Current
<1> QED
  BY <1>2, <1>3, <1>4, <1>5, <1>6, <1>7 DEF InInv

(* dcd_edpt_xfer starts with the first block in buffer 0.                  *)
LEMMA InXfer ==
  ASSUME InInv, NEW n \in Lengths, XferIn(n)
  PROVE  InInv'
<1> DEFINE id == 3 - tx.id
           len == Least(n, Blk)
<1>1. n \in Nat /\ Blk \in Nat /\ Blk > 0
  BY UsbAssumption
<1>2. len \in Nat /\ len <= Blk /\ len <= n /\ Least(n - 0, Blk) = len
      /\ (len = 0 <=> n = 0)
  BY <1>1 DEF Least
<1>3. id \in 1 .. 2 /\ id \in Int
  BY InFacts DEF InInv
<1>4. /\ pc = "idle" /\ txDone # Pending /\ txDone' = Pending /\ pc' = "fill"
      /\ txMove' = [buf |-> 0, len |-> len] /\ txHost' = << >> /\ events' = events
  BY DEF XferIn
<1>5. /\ tx' = [length |-> n, offset |-> len, remaining |-> n,
                buf |-> IF len > 0 THEN 1 ELSE 0, id |-> id]
      /\ txBufs' = IF len > 0 THEN [txBufs EXCEPT ![0] = Filled(id, 0, len)] ELSE txBufs
  BY <1>1, <1>2 DEF XferIn, SendBlock, NextBuf
<1> HIDE DEF id, len
<1>6. /\ tx'.length = n /\ tx'.offset = len /\ tx'.remaining = n /\ tx'.id = id
      /\ tx'.buf = IF len > 0 THEN 1 ELSE 0
  BY <1>5
<1>7. Filled(id, 0, len) \in [1 .. Blk -> Byte] /\ Holds(Filled(id, 0, len), id, 0, len)
  BY <1>2, <1>3, FilledHolds
<1>8. txBufs' \in Buffers /\ Holds(txBufs'[0], id, 0, len)
  <2>1. CASE len > 0
    BY <1>5, <1>7, <2>1 DEF InInv, InTyped, Buffers
  <2>2. CASE ~ (len > 0)
    BY <1>2, <1>5, <2>2 DEF InInv, InTyped, Holds
  <2> QED BY <2>1, <2>2
<1>9. Waiting' = Waiting /\ QueueTyped'
  BY <1>4 DEF Waiting, QueueTyped, OneEach, InInv
<1>10. \A e \in Waiting' : e.dir # "in"
  BY <1>4, <1>9 DEF InInv, InRest, Queued
<1>11. txHost' = Bytes(tx'.id, Len(txHost')) /\ Len(txHost') = 0 /\ txHost' \in Seq(Byte)
  BY <1>4, NoBytes
<1>12. InTyped'
  BY <1>1, <1>2, <1>3, <1>4, <1>5, <1>6, <1>8, <1>11 DEF InTyped, Move, Pending
<1>13. InRest'
  BY <1>4 DEF InRest, Pending
<1>14. InSending'
  <2>1. txMove'.buf = 0 /\ txMove'.len = len
    BY <1>4
  <2>2. Least(n, Blk) = len
    BY DEF len
  <2>3. ~Queued("in")'
    BY <1>10 DEF Queued
  <2>4. n > Blk => tx'.buf # 0
    BY <1>1, <1>2, <1>6
  <2> QED BY <1>1, <1>4, <1>6, <1>8, <1>11, <2>1, <2>2, <2>3, <2>4 DEF InSending
<1>15. InSent'
  BY <1>10 DEF InSent
<1>16. InAhead'
  <2>1. len = Least(n, n - n + Blk)
    BY <1>1 DEF len
  <2> QED BY <1>4, <1>6, <2>1 DEF InAhead, Current
<1> QED
  BY <1>9, <1>11, <1>12, <1>13, <1>14, <1>15, <1>16 DEF InInv

(* The block after the current one is filled in the other buffer.          *)
LEMMA InFill ==
  ASSUME InInv, FillIn
  PROVE  InInv'
<1> DEFINE len == Least(tx.length - tx.offset, Blk)
<1>1. /\ pc = "fill" /\ pc' = "idle" /\ events' = events
      /\ txMove' = txMove /\ txHost' = txHost /\ txDone' = txDone
  BY DEF FillIn
<1>2. /\ Blk \in Int /\ Blk > 0
      /\ tx.length \in Int /\ tx.offset \in Int /\ tx.remaining \in Int
      /\ 0 <= tx.offset /\ tx.offset <= tx.length
      /\ 0 <= tx.remaining /\ tx.remaining <= tx.length
      /\ tx.buf \in 0 .. 1 /\ 1 - tx.buf \in 0 .. 1 /\ tx.id \in Int
  BY InFacts DEF InInv
<1>3. txDone = Pending /\ tx.offset = Current
  BY <1>1 DEF InInv, InRest, InAhead
<1>4. /\ len \in Int /\ 0 <= len /\ len <= Blk /\ tx.offset + len <= tx.length
      /\ tx.offset + len = Ahead
      /\ (len > 0 <=> tx.remaining > Blk)
      /\ tx.remaining > Blk => /\ tx.offset = tx.length - tx.remaining + Blk
                               /\ len = Least(tx.remaining - Blk, Blk)
  BY <1>2, <1>3 DEF Ahead, Current, Least
<1>5. /\ tx'.length = tx.length /\ tx'.offset = tx.offset + len
      /\ tx'.remaining = tx.remaining /\ tx'.id = tx.id
      /\ tx'.buf = IF len > 0 THEN 1 - tx.buf ELSE tx.buf
      /\ txBufs' = IF len > 0 THEN [txBufs EXCEPT ![tx.buf] = Filled(tx.id, tx.offset, len)]
                   ELSE txBufs
      /\ tx' \in [length : Nat, offset : Nat, remaining : Nat, buf : 0 .. 1, id : 1 .. 2]
  <2>1. CASE len > 0
    BY <1>2, <1>4, <2>1 DEF FillIn, SendBlock, NextBuf, InInv, InTyped
  <2>2. CASE ~ (len > 0)
    BY <1>2, <1>4, <2>2 DEF FillIn, SendBlock, InInv, InTyped
  <2> QED BY <2>1, <2>2
<1> HIDE DEF len
<1>6. /\ Filled(tx.id, tx.offset, len) \in [1 .. Blk -> Byte]
      /\ Holds(Filled(tx.id, tx.offset, len), tx.id, tx.offset, len)
  BY <1>2, <1>4, FilledHolds
<1>7. /\ txBufs' \in Buffers /\ txBufs'[1 - tx.buf] = txBufs[1 - tx.buf]
      /\ len > 0 => txBufs'[tx.buf] = Filled(tx.id, tx.offset, len)
  <2>1. txBufs \in Buffers
    BY DEF InInv, InTyped
  <2>2. CASE len > 0
    <3>1. 1 - tx.buf # tx.buf
      BY <1>2
    <3>2. txBufs' = [txBufs EXCEPT ![tx.buf] = Filled(tx.id, tx.offset, len)]
      BY <1>5, <2>2
    <3> QED BY <1>2, <1>6, <2>1, <3>1, <3>2, Zenon DEF Buffers
  <2>3. CASE ~ (len > 0)
    BY <1>5, <2>1, <2>3
  <2> QED BY <2>2, <2>3
<1>8. Waiting' = Waiting /\ QueueTyped'
  BY <1>1 DEF Waiting, QueueTyped, OneEach, InInv
<1>9. InTyped'
  BY <1>1, <1>2, <1>4, <1>5, <1>7 DEF InInv, InTyped
<1>10. InRest'
  BY <1>1, <1>3 DEF InRest
<1>11. InSending'
  <2>1. SUFFICES ASSUME txMove # NoMove PROVE InSending'
    BY <1>1 DEF InSending
  <2>2. /\ ~Queued("in") /\ txMove.buf \in 0 .. 1
        /\ tx.remaining = tx.length - Len(txHost)
        /\ txMove.len = Least(tx.remaining, Blk)
        /\ Holds(txBufs[txMove.buf], tx.id, Len(txHost), txMove.len)
        /\ tx.remaining > Blk => txMove.buf # tx.buf
    BY <1>1, <2>1 DEF InInv, InSending
  <2>3. txBufs'[txMove.buf] = txBufs[txMove.buf] /\ (tx.remaining > Blk => tx'.buf = txMove.buf)
    BY <1>2, <1>4, <1>5, <1>7, <2>2
  <2>4. ~Queued("in")'
    BY <1>8, <2>2 DEF Queued
  <2> QED BY <1>1, <1>3, <1>5, <2>2, <2>3, <2>4 DEF InSending
<1>12. InSent'
  BY <1>1, <1>5, <1>8 DEF InInv, InSent
<1>13. InAhead'
  <2>1. tx'.offset = Ahead'
    BY <1>1, <1>4, <1>5 DEF Ahead
  <2>2. ASSUME tx.remaining > Blk
        PROVE Holds(txBufs'[1 - tx'.buf], tx.id, tx.length - tx.remaining + Blk,
                    Least(tx.remaining - Blk, Blk))
    <3>1. 1 - tx'.buf = tx.buf
      BY <1>2, <1>4, <1>5, <2>2
    <3> QED BY <1>4, <1>6, <1>7, <2>2, <3>1
  <2> QED BY <1>1, <1>5, <2>1, <2>2 DEF InAhead
<1> QED
  BY <1>1, <1>5, <1>8, <1>9, <1>10, <1>11, <1>12, <1>13 DEF InInv

(* The current block was sent: the one filled ahead is next, if any.       *)
LEMMA InComplete ==
  ASSUME InInv, CompleteIn
  PROVE  InInv'
<1> DEFINE n == Head(events).n
           left == tx.remaining - n
<1>1. /\ pc = "idle" /\ events # << >> /\ Head(events).dir = "in"
      /\ events' = Tail(events) /\ txBufs' = txBufs /\ txHost' = txHost
      /\ tx' = [length |-> tx.length, offset |-> tx.offset, remaining |-> left,
                buf |-> tx.buf, id |-> tx.id]
      /\ \/ left = 0 /\ txDone' = tx.length /\ pc' = pc /\ txMove' = txMove
         \/ /\ left # 0 /\ pc' = "fill" /\ txDone' = txDone
            /\ txMove' = [buf |-> 1 - tx.buf, len |-> Least(left, Blk)]
  BY DEF CompleteIn, Remaining
<1>2. /\ QueueTyped' /\ Head(events) \in Waiting /\ Head(events) \in Event
      /\ \A e \in Waiting' : e.dir # "in"
  BY <1>1, Dequeue DEF InInv, QueueTyped
<1>3. /\ Blk \in Int /\ Blk > 0
      /\ tx.length \in Int /\ tx.offset \in Int /\ tx.remaining \in Int
      /\ 0 <= tx.offset /\ tx.offset <= tx.length
      /\ 0 <= tx.remaining /\ tx.remaining <= tx.length
      /\ tx.buf \in 0 .. 1 /\ 1 - tx.buf \in 0 .. 1 /\ tx.id \in 1 .. 2
      /\ Len(txHost) \in Nat
  BY InFacts DEF InInv
<1>4. n = Least(tx.remaining, Blk) /\ Len(txHost) = tx.length - tx.remaining + n
  BY <1>1, <1>2 DEF InInv, InSent
<1>5. Queued("in") /\ txDone = Pending /\ txMove = NoMove
  <2>1. Queued("in")
    BY <1>1, <1>2 DEF Queued
  <2> QED BY <2>1 DEF InInv, InRest, InSending
<1> HIDE DEF n
<1>6. /\ left \in Int /\ 0 <= left /\ left <= tx.length /\ Len(txHost) = tx.length - left
      /\ (left # 0 <=> tx.remaining > Blk)
      /\ left # 0 => left = tx.remaining - Blk
  BY <1>3, <1>4 DEF Least
<1>7. tx.offset = Ahead
  BY <1>1, <1>5 DEF InInv, InAhead
<1> HIDE DEF left
<1>8. /\ tx'.length = tx.length /\ tx'.offset = tx.offset /\ tx'.remaining = left
      /\ tx'.buf = tx.buf /\ tx'.id = tx.id
  BY <1>1
<1>9. InTyped'
  <2>1. tx' \in [length : Nat, offset : Nat, remaining : Nat, buf : 0 .. 1, id : 1 .. 2]
    BY <1>1, <1>3, <1>6
  <2>2. txMove' \in Move /\ txDone' \in Int
    BY <1>1, <1>3, <1>5, <1>6 DEF Move, Least, NoMove, Pending
  <2> QED BY <1>1, <1>3, <1>6, <1>8, <2>1, <2>2 DEF InInv, InTyped
<1>10. ~Queued("in")'
  BY <1>2 DEF Queued
<1>11. CASE left = 0
  <2>1. txDone' = tx.length /\ pc' = "idle" /\ txMove' = NoMove
    BY <1>1, <1>5, <1>11
  <2>2. Len(txHost) = tx.length
    BY <1>3, <1>6, <1>11
  <2>3. InRest'
    BY <1>1, <1>8, <1>10, <2>1, <2>2 DEF InRest
  <2>4. InSending' /\ InSent'
    BY <1>2, <2>1 DEF InSending, InSent
  <2>5. InAhead'
    BY <1>3, <2>1 DEF InAhead, Pending
  <2> QED BY <1>1, <1>2, <1>8, <1>9, <2>3, <2>4, <2>5 DEF InInv
<1>12. CASE left # 0
  <2>1. /\ txDone' = Pending /\ pc' = "fill"
        /\ txMove'.buf = 1 - tx.buf /\ txMove'.len = Least(left, Blk)
    BY <1>1, <1>5, <1>12
  <2>2. InRest'
    BY <2>1 DEF InRest
  <2>3. Holds(txBufs[1 - tx.buf], tx.id, tx.length - tx.remaining + Blk,
              Least(tx.remaining - Blk, Blk))
    BY <1>1, <1>5, <1>6, <1>12 DEF InInv, InAhead
  <2>4. tx.length - tx.remaining + Blk = Len(txHost) /\ tx.remaining - Blk = left
    BY <1>3, <1>6, <1>12
  <2>5. Holds(txBufs[1 - tx.buf], tx.id, Len(txHost), Least(left, Blk))
    BY <2>3, <2>4
  <2>6. left = tx.length - Len(txHost)
    BY <1>3, <1>6
  <2>other. 1 - tx.buf # tx.buf
    BY <1>3
  <2>7. InSending'
    BY <1>1, <1>3, <1>8, <1>10, <2>1, <2>5, <2>6, <2>other DEF InSending
  <2>8. InSent'
    BY <1>2 DEF InSent
  <2>9. InAhead'
    <3>1. Ahead = Least(tx.length, tx.length - left + Blk)
      BY <1>3, <1>6, <1>12 DEF Ahead
    <3> QED BY <1>7, <1>8, <2>1, <3>1 DEF InAhead, Current
  <2> QED BY <1>1, <1>2, <1>8, <1>9, <2>2, <2>7, <2>8, <2>9 DEF InInv
<1> QED
  BY <1>11, <1>12

(* The controller sends the current block: the host has that much more.    *)
LEMMA InTransmit ==
  ASSUME InInv, Transmit
  PROVE  InInv' /\ QueueTyped' /\ \A e \in Waiting' : e.dir = "out" => e \in Waiting
<1> DEFINE b == txBufs[txMove.buf]
           e == [dir |-> "in", n |-> txMove.len]
<1>1. /\ txMove # NoMove /\ txHost' = txHost \o SubSeq(b, 1, txMove.len)
      /\ events' = Append(events, e) /\ txMove' = NoMove
      /\ pc' = pc /\ tx' = tx /\ txBufs' = txBufs /\ txDone' = txDone
  BY DEF Transmit
<1>2. /\ Blk \in Int /\ Blk > 0
      /\ tx.length \in Int /\ tx.remaining \in Int
      /\ 0 <= tx.remaining /\ tx.remaining <= tx.length
      /\ tx.id \in Int /\ Len(txHost) \in Nat
      /\ txBufs[0] \in [1 .. Blk -> Byte] /\ txBufs[1] \in [1 .. Blk -> Byte]
  BY InFacts DEF InInv
<1>3. /\ txDone = Pending /\ ~Queued("in") /\ txMove.buf \in 0 .. 1
      /\ tx.remaining = tx.length - Len(txHost)
      /\ txMove.len = Least(tx.remaining, Blk)
      /\ Holds(b, tx.id, Len(txHost), txMove.len)
  BY <1>1 DEF InInv, InSending
<1>4. txMove.len \in Nat /\ txMove.len <= Blk
  BY <1>2, <1>3 DEF Least
<1>5. b \in [1 .. Blk -> Byte]
  BY <1>2, <1>3
<1>6. e \in Event /\ e.dir = "in" /\ e.n = txMove.len
  BY <1>4 DEF Event
<1> HIDE DEF b, e
<1>7. QueueTyped' /\ Waiting' = Waiting \cup {e}
  BY <1>1, <1>3, <1>6, Enqueue DEF InInv
<1>8. /\ txHost' = Bytes(tx.id, Len(txHost) + txMove.len) /\ txHost' \in Seq(Byte)
  <2>1. txHost = Bytes(tx.id, Len(txHost))
    BY DEF InInv
  <2>2. /\ Bytes(tx.id, Len(txHost)) \o SubSeq(b, 1, txMove.len)
             = Bytes(tx.id, Len(txHost) + txMove.len)
        /\ Bytes(tx.id, Len(txHost)) \o SubSeq(b, 1, txMove.len) \in Seq(Byte)
    BY <1>2, <1>3, <1>4, <1>5, BytesGrow
  <2> QED BY <1>1, <2>1, <2>2, Zenon
<1>9. Len(txHost') = Len(txHost) + txMove.len
  <2>1. Len(txHost) + txMove.len \in Nat
    BY <1>2, <1>4
  <2>2. Len(Bytes(tx.id, Len(txHost) + txMove.len)) = Len(txHost) + txMove.len
    BY <1>2, <2>1, BytesSeq
  <2> QED BY <1>8, <2>2, Zenon
<1>10. txHost' = Bytes(tx'.id, Len(txHost'))
  BY <1>1, <1>8, <1>9
<1>11. InTyped'
  BY <1>1, <1>8 DEF InInv, InTyped, Move, NoMove
<1>12. InRest'
  BY <1>1, <1>3 DEF InRest
<1>13. InSending'
  BY <1>1 DEF InSending
<1>14. InSent'
  <2> SUFFICES ASSUME NEW f \in Waiting', f.dir = "in"
               PROVE f.n = Least(tx.remaining, Blk)
                     /\ Len(txHost') = tx.length - tx.remaining + f.n
    BY <1>1 DEF InSent
  <2>1. f = e
    BY <1>3, <1>7 DEF Queued
  <2> QED BY <1>2, <1>3, <1>4, <1>6, <1>9, <2>1
<1>15. InAhead'
  BY <1>1 DEF InInv, InAhead, Ahead, Current
<1> QED
  BY <1>6, <1>7, <1>10, <1>11, <1>12, <1>13, <1>14, <1>15 DEF InInv
-----------------------------------------------------------------------------
(* The OUT endpoint.                                                       *)

(* The types of the OUT endpoint as the facts arithmetic needs.            *)
LEMMA OutFacts ==
  ASSUME OutTyped
  PROVE  /\ Blk \in Int /\ Blk > 0
         /\ rx.length \in Int /\ rx.offset \in Int /\ rx.received \in Int
         /\ rxHost.total \in Int /\ rxHost.sent \in Int
         /\ 0 <= rx.offset /\ 0 <= rx.received
         /\ rx.offset <= rx.received /\ rx.received <= rxHost.total
         /\ 0 <= rxHost.sent /\ rxHost.sent <= rxHost.total /\ rxHost.total <= rx.length
         /\ rx.buf \in 0 .. 1 /\ 1 - rx.buf \in 0 .. 1 /\ rx.id \in 1 .. 2 /\ rx.id \in Int
         /\ rxBufs[0] \in [1 .. Blk -> Byte] /\ rxBufs[1] \in [1 .. Blk -> Byte]
<1>1. Blk \in Int /\ Blk > 0
  BY UsbAssumption
<1>2. /\ rx.length \in Nat /\ rx.offset \in Nat /\ rx.received \in Nat
      /\ rx.buf \in 0 .. 1 /\ rx.id \in 1 .. 2
      /\ rxHost.total \in Nat /\ rxHost.sent \in Nat
      /\ rx.offset <= rx.received /\ rx.received <= rxHost.total
      /\ rxHost.sent <= rxHost.total /\ rxHost.total <= rx.length
  BY DEF OutTyped
<1>3. rxBufs[0] \in [1 .. Blk -> Byte] /\ rxBufs[1] \in [1 .. Blk -> Byte]
  BY DEF OutTyped, Buffers
<1> QED
  BY <1>1, <1>2, <1>3

(* A step of the other direction leaves the OUT endpoint as it is.         *)
LEMMA OutFrame ==
  ASSUME OutInv, QueueTyped', UNCHANGED outVars, pc' = "receive" <=> pc = "receive",
         \A e \in Waiting' : e.dir = "out" => e \in Waiting
  PROVE  OutInv'
<1>1. Queued("out")' => Queued("out")
  BY DEF Queued
<1>2. /\ rx' = rx /\ rxBufs' = rxBufs /\ rxMove' = rxMove /\ rxHost' = rxHost
      /\ rxData' = rxData /\ rxDone' = rxDone /\ now' = now
  BY DEF outVars
<1>3. OutTyped'
  BY <1>2 DEF OutInv, OutTyped
<1>4. OutRest'
  BY <1>1, <1>2 DEF OutInv, OutRest
<1>5. OutExpecting'
  BY <1>1, <1>2 DEF OutInv, OutExpecting, NextIn
<1>6. OutArrived'
  BY <1>2 DEF OutInv, OutArrived, NextIn
<1>7. OutReading'
  BY <1>2 DEF OutInv, OutReading
<1> QED
  BY <1>2, <1>3, <1>4, <1>5, <1>6, <1>7 DEF OutInv

(* dcd_edpt_xfer asks for the first block in buffer 0.                     *)
LEMMA OutXfer ==
  ASSUME OutInv, NEW n \in Lengths, NEW m \in 0 .. n, XferOut(n, m)
  PROVE  OutInv'
<1>1. n \in Nat /\ Blk \in Int /\ Blk > 0 /\ m \in Nat /\ m <= n
  BY UsbAssumption
<1>2. /\ pc = "idle" /\ rxDone # Pending /\ rxDone' = Pending /\ pc' = pc
      /\ events' = events /\ rxBufs' = rxBufs /\ now' = now /\ rxData' = << >>
      /\ rx' = [length |-> n, offset |-> 0, received |-> 0, buf |-> 0, id |-> 3 - rx.id]
      /\ rxMove' = [buf |-> 0, len |-> Least(n, Blk)]
      /\ rxHost' = [total |-> m, sent |-> 0]
  BY DEF XferOut
<1>3. /\ rx'.length = n /\ rx'.offset = 0 /\ rx'.received = 0 /\ rx'.buf = 0
      /\ rxHost'.total = m /\ rxHost'.sent = 0
      /\ rxMove'.buf = 0 /\ rxMove'.len = Least(n, Blk)
  BY <1>2
<1>4. 3 - rx.id \in 1 .. 2
  BY OutFacts DEF OutInv
<1>5. rxData' \in Seq(Byte) /\ Len(rxData') = 0 /\ rxData' = Bytes(rx'.id, Len(rxData'))
  BY <1>2, NoBytes
<1>6. Waiting' = Waiting /\ QueueTyped'
  BY <1>2 DEF Waiting, QueueTyped, OneEach, OutInv
<1>7. \A e \in Waiting' : e.dir # "out"
  BY <1>2, <1>6 DEF OutInv, OutRest, Queued
<1>8. OutTyped'
  <2>1. rx' \in [length : Nat, offset : Nat, received : Nat, buf : 0 .. 1, id : 1 .. 2]
    BY <1>1, <1>2, <1>4
  <2>2. rxMove' \in Move /\ rxDone' \in Int
    BY <1>1, <1>2 DEF Move, Least, Pending
  <2>3. rxHost' \in [total : Nat, sent : Nat]
    BY <1>1, <1>2
  <2> QED BY <1>1, <1>2, <1>3, <1>5, <2>1, <2>2, <2>3 DEF OutInv, OutTyped
<1>9. OutRest'
  BY <1>2 DEF OutRest
<1>10. OutExpecting'
  <2>1. ~Queued("out")'
    BY <1>7 DEF Queued
  <2>2. n - 0 = n
    BY <1>1
  <2> QED BY <1>2, <1>3, <2>1, <2>2 DEF OutExpecting, NextIn
<1>11. OutArrived'
  BY <1>7 DEF OutArrived
<1>12. OutReading'
  BY <1>2, <1>3, <1>5 DEF OutReading
<1> QED
  BY <1>5, <1>6, <1>8, <1>9, <1>10, <1>11, <1>12 DEF OutInv

(* The host fills the buffer it was offered, which the driver does not     *)
(* read.                                                                   *)
LEMMA OutReceive ==
  ASSUME OutInv, Receive
  PROVE  OutInv' /\ QueueTyped' /\ \A e \in Waiting' : e.dir = "in" => e \in Waiting
<1> DEFINE n == Least(rxMove.len, rxHost.total - rxHost.sent)
           f == Filled(rx.id, rxHost.sent, n)
           e == [dir |-> "out", n |-> n]
<1>1. /\ rxMove # NoMove /\ rxMove' = NoMove /\ pc' = pc
      /\ rxBufs' = [rxBufs EXCEPT ![rxMove.buf] = f]
      /\ rxHost' = [total |-> rxHost.total, sent |-> rxHost.sent + n]
      /\ events' = Append(events, e)
      /\ rx' = rx /\ rxData' = rxData /\ rxDone' = rxDone /\ now' = now
  BY DEF Receive
<1>2. /\ Blk \in Int /\ Blk > 0
      /\ rx.length \in Int /\ rx.offset \in Int /\ rx.received \in Int
      /\ rxHost.total \in Int /\ rxHost.sent \in Int
      /\ 0 <= rx.received /\ rx.received <= rxHost.total
      /\ 0 <= rxHost.sent /\ rxHost.sent <= rxHost.total /\ rxHost.total <= rx.length
      /\ rx.buf \in 0 .. 1 /\ 1 - rx.buf \in 0 .. 1 /\ rx.id \in Int
  BY OutFacts DEF OutInv
<1>3. /\ rxDone = Pending /\ ~Queued("out") /\ rxHost.sent = rx.received
      /\ rxMove.buf = NextIn /\ rxMove.len = Least(rx.length - rx.received, Blk)
      /\ pc = "receive" => now.transferred = Blk /\ now.len > 0
  BY <1>1 DEF OutInv, OutExpecting
<1>4. /\ n \in Nat /\ n <= Blk /\ n = Least(Blk, rxHost.total - rx.received)
      /\ rxHost.sent + n <= rxHost.total
  BY <1>2, <1>3 DEF Least
<1>5. e \in Event /\ e.dir = "out" /\ e.n = n
  BY <1>4 DEF Event
<1> HIDE DEF n, f, e
<1>6. f \in [1 .. Blk -> Byte] /\ Holds(f, rx.id, rx.received, n)
  <2>1. f = Filled(rx.id, rx.received, n)
    BY <1>3 DEF f
  <2>2. n \in Int /\ n <= Blk
    BY <1>4
  <2>3. /\ Filled(rx.id, rx.received, n) \in [1 .. Blk -> Byte]
        /\ Holds(Filled(rx.id, rx.received, n), rx.id, rx.received, n)
    BY <1>2, <2>2, FilledHolds
  <2> QED BY <2>1, <2>3, Zenon
<1>7. QueueTyped' /\ Waiting' = Waiting \cup {e}
  BY <1>1, <1>3, <1>5, Enqueue DEF OutInv
<1>8. NextIn \in 0 .. 1 /\ NextIn' = NextIn /\ (pc = "receive" => NextIn # rx.buf)
  <2>1. 1 - rx.buf # rx.buf
    BY <1>2
  <2> QED BY <1>1, <1>2, <2>1 DEF NextIn
<1>9. /\ rxBufs' \in Buffers /\ rxBufs'[NextIn] = f
      /\ pc = "receive" => rxBufs'[rx.buf] = rxBufs[rx.buf]
  <2>1. rxBufs \in Buffers
    BY DEF OutInv, OutTyped
  <2>2. rxBufs' = [rxBufs EXCEPT ![NextIn] = f]
    BY <1>1, <1>3
  <2> QED BY <1>2, <1>6, <1>8, <2>1, <2>2, Zenon DEF Buffers
<1>10. rxHost'.total = rxHost.total /\ rxHost'.sent = rxHost.sent + n
  BY <1>1
<1>11. OutTyped'
  <2>1. rxHost' \in [total : Nat, sent : Nat]
    BY <1>1, <1>2, <1>4
  <2> QED BY <1>1, <1>4, <1>9, <1>10, <2>1 DEF OutInv, OutTyped, Move, NoMove
<1>12. OutRest'
  BY <1>1, <1>3 DEF OutRest
<1>13. OutExpecting'
  BY <1>1 DEF OutExpecting
<1>14. OutArrived'
  <2> SUFFICES ASSUME NEW g \in Waiting', g.dir = "out"
               PROVE /\ g.n = Least(Blk, rxHost.total - rx.received)
                     /\ rxHost'.sent = rx.received + g.n
                     /\ Holds(rxBufs'[NextIn], rx.id, rx.received, g.n)
                     /\ pc = "receive" => now.transferred = Blk /\ now.len > 0
    BY <1>1, <1>8, <1>10 DEF OutArrived
  <2>1. g = e
    BY <1>3, <1>7 DEF Queued
  <2> QED BY <1>3, <1>4, <1>5, <1>6, <1>9, <1>10, <2>1
<1>15. OutReading'
  BY <1>1, <1>9, <1>10 DEF OutInv, OutReading
<1> QED
  BY <1>1, <1>5, <1>7, <1>11, <1>12, <1>13, <1>14, <1>15 DEF OutInv

(* A block arrived: it is the driver's to read, and the next one, if there *)
(* is room for more, goes to the other buffer.                             *)
LEMMA OutComplete ==
  ASSUME OutInv, CompleteOut
  PROVE  OutInv' /\ QueueTyped' /\ \A e \in Waiting' : e.dir = "in" => e \in Waiting
<1> DEFINE n == Head(events).n
           len == Least(rx.length - rx.offset - Blk, Blk)
<1>1. /\ pc = "idle" /\ pc' = "receive" /\ events # << >>
      /\ Head(events).dir = "out" /\ events' = Tail(events)
      /\ rx' = [length |-> rx.length, offset |-> rx.offset,
                received |-> rx.received + n, buf |-> rx.buf, id |-> rx.id]
      /\ rxMove' = IF n = Blk /\ len > 0 THEN [buf |-> 1 - rx.buf, len |-> len] ELSE rxMove
      /\ now' = [transferred |-> n, len |-> len]
      /\ rxBufs' = rxBufs /\ rxHost' = rxHost /\ rxData' = rxData /\ rxDone' = rxDone
  BY DEF CompleteOut, BeginsNext, OtherBuf
<1>2. /\ QueueTyped' /\ Head(events) \in Waiting /\ Head(events) \in Event
      /\ Waiting' \subseteq Waiting /\ \A e \in Waiting' : e.dir # "out"
  BY <1>1, Dequeue DEF OutInv
<1>3. /\ Blk \in Int /\ Blk > 0
      /\ rx.length \in Int /\ rx.offset \in Int /\ rx.received \in Int
      /\ rxHost.total \in Int /\ rxHost.sent \in Int
      /\ 0 <= rx.offset /\ 0 <= rx.received /\ rx.received <= rxHost.total
      /\ 0 <= rxHost.sent /\ rxHost.sent <= rxHost.total /\ rxHost.total <= rx.length
      /\ rx.buf \in 0 .. 1 /\ 1 - rx.buf \in 0 .. 1 /\ rx.id \in 1 .. 2
  BY OutFacts DEF OutInv
<1>4. /\ n = Least(Blk, rxHost.total - rx.received) /\ rxHost.sent = rx.received + n
      /\ Holds(rxBufs[rx.buf], rx.id, rx.received, n)
  BY <1>1, <1>2 DEF OutInv, OutArrived, NextIn
<1>5. rxDone = Pending /\ rxMove = NoMove
  <2>1. Queued("out")
    BY <1>1, <1>2 DEF Queued
  <2> QED BY <2>1 DEF OutInv, OutRest, OutExpecting
<1>6. rx.received = rx.offset
  BY <1>1 DEF OutInv, OutReading
<1>7. /\ n \in Int /\ 0 <= n /\ n <= Blk /\ rx.received + n <= rxHost.total
      /\ len \in Int /\ (n = Blk => len = Least(rx.length - (rx.received + n), Blk))
  BY <1>3, <1>4, <1>6 DEF Least
<1> HIDE DEF n, len
<1>8. /\ rx'.length = rx.length /\ rx'.offset = rx.offset /\ rx'.received = rx.received + n
      /\ rx'.buf = rx.buf /\ rx'.id = rx.id
      /\ now'.transferred = n /\ now'.len = len
  BY <1>1
<1>9. OutTyped'
  <2>1. rx' \in [length : Nat, offset : Nat, received : Nat, buf : 0 .. 1, id : 1 .. 2]
    BY <1>1, <1>3, <1>7
  <2>2. rxMove' \in Move
    BY <1>1, <1>3, <1>5, <1>7 DEF Move, NoMove
  <2>3. now' \in [transferred : Int, len : Int]
    BY <1>1, <1>7
  <2>4. rx.offset <= rx.received + n
    BY <1>3, <1>6, <1>7
  <2> QED BY <1>1, <1>7, <1>8, <2>1, <2>2, <2>3, <2>4 DEF OutInv, OutTyped
<1>10. OutRest'
  BY <1>1, <1>5 DEF OutRest
<1>11. OutExpecting'
  <2>1. SUFFICES ASSUME rxMove' # NoMove PROVE OutExpecting'
    BY DEF OutExpecting
  <2>2. n = Blk /\ len > 0 /\ rxMove' = [buf |-> 1 - rx.buf, len |-> len]
    BY <1>1, <1>5, <2>1
  <2>3. ~Queued("out")'
    BY <1>2 DEF Queued
  <2>4. rxMove'.buf = 1 - rx.buf /\ rxMove'.len = Least(rx.length - (rx.received + n), Blk)
    BY <1>7, <2>2
  <2> QED BY <1>1, <1>4, <1>5, <1>8, <2>2, <2>3, <2>4 DEF OutExpecting, NextIn
<1>12. OutArrived'
  BY <1>2 DEF OutArrived
<1>13. OutReading'
  <2>1. len = Least(rx.length - rx.offset - Blk, Blk)
    BY DEF len
  <2> QED BY <1>1, <1>4, <1>6, <1>8, <2>1 DEF OutInv, OutReading
<1> QED
  BY <1>1, <1>2, <1>8, <1>9, <1>10, <1>11, <1>12, <1>13 DEF OutInv

(* The driver reads its buffer, switches to the other one, and reports the *)
(* transfer when no more can come.                                         *)
LEMMA OutRead ==
  ASSUME OutInv, ReceiveOut
  PROVE  OutInv'
<1> DEFINE len == now.transferred
           b == rxBufs[rx.buf]
<1>1. /\ Blk \in Int /\ Blk > 0
      /\ rx.length \in Int /\ rx.offset \in Int /\ rx.received \in Int
      /\ rxHost.total \in Int /\ 0 <= rx.offset /\ rx.offset <= rx.received
      /\ 0 <= rx.received /\ rx.received <= rxHost.total /\ rxHost.total <= rx.length
      /\ rx.buf \in 0 .. 1 /\ 1 - rx.buf \in 0 .. 1 /\ rx.id \in 1 .. 2 /\ rx.id \in Int
      /\ rxBufs[0] \in [1 .. Blk -> Byte] /\ rxBufs[1] \in [1 .. Blk -> Byte]
  BY OutFacts DEF OutInv
<1>2. pc = "receive" /\ pc' = "idle" /\ events' = events /\ rxDone = Pending
  BY DEF ReceiveOut, OutInv, OutRest
<1>3. /\ Len(rxData) = rx.offset /\ rx.received = rx.offset + len
      /\ len = Least(Blk, rxHost.total - rx.offset)
      /\ now.len = Least(rx.length - rx.offset - Blk, Blk)
      /\ Holds(b, rx.id, rx.offset, len)
  BY <1>2 DEF OutInv, OutReading
<1>4. /\ len \in Int /\ 0 <= len /\ len <= Blk /\ Least(rx.received - rx.offset, Blk) = len
      /\ (len < Blk => rx.received = rxHost.total)
      /\ (len = Blk /\ now.len = 0 => rx.received = rxHost.total)
      /\ now.len \in Int
  BY <1>1, <1>3 DEF Least
<1>5. /\ rx' = [length |-> rx.length, offset |-> rx.offset + len,
                received |-> rx.received,
                buf |-> IF len = 0 THEN rx.buf ELSE 1 - rx.buf, id |-> rx.id]
      /\ rxData' = rxData \o SubSeq(b, 1, len)
      /\ rxDone' = IF len < Blk \/ now.len = 0 THEN rx.offset + len ELSE rxDone
      /\ rxBufs' = rxBufs /\ rxMove' = rxMove /\ rxHost' = rxHost /\ now' = now
  BY <1>4 DEF ReceiveOut, LastBlock
<1> HIDE DEF len
<1>6. /\ rx'.length = rx.length /\ rx'.offset = rx.received /\ rx'.received = rx.received
      /\ rx'.buf = IF len = 0 THEN rx.buf ELSE 1 - rx.buf
      /\ rx'.id = rx.id
  BY <1>3, <1>5
<1>7. /\ rxData' = Bytes(rx.id, rx.received) /\ rxData' \in Seq(Byte)
      /\ Len(rxData') = rx.received
  <2>1. rxData = Bytes(rx.id, rx.offset) /\ rx.offset \in Nat /\ len \in Nat
        /\ b \in [1 .. Blk -> Byte]
    BY <1>1, <1>3, <1>4 DEF OutInv
  <2>2. /\ Bytes(rx.id, rx.offset) \o SubSeq(b, 1, len) = Bytes(rx.id, rx.offset + len)
        /\ Bytes(rx.id, rx.offset) \o SubSeq(b, 1, len) \in Seq(Byte)
    <3> HIDE DEF b
    <3> QED BY <1>1, <1>3, <1>4, <2>1, BytesGrow
  <2>3. rx.received \in Nat
    BY <1>1
  <2>4. Len(Bytes(rx.id, rx.received)) = rx.received
    BY <1>1, <2>3, BytesSeq
  <2> QED BY <1>3, <1>5, <2>1, <2>2, <2>4, Zenon
<1>8. Waiting' = Waiting /\ QueueTyped' /\ (Queued("out")' <=> Queued("out"))
  BY <1>2 DEF Waiting, QueueTyped, OneEach, OutInv, Queued
<1>9. OutTyped'
  <2>1. rx' \in [length : Nat, offset : Nat, received : Nat, buf : 0 .. 1, id : 1 .. 2]
    BY <1>1, <1>4, <1>5
  <2>2. rxDone' \in Int
    BY <1>1, <1>4, <1>5, <1>2 DEF Pending
  <2> QED BY <1>1, <1>5, <1>6, <1>7, <2>1, <2>2 DEF OutInv, OutTyped
(* What is offered or has arrived is for a driver that just read a whole   *)
(* block.                                                                  *)
<1>10. rxMove # NoMove \/ Queued("out") => len = Blk /\ now.len > 0
  BY <1>2 DEF len, OutInv, OutExpecting, OutArrived, Queued
<1>11. OutRest'
  <2> SUFFICES ASSUME rxDone' # Pending
               PROVE /\ rxDone' = rxHost.total /\ rx.received = rxHost.total
                     /\ rxMove = NoMove /\ ~Queued("out")
    BY <1>2, <1>5, <1>7, <1>8 DEF OutRest
  <2>1. len < Blk \/ now.len = 0
    BY <1>2, <1>5
  <2>2. rxDone' = rx.received
    BY <1>3, <1>5, <2>1
  <2>3. rx.received = rxHost.total /\ ~(len = Blk /\ now.len > 0)
    BY <1>1, <1>4, <2>1
  <2> QED BY <1>10, <2>2, <2>3
<1>12. OutExpecting'
  <2>1. SUFFICES ASSUME rxMove # NoMove PROVE OutExpecting'
    BY <1>5 DEF OutExpecting
  <2>2. /\ ~Queued("out") /\ rxHost.sent = rx.received
        /\ rxMove.buf = 1 - rx.buf /\ rxMove.len = Least(rx.length - rx.received, Blk)
    BY <1>2, <2>1 DEF OutInv, OutExpecting, NextIn
  <2>3. rx'.buf = 1 - rx.buf
    BY <1>1, <1>6, <1>10, <2>1
  <2>4. rxDone' = Pending
    BY <1>1, <1>2, <1>4, <1>5, <1>10, <2>1
  <2> QED BY <1>2, <1>5, <1>6, <1>8, <2>2, <2>3, <2>4 DEF OutExpecting, NextIn
<1>13. OutArrived'
  <2> SUFFICES ASSUME NEW e \in Waiting, e.dir = "out"
               PROVE /\ e.n = Least(Blk, rxHost.total - rx.received)
                     /\ rxHost.sent = rx.received + e.n
                     /\ Holds(rxBufs[rx'.buf], rx.id, rx.received, e.n)
    BY <1>2, <1>5, <1>6, <1>8 DEF OutArrived, NextIn
  <2>1. /\ e.n = Least(Blk, rxHost.total - rx.received)
        /\ rxHost.sent = rx.received + e.n
        /\ Holds(rxBufs[1 - rx.buf], rx.id, rx.received, e.n)
    BY <1>2 DEF OutInv, OutArrived, NextIn
  <2>2. rx'.buf = 1 - rx.buf
    <3>1. Queued("out")
      BY DEF Queued
    <3> QED BY <1>1, <1>6, <1>10, <3>1
  <2> QED BY <2>1, <2>2
<1>14. OutReading'
  BY <1>2, <1>6, <1>7 DEF OutReading
<1> QED
  BY <1>6, <1>7, <1>8, <1>9, <1>11, <1>12, <1>13, <1>14 DEF OutInv
-----------------------------------------------------------------------------
(* Every step of the driver, the controller and the stack.                 *)
LEMMA UsbInvInit == UsbInit => InInv /\ OutInv
<1> SUFFICES ASSUME UsbInit PROVE InInv /\ OutInv
  OBVIOUS
<1>1. Blk \in Nat /\ Blk > 0
  BY UsbAssumption
<1>2. Waiting = {} /\ QueueTyped
  BY DEF UsbInit, Waiting, QueueTyped, OneEach
<1>3. [b \in 0 .. 1 |-> Blank] \in Buffers
  BY DEF Blank, Buffers, Byte
<1>4. NoMove \in Move
  BY DEF NoMove, Move
<1>5. InInv
  <2>1. InTyped
    BY <1>3, <1>4 DEF UsbInit, InTyped
  <2>2. txHost = Bytes(tx.id, Len(txHost))
    BY NoBytes DEF UsbInit
  <2>3. InRest /\ InSending /\ InSent /\ InAhead
    BY <1>2 DEF UsbInit, InRest, InSending, InSent, InAhead, Pending, Queued
  <2> QED BY <1>2, <2>1, <2>2, <2>3 DEF InInv
<1>6. OutInv
  <2>1. OutTyped
    BY <1>3, <1>4 DEF UsbInit, OutTyped
  <2>2. rxData = Bytes(rx.id, Len(rxData))
    BY NoBytes DEF UsbInit
  <2>3. OutRest /\ OutExpecting /\ OutArrived /\ OutReading
    BY <1>2 DEF UsbInit, OutRest, OutExpecting, OutArrived, OutReading, Pending, Queued
  <2> QED BY <1>2, <2>1, <2>2, <2>3 DEF OutInv
<1> QED BY <1>5, <1>6

(* The invariant of both directions is inductive.                          *)
LEMMA UsbInvStep == InInv /\ OutInv /\ [UsbNext]_usbVars => InInv' /\ OutInv'
<1> SUFFICES ASSUME InInv, OutInv, [UsbNext]_usbVars PROVE InInv' /\ OutInv'
  OBVIOUS
<1>1. ASSUME UNCHANGED events PROVE Waiting' = Waiting
  BY <1>1 DEF Waiting
<1>2. CASE UNCHANGED usbVars
  <2>1. events' = events /\ pc' = pc /\ UNCHANGED inVars /\ UNCHANGED outVars
    BY <1>2 DEF usbVars
  <2>2. QueueTyped'
    BY <2>1 DEF InInv, QueueTyped, OneEach
  <2> QED BY <1>1, <2>1, <2>2, InFrame, OutFrame
<1>3. ASSUME NEW n \in Lengths, XferIn(n) PROVE InInv' /\ OutInv'
  <2>1. InInv'
    BY <1>3, InXfer
  <2>2. /\ UNCHANGED events /\ UNCHANGED outVars /\ pc' = "fill" /\ pc = "idle"
    BY <1>3 DEF XferIn
  <2> QED BY <1>1, <2>1, <2>2, OutFrame DEF InInv
<1>4. CASE FillIn
  <2>1. InInv'
    BY <1>4, InFill
  <2>2. /\ UNCHANGED events /\ UNCHANGED outVars /\ pc' = "idle" /\ pc = "fill"
    BY <1>4 DEF FillIn
  <2> QED BY <1>1, <2>1, <2>2, OutFrame DEF InInv
<1>5. CASE CompleteIn
  <2>1. InInv'
    BY <1>5, InComplete
  <2>2. /\ UNCHANGED outVars /\ pc' \in {"idle", "fill"} /\ pc = "idle"
        /\ events # << >> /\ events' = Tail(events)
    BY <1>5 DEF CompleteIn
  <2>3. Waiting' \subseteq Waiting
    BY <2>2, Dequeue DEF InInv
  <2> QED BY <2>1, <2>2, <2>3, OutFrame DEF InInv
<1>6. CASE Transmit
  <2>1. InInv' /\ QueueTyped' /\ \A e \in Waiting' : e.dir = "out" => e \in Waiting
    BY <1>6, InTransmit
  <2>2. UNCHANGED outVars /\ pc' = pc
    BY <1>6 DEF Transmit
  <2> QED BY <2>1, <2>2, OutFrame
<1>7. ASSUME NEW n \in Lengths, NEW m \in 0 .. n, XferOut(n, m) PROVE InInv' /\ OutInv'
  <2>1. OutInv'
    BY <1>7, OutXfer
  <2>2. UNCHANGED events /\ UNCHANGED inVars /\ pc' = pc
    BY <1>7 DEF XferOut
  <2> QED BY <1>1, <2>1, <2>2, InFrame DEF OutInv
<1>8. CASE CompleteOut
  <2>1. OutInv' /\ QueueTyped' /\ \A e \in Waiting' : e.dir = "in" => e \in Waiting
    BY <1>8, OutComplete
  <2>2. UNCHANGED inVars /\ pc' = "receive" /\ pc = "idle"
    BY <1>8 DEF CompleteOut
  <2> QED BY <2>1, <2>2, InFrame
<1>9. CASE ReceiveOut
  <2>1. OutInv'
    BY <1>9, OutRead
  <2>2. UNCHANGED events /\ UNCHANGED inVars /\ pc' = "idle" /\ pc = "receive"
    BY <1>9 DEF ReceiveOut
  <2> QED BY <1>1, <2>1, <2>2, InFrame DEF OutInv
<1>10. CASE Receive
  <2>1. OutInv' /\ QueueTyped' /\ \A e \in Waiting' : e.dir = "in" => e \in Waiting
    BY <1>10, OutReceive
  <2>2. UNCHANGED inVars /\ pc' = pc
    BY <1>10 DEF Receive
  <2> QED BY <2>1, <2>2, InFrame
<1> QED
  BY <1>2, <1>3, <1>4, <1>5, <1>6, <1>7, <1>8, <1>9, <1>10
     DEF UsbNext, Driver, Controller, Stack

(* Both directions keep the invariant.                                     *)
LEMMA UsbInvariance == UsbSpec => [](InInv /\ OutInv)
  BY UsbInvInit, UsbInvStep, PTL DEF UsbSpec

(* The host receives the bytes of every transfer in order and each once,   *)
(* and all of them before the stack is told that the transfer is done, for *)
(* every block size and every length (dcd_dspico.c:181-213, 387-398).      *)
THEOREM InDelivery == UsbSpec => []InDelivered
<1>1. InInv => InDelivered
  BY DEF InInv, InRest, InDelivered
<1> QED
  BY <1>1, UsbInvariance, PTL

(* The stack receives exactly what the host sent for the transfer, wherever *)
(* the host ends it, for every block size and every length                 *)
(* (dcd_dspico.c:215-246, 399-408).                                        *)
THEOREM OutDelivery == UsbSpec => []OutDelivered
<1>1. OutInv => OutDelivered
  BY DEF OutInv, OutRest, OutDelivered
<1> QED
  BY <1>1, UsbInvariance, PTL

(* What the controller is sending is never the buffer the driver fills,    *)
(* and what the host is filling is never the buffer the driver reads.      *)
BuffersApart ==
  /\ pc = "fill" /\ txMove # NoMove /\ tx.offset < tx.length => txMove.buf # tx.buf
  /\ pc = "receive" /\ rxMove # NoMove => rxMove.buf # rx.buf

(* No buffer of the cartridge is used by the driver and the controller at  *)
(* the same time (in_send_block against the transfer in_complete started,  *)
(* out_receive_block against the one out_complete started).                *)
THEOREM Ownership == UsbSpec => []BuffersApart
<1>1. ASSUME InInv, OutInv PROVE BuffersApart
  <2>1. ASSUME pc = "fill", txMove # NoMove, tx.offset < tx.length PROVE txMove.buf # tx.buf
    <3>1. tx.offset = Current
      BY <1>1, <2>1 DEF InInv, InAhead, InSending
    <3>2. tx.remaining > Blk
      BY <1>1, <2>1, <3>1, InFacts DEF InInv, Current, Least
    <3> QED BY <1>1, <2>1, <3>2 DEF InInv, InSending
  <2>2. ASSUME pc = "receive", rxMove # NoMove PROVE rxMove.buf # rx.buf
    <3>1. rxMove.buf = 1 - rx.buf
      BY <1>1, <2>2 DEF OutInv, OutExpecting, NextIn
    <3> QED BY <1>1, <3>1, OutFacts DEF OutInv
  <2> QED BY <2>1, <2>2 DEF BuffersApart
<1> QED
  BY <1>1, UsbInvariance, PTL
=============================================================================
