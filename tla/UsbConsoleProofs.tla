-------------------------- MODULE UsbConsoleProofs --------------------------
(***************************************************************************)
(* Control transfers of the USB console, for every set of requests, every  *)
(* packet and queue size and any number of bus resets, unplugs, suspends   *)
(* transfers given up and hurried: a transfer that is not hurried itself   *)
(* reads the right bytes, and the device takes the address it gives.       *)
(*                                                                         *)
(* Core holds at all times: types, and the stack's count of the SETUPs in  *)
(* its queue.  UsbInv holds from a transfer that is not hurried until the  *)
(* next that is; a transfer that is not hurried restores it, since Core    *)
(* and what is not waiting then are enough.  UsbInv follows a transfer     *)
(* from its SETUP, through the two queues in which it may wait behind bus  *)
(* resets and transfers that were given up, to its status stage:           *)
(*   - QueuesInv: no SETUP is in each queue while tud_task runs; the last  *)
(*     one is that of the host's transfer, and no bus reset is behind it;  *)
(*   - PendingInv: until it is handled, endpoint 0 is quiet, but for the   *)
(*     last packet of the transfer before, which the stack hears of first; *)
(*   - TransferInv: then the request was refused, or the packets of a read *)
(*     are offered, taken and reported in turn, or at most an empty packet *)
(*     is sent;                                                            *)
(*   - AddressInv: the address is taken, or its status packet is on the    *)
(*     way to the stack or was counted for a transfer that was cut off;    *)
(*   - DoneInv: behind a transfer that has ended nothing waits but that    *)
(*     last packet.                                                        *)
(***************************************************************************)
EXTENDS UsbConsole, SequenceTheorems, FiniteSetTheorems, TLAPS

(***************************************************************************)
(* Types.  Of the device only what endpoint 0 depends on is described.     *)
(***************************************************************************)
DeviceFields ==
  {"address", "in", "out", "open", "stalled", "sIn", "queue", "setups", "connected",
   "suspended", "cfg", "busyIn", "busyOut", "ctrl", "bound", "dtr", "tx", "rx"}

Bytes == Nat \X Nat

Shape(dev) ==
  /\ DOMAIN dev = DeviceFields
  /\ DOMAIN dev.in = Eps /\ DOMAIN dev.out = Eps /\ DOMAIN dev.sIn = Eps
  /\ DOMAIN dev.busyIn = Eps /\ DOMAIN dev.busyOut = Eps
  /\ DOMAIN dev.ctrl = {"req", "len", "total", "cb"}
  /\ DOMAIN dev.sIn[0] = {"active", "tx", "remaining"}
  /\ DOMAIN dev.sIn[2] = {"active", "tx", "remaining"}

(* What is offered is bytes; a transfer whose last ones were handed over   *)
(* is over, unless it is empty.                                            *)
DriverTyped(dev) ==
  /\ dev.sIn[0].active \in BOOLEAN
  /\ dev.sIn[0].tx \in Seq(Bytes)
  /\ dev.sIn[0].remaining \in Wrapped .. Len(dev.sIn[0].tx)
  /\ dev.in[0] # << >> => Head(dev.in[0]) \in Seq(Bytes)
  /\ dev.sIn[0].active /\ dev.sIn[0].remaining = 0 => dev.sIn[0].tx = << >>

CtrlTyped(dev) ==
  /\ dev.ctrl.req \in Requests \cup {NoRequest}
  /\ dev.ctrl.len = Lesser(dev.ctrl.req.len, dev.ctrl.req.want) \/ dev.ctrl.len = 0
  /\ dev.ctrl.total \in Nat

(* An event of the controller, and one of the stack's queue.               *)
EventTyped(ev) ==
  /\ ev.id \in {"setup", "in", "out", "reset", "unplugged", "suspend", "resume"}
  /\ ev.id = "setup" => ev.req \in Requests
  /\ ev.id \in {"in", "out"} => ev.ep \in Eps /\ (ev.ep = 0 => ev.n \in Nat)

QueuedTyped(ev) ==
  /\ ev.id \in {"setup", "xfer", "reset", "unplugged", "suspend", "resume"}
  /\ ev.id = "setup" => ev.req \in Requests
  /\ ev.id = "xfer" => /\ ev.ep \in Eps /\ ev.dir \in {"in", "out"}
                       /\ ev.ep = 0 => ev.n \in Nat

HostFields ==
  {"plugged", "asleep", "address", "cfg", "stage", "req", "got", "done", "hurried",
   "astray", "last", "ended", "wrote"}

HostTyped ==
  /\ DOMAIN host = HostFields
  /\ host.stage \in {"none", "in", "out", "status"}
  /\ host.stage # "none" => host.req \in Requests
  /\ host.done \in BOOLEAN /\ host.hurried \in BOOLEAN
  /\ host.done => host.stage = "none" /\ ~host.hurried

SomeSeq(s) == s \in Seq(Range(s))

SetupsIn(q) == {k \in 1 .. Len(q) : q[k].id = "setup"}

UsbTyped ==
  /\ Shape(d) /\ DriverTyped(d) /\ CtrlTyped(d)
  /\ pc \in {"pump", "task", "stream"}
  /\ SomeSeq(events) /\ SomeSeq(d.queue)
  /\ \A k \in 1 .. Len(events) : EventTyped(events[k])
  /\ \A k \in 1 .. Len(d.queue) : QueuedTyped(d.queue[k])
  /\ HostTyped
-----------------------------------------------------------------------------
(***************************************************************************)
(* The two queues.                                                         *)
(***************************************************************************)
HasSetup(q) == \E k \in 1 .. Len(q) : q[k].id = "setup"
BusEvent(ev) == ev.id \in {"reset", "unplugged"}

(* A SETUP follows every reset.                                            *)
Covered(q) ==
  \A k \in 1 .. Len(q) :
    BusEvent(q[k]) => \E j \in (k + 1) .. Len(q) : q[j].id = "setup"

(* The last SETUP makes this request.                                      *)
Latest(q, req) ==
  \A k \in 1 .. Len(q) :
    q[k].id = "setup" /\ (\A j \in (k + 1) .. Len(q) : q[j].id # "setup")
      => q[k].req = req

(* Every event finds room, and the stack's count of SETUPs is right.       *)
Counted ==
  /\ Len(events) + Len(d.queue) <= CtlDepth
  /\ d.setups = Cardinality(SetupsIn(d.queue))

PumpsApart == pc # "pump" => ~HasSetup(d.queue) \/ ~HasSetup(events)

QueuesInv ==
  /\ PumpsApart
  /\ host.stage # "none" =>
       /\ Covered(events) /\ Latest(events, host.req)
       /\ HasSetup(events) \/ (Covered(d.queue) /\ Latest(d.queue, host.req))

(* What either queue says about endpoint 0: nothing, that one packet of n  *)
(* bytes was sent (or received) and nothing else, or nothing about         *)
(* sending.                                                                *)
About0(ev) == ev.id \in {"in", "out", "xfer"} /\ ev.ep = 0
Inward(ev) == ev.id = "in" \/ (ev.id = "xfer" /\ ev.dir = "in")
Way(ev) == IF Inward(ev) THEN "in" ELSE "out"
NoneAt0(q) == \A k \in 1 .. Len(q) : ~About0(q[k])
OneAt0(q, n, way) ==
  \E k \in 1 .. Len(q) :
    /\ About0(q[k]) /\ Way(q[k]) = way /\ q[k].n = n
    /\ \A j \in (1 .. Len(q)) \ {k} : ~About0(q[j])
OnlyOut(q) == \A k \in 1 .. Len(q) : About0(q[k]) => ~Inward(q[k])

(* No SETUP and no bus reset is before a packet of endpoint 0.             *)
AtFront(q) ==
  \A k \in 1 .. Len(q) : About0(q[k]) =>
    \A j \in 1 .. k - 1 : q[j].id # "setup" /\ ~BusEvent(q[j])

Silent0 == NoneAt0(events) /\ NoneAt0(d.queue)
-----------------------------------------------------------------------------
(***************************************************************************)
(* A control transfer.                                                     *)
(***************************************************************************)
SetupPending == HasSetup(events) \/ HasSetup(d.queue)
NoBus(q) == \A k \in 1 .. Len(q) : ~BusEvent(q[k])

FirstStage(req) ==
  IF req.kind = "get" THEN "in" ELSE IF req.kind = "coding" THEN "out" ELSE "status"

Begun == host.got = << >> /\ host.stage = FirstStage(host.req)

(* The empty packet of the stack's own status stage, before any SETUP.     *)
Closing ==
  LET way == IF HostReads(d.ctrl.req) THEN "out" ELSE "in"
  IN \/ /\ OneAt0(events, 0, way) /\ AtFront(events)
        /\ NoneAt0(d.queue) /\ ~HasSetup(d.queue) /\ NoBus(d.queue)
     \/ NoneAt0(events) /\ OneAt0(d.queue, 0, way) /\ AtFront(d.queue)

(* The address that the stack is about to take is the host's.              *)
Agreed == d.ctrl.req.kind = "addr" => d.ctrl.req.v = host.address

(* From the SETUP until the stack handles it, endpoint 0 is quiet, but for *)
(* the end of the transfer before.                                         *)
Quiet0 ==
  Silent0 \/ (Closing /\ d.sIn[0].remaining = 0 /\ (host.stage # "none" => Agreed))

PendingInv ==
  SetupPending => /\ d.in[0] = << >> /\ ~d.out[0] /\ ~d.stalled /\ Quiet0
                  /\ host.stage # "none" => Begun

Refused == d.stalled /\ d.in[0] = << >> /\ ~d.out[0] /\ Silent0 /\ Begun

(* A read: the packet that starts behind `total' is offered to the host,   *)
(* taken, and reported to the stack.                                       *)
Upto(req, n) == SubSeq(Answer(req), 1, n)
Stop(req, total) == Lesser(Len(Answer(req)), total + Ep0Size)
Packet(req, total) == SubSeq(Answer(req), total + 1, Stop(req, total))
Sending(p) == [active |-> TRUE, tx |-> p, remaining |-> Len(p)]

Offered(p) ==
  /\ host.stage = "in" /\ host.got = Upto(host.req, d.ctrl.total)
  /\ d.in[0] = <<p>> /\ d.sIn[0] = Sending(p) /\ Silent0 /\ ~d.out[0]

Taken(p) ==
  /\ host.stage = IF Len(p) < Ep0Size \/ Stop(host.req, d.ctrl.total) = host.req.want
                  THEN "status" ELSE "in"
  /\ host.got = Upto(host.req, Stop(host.req, d.ctrl.total))
  /\ d.in[0] = << >> /\ ~d.out[0]
  /\ \/ OneAt0(events, Len(p), "in") /\ NoneAt0(d.queue) /\ d.sIn[0] = Sending(p)
     \/ NoneAt0(events) /\ OneAt0(d.queue, Len(p), "in")

AllRead ==
  host.stage = "status" /\ host.got = Answer(host.req) /\ d.in[0] = << >> /\ Silent0

Reading ==
  /\ host.req.kind = "get" /\ d.ctrl.req = host.req
  /\ d.ctrl.len = Len(Answer(host.req)) /\ d.ctrl.total \in 0 .. Len(Answer(host.req))
  /\ \/ Offered(Packet(host.req, d.ctrl.total))
     \/ Taken(Packet(host.req, d.ctrl.total))
     \/ AllRead

(* Any other request: at most the empty packet of the status stage, after  *)
(* the data, if there are any, went to the stack.                          *)
Given ==
  \/ OneAt0(events, host.req.want, "out") /\ NoneAt0(d.queue)
  \/ NoneAt0(events) /\ OneAt0(d.queue, host.req.want, "out")

Writing ==
  /\ host.req.kind # "get" /\ d.ctrl.req = host.req
  /\ d.in[0] \in {<< >>, << << >> >>} /\ host.got = << >>
  /\ \/ host.stage = "out" /\ host.req.kind = "coding" /\ d.in[0] = << >> /\ Silent0
     \/ host.stage = "status" /\ Silent0
     \/ host.stage = "status" /\ host.req.kind = "coding" /\ d.in[0] = << >> /\ Given

TransferInv ==
  host.stage # "none" /\ ~SetupPending => Refused \/ Reading \/ Writing
-----------------------------------------------------------------------------
(***************************************************************************)
(* The address.                                                            *)
(***************************************************************************)
(* The status packet of SET_ADDRESS is under way to the stack ...          *)
Naming ==
  /\ d.ctrl.req.kind = "addr" /\ ~SetupPending /\ NoBus(events) /\ NoBus(d.queue)
  /\ \/ OneAt0(events, 0, "in") /\ NoneAt0(d.queue)
     \/ NoneAt0(events) /\ OneAt0(d.queue, 0, "in")

(* ... or was taken for a part of a transfer that had been cut off.        *)
Misled == d.sIn[0].active /\ ~SetupPending /\ Silent0

AddressInv ==
  /\ host.stage # "none" => host.address = d.address
  /\ host.address # 0 /\ d.ctrl.req.kind = "addr"
       => d.ctrl.req.v = host.address \/ (OnlyOut(events) /\ OnlyOut(d.queue))
  /\ host.address # 0 /\ host.stage = "none"
       => d.address = host.address \/ Naming \/ Misled

(* Behind a transfer that has ended only its last packet waits.            *)
DoneInv ==
  host.done => /\ ~SetupPending /\ NoBus(events) /\ NoBus(d.queue)
               /\ Silent0 \/ (Closing /\ Agreed)

Core == UsbTyped /\ Counted
UsbInv == Core /\ QueuesInv /\ PendingInv /\ TransferInv /\ AddressInv /\ DoneInv
-----------------------------------------------------------------------------
(***************************************************************************)
(* Sequences of anything.                                                  *)
(***************************************************************************)
LEMMA Appended ==
  ASSUME NEW s, NEW e, SomeSeq(s)
  PROVE  /\ SomeSeq(Append(s, e)) /\ Len(s) \in Nat /\ Len(Append(s, e)) = Len(s) + 1
         /\ \A k \in 1 .. Len(s) : Append(s, e)[k] = s[k]
         /\ Append(s, e)[Len(s) + 1] = e
<1> DEFINE S == Range(s) \cup {e}
<1>1. s \in Seq(S)
  BY DEF SomeSeq
<1>2. /\ Append(s, e) \in Seq(S) /\ Len(s) \in Nat /\ Len(Append(s, e)) = Len(s) + 1
      /\ \A k \in 1 .. Len(s) : Append(s, e)[k] = s[k]
      /\ Append(s, e)[Len(s) + 1] = e
  BY <1>1
<1>4. SomeSeq(Append(s, e))
  BY <1>2, SeqOfRange DEF SomeSeq
<1> QED
  BY <1>2, <1>4

LEMMA Shortened ==
  ASSUME NEW s, SomeSeq(s), s # << >>
  PROVE  /\ SomeSeq(Tail(s)) /\ Len(s) \in Nat \ {0} /\ Len(Tail(s)) = Len(s) - 1
         /\ \A k \in 1 .. Len(s) - 1 : Tail(s)[k] = s[k + 1]
         /\ Head(s) = s[1]
<1>2. /\ Tail(s) \in Seq(Range(s)) /\ Len(s) \in Nat \ {0} /\ Len(Tail(s)) = Len(s) - 1
      /\ \A k \in 1 .. Len(s) - 1 : Tail(s)[k] = s[k + 1]
      /\ Head(s) = s[1]
  BY DEF SomeSeq
<1>4. SomeSeq(Tail(s))
  BY <1>2, SeqOfRange DEF SomeSeq
<1> QED
  BY <1>2, <1>4

LEMMA EmptyIsSeq ==
  SomeSeq(<< >>) /\ Len(<< >>) = 0
  BY EmptySeq DEF SomeSeq

LEMMA SetupsFinite ==
  ASSUME NEW q, SomeSeq(q)
  PROVE  IsFiniteSet(SetupsIn(q)) /\ Cardinality(SetupsIn(q)) \in Nat
<1>1. Len(q) \in Nat
  BY DEF SomeSeq
<1>2. IsFiniteSet(1 .. Len(q))
  BY <1>1, FS_Interval
<1>3. SetupsIn(q) \in SUBSET (1 .. Len(q))
  BY DEF SetupsIn
<1>4. IsFiniteSet(SetupsIn(q))
  BY <1>2, <1>3, FS_Subset
<1> QED
  BY <1>4, FS_CardinalityType

LEMMA SetupCounted ==
  ASSUME NEW q, SomeSeq(q), NEW e
  PROVE  Cardinality(SetupsIn(Append(q, e)))
           = Cardinality(SetupsIn(q)) + (IF e.id = "setup" THEN 1 ELSE 0)
<1>1. /\ Len(q) \in Nat /\ Len(Append(q, e)) = Len(q) + 1
      /\ \A k \in 1 .. Len(q) : Append(q, e)[k] = q[k]
      /\ Append(q, e)[Len(q) + 1] = e
  BY Appended
<1>2. ASSUME e.id = "setup"
      PROVE  SetupsIn(Append(q, e)) = SetupsIn(q) \cup {Len(q) + 1}
  BY <1>1, <1>2 DEF SetupsIn
<1>3. ASSUME e.id # "setup"
      PROVE  SetupsIn(Append(q, e)) = SetupsIn(q)
  BY <1>1, <1>3 DEF SetupsIn
<1>4. Len(q) + 1 \notin SetupsIn(q)
  BY <1>1 DEF SetupsIn
<1>5. IsFiniteSet(SetupsIn(q)) /\ Cardinality(SetupsIn(q)) \in Nat
  BY SetupsFinite
<1>6. Cardinality(SetupsIn(q) \cup {Len(q) + 1}) = Cardinality(SetupsIn(q)) + 1
  BY <1>4, <1>5, FS_AddElement
<1>7. CASE e.id = "setup"
  BY <1>2, <1>6, <1>7
<1>8. CASE e.id # "setup"
  BY <1>3, <1>5, <1>8
<1> QED
  BY <1>7, <1>8

LEMMA SetupUncounted ==
  ASSUME NEW q, SomeSeq(q), q # << >>
  PROVE  Cardinality(SetupsIn(q))
           = Cardinality(SetupsIn(Tail(q))) + (IF Head(q).id = "setup" THEN 1 ELSE 0)
<1> DEFINE S == SetupsIn(q) \ {1}
           T == SetupsIn(Tail(q))
           f == [k \in T |-> k + 1]
<1>1. /\ SomeSeq(Tail(q)) /\ Len(q) \in Nat \ {0} /\ Len(Tail(q)) = Len(q) - 1
      /\ \A k \in 1 .. Len(q) - 1 : Tail(q)[k] = q[k + 1]
      /\ Head(q) = q[1]
  BY Shortened
<1>2. IsFiniteSet(SetupsIn(q)) /\ Cardinality(SetupsIn(q)) \in Nat
      /\ IsFiniteSet(T) /\ Cardinality(T) \in Nat
  BY <1>1, SetupsFinite
<1>3. \A k \in T : k \in Nat /\ k + 1 \in S
  BY <1>1 DEF SetupsIn
<1>4. \A k \in S : k \in Nat /\ k - 1 \in T
  BY <1>1 DEF SetupsIn
<1>5. f \in Bijection(T, S)
  <2>1. f \in [T -> S] /\ \A a, b \in T : f[a] = f[b] => a = b
    BY <1>3
  <2>2. \A b \in S : \E a \in T : f[a] = b
    BY <1>4
  <2> QED
    BY <2>1, <2>2 DEF Bijection, Injection, Surjection, IsInjective
<1>6. Cardinality(S) = Cardinality(T)
  BY <1>2, <1>5, FS_Bijection DEF ExistsBijection
<1>7. Cardinality(S) = IF 1 \in SetupsIn(q) THEN Cardinality(SetupsIn(q)) - 1
                       ELSE Cardinality(SetupsIn(q))
  BY <1>2, FS_RemoveElement
<1>8. (1 \in SetupsIn(q)) <=> (Head(q).id = "setup")
  BY <1>1 DEF SetupsIn
<1> QED
  BY <1>2, <1>6, <1>7, <1>8
-----------------------------------------------------------------------------
(***************************************************************************)
(* The predicates on queues: what an event at the end, or the head leaving,*)
(* does to them.                                                           *)
(***************************************************************************)
LEMMA SetupJoins ==
  ASSUME NEW q, SomeSeq(q), NEW e, NEW req
  PROVE  /\ HasSetup(Append(q, e)) <=> (HasSetup(q) \/ e.id = "setup")
         /\ e.id = "setup" => Covered(Append(q, e))
         /\ Covered(q) /\ ~BusEvent(e) => Covered(Append(q, e))
         /\ e.id = "setup" /\ e.req = req => Latest(Append(q, e), req)
         /\ Latest(q, req) /\ e.id # "setup" => Latest(Append(q, e), req)
         /\ NoBus(Append(q, e)) <=> (NoBus(q) /\ ~BusEvent(e))
<1> DEFINE s == Append(q, e)
<1>1. /\ Len(q) \in Nat /\ Len(s) = Len(q) + 1
      /\ \A k \in 1 .. Len(q) : s[k] = q[k]
      /\ s[Len(q) + 1] = e
  BY Appended
<1> HIDE DEF s
<1>2. HasSetup(s) <=> (HasSetup(q) \/ e.id = "setup")
  BY <1>1 DEF HasSetup
<1>3. ASSUME e.id = "setup" PROVE Covered(s)
  BY <1>1, <1>3 DEF Covered, BusEvent
<1>4. ASSUME Covered(q), ~BusEvent(e) PROVE Covered(s)
  <2> SUFFICES ASSUME NEW k \in 1 .. Len(s), BusEvent(s[k])
               PROVE  \E j \in (k + 1) .. Len(s) : s[j].id = "setup"
    BY DEF Covered
  <2>1. k \in 1 .. Len(q) /\ BusEvent(q[k])
    BY <1>1, <1>4
  <2>2. PICK j \in (k + 1) .. Len(q) : q[j].id = "setup"
    BY <1>4, <2>1 DEF Covered
  <2>3. j \in 1 .. Len(q) /\ j \in (k + 1) .. Len(s)
    BY <1>1, <2>1, <2>2
  <2> QED
    BY <1>1, <2>2, <2>3
<1>5. ASSUME e.id = "setup", e.req = req PROVE Latest(s, req)
  <2> SUFFICES ASSUME NEW k \in 1 .. Len(s), s[k].id = "setup",
                      \A j \in (k + 1) .. Len(s) : s[j].id # "setup"
               PROVE  s[k].req = req
    BY DEF Latest
  <2>1. k = Len(s)
    BY <1>1, <1>5
  <2> QED
    BY <1>1, <1>5, <2>1
<1>6. ASSUME Latest(q, req), e.id # "setup" PROVE Latest(s, req)
  <2> SUFFICES ASSUME NEW k \in 1 .. Len(s), s[k].id = "setup",
                      \A j \in (k + 1) .. Len(s) : s[j].id # "setup"
               PROVE  s[k].req = req
    BY DEF Latest
  <2>1. k \in 1 .. Len(q) /\ q[k] = s[k]
    BY <1>1, <1>6
  <2>2. \A j \in (k + 1) .. Len(q) : q[j].id # "setup"
    BY <1>1, <2>1
  <2> QED
    BY <1>6, <2>1, <2>2 DEF Latest
<1>7. NoBus(s) <=> (NoBus(q) /\ ~BusEvent(e))
  BY <1>1 DEF NoBus
<1> QED
  BY <1>2, <1>3, <1>4, <1>5, <1>6, <1>7 DEF s

LEMMA SetupLeaves ==
  ASSUME NEW q, SomeSeq(q), q # << >>, NEW req
  PROVE  /\ HasSetup(q) <=> (HasSetup(Tail(q)) \/ Head(q).id = "setup")
         /\ Covered(q) => Covered(Tail(q))
         /\ Covered(q) /\ BusEvent(Head(q)) => HasSetup(Tail(q))
         /\ Latest(q, req) => Latest(Tail(q), req)
         /\ Latest(q, req) /\ Head(q).id = "setup" /\ ~HasSetup(Tail(q))
              => Head(q).req = req
         /\ NoBus(q) <=> (NoBus(Tail(q)) /\ ~BusEvent(Head(q)))
<1> DEFINE s == Tail(q)
           h == Head(q)
<1>1. /\ Len(q) \in Nat \ {0} /\ Len(s) = Len(q) - 1 /\ h = q[1]
      /\ \A k \in 1 .. Len(q) - 1 : s[k] = q[k + 1]
  BY Shortened
<1> HIDE DEF s, h
<1>2. \A k \in 1 .. Len(q) : k = 1 \/ (k - 1 \in 1 .. Len(s) /\ s[k - 1] = q[k])
  BY <1>1
<1>3. \A k \in 1 .. Len(s) : k + 1 \in 1 .. Len(q) /\ s[k] = q[k + 1]
  BY <1>1
<1>4. HasSetup(q) <=> (HasSetup(s) \/ h.id = "setup")
  BY <1>1, <1>2, <1>3 DEF HasSetup
<1>5. ASSUME Covered(q) PROVE Covered(s)
  <2> SUFFICES ASSUME NEW k \in 1 .. Len(s), BusEvent(s[k])
               PROVE  \E j \in (k + 1) .. Len(s) : s[j].id = "setup"
    BY DEF Covered
  <2>1. PICK j \in (k + 2) .. Len(q) : q[j].id = "setup"
    BY <1>1, <1>3, <1>5 DEF Covered
  <2>2. j - 1 \in (k + 1) .. Len(s) /\ s[j - 1] = q[j]
    BY <1>1, <1>2, <2>1
  <2> QED
    BY <2>1, <2>2
<1>6. ASSUME Covered(q), BusEvent(h) PROVE HasSetup(s)
  <2>1. PICK j \in 2 .. Len(q) : q[j].id = "setup"
    BY <1>1, <1>6 DEF Covered
  <2> QED
    BY <1>1, <1>2, <2>1 DEF HasSetup
<1>7. ASSUME Latest(q, req) PROVE Latest(s, req)
  <2> SUFFICES ASSUME NEW k \in 1 .. Len(s), s[k].id = "setup",
                      \A j \in (k + 1) .. Len(s) : s[j].id # "setup"
               PROVE  s[k].req = req
    BY DEF Latest
  <2>1. \A j \in (k + 2) .. Len(q) : q[j].id # "setup"
    <3> TAKE j \in (k + 2) .. Len(q)
    <3>1. j - 1 \in (k + 1) .. Len(s) /\ s[j - 1] = q[j]
      BY <1>1, <1>2
    <3> QED
      BY <3>1
  <2> QED
    BY <1>1, <1>3, <1>7, <2>1 DEF Latest
<1>8. ASSUME Latest(q, req), h.id = "setup", ~HasSetup(s) PROVE h.req = req
  <2>1. \A j \in 2 .. Len(q) : q[j].id # "setup"
    BY <1>1, <1>2, <1>8 DEF HasSetup
  <2> QED
    BY <1>1, <1>8, <2>1 DEF Latest
<1>9. NoBus(q) <=> (NoBus(s) /\ ~BusEvent(h))
  BY <1>1, <1>2, <1>3 DEF NoBus
<1> QED
  BY <1>4, <1>5, <1>6, <1>7, <1>8, <1>9 DEF s, h

LEMMA CoveredQuiet ==
  ASSUME NEW q, SomeSeq(q), Covered(q), ~HasSetup(q)
  PROVE  NoBus(q)
<1>1. Len(q) \in Nat
  BY DEF SomeSeq
<1> SUFFICES ASSUME NEW k \in 1 .. Len(q), BusEvent(q[k]) PROVE FALSE
  BY DEF NoBus
<1>2. PICK j \in (k + 1) .. Len(q) : q[j].id = "setup"
  BY DEF Covered
<1> QED
  BY <1>1, <1>2 DEF HasSetup

LEMMA PacketJoins ==
  ASSUME NEW q, SomeSeq(q), NEW e, NEW n, NEW way
  PROVE  /\ NoneAt0(Append(q, e)) <=> (NoneAt0(q) /\ ~About0(e))
         /\ OnlyOut(Append(q, e)) <=> (OnlyOut(q) /\ (About0(e) => ~Inward(e)))
         /\ OneAt0(q, n, way) /\ ~About0(e) => OneAt0(Append(q, e), n, way)
         /\ NoneAt0(q) /\ About0(e) /\ Way(e) = way /\ e.n = n
              => OneAt0(Append(q, e), n, way)
<1> DEFINE s == Append(q, e)
<1>1. /\ Len(q) \in Nat /\ Len(s) = Len(q) + 1
      /\ \A k \in 1 .. Len(q) : s[k] = q[k]
      /\ s[Len(q) + 1] = e
  BY Appended
<1> HIDE DEF s
<1>2. NoneAt0(s) <=> (NoneAt0(q) /\ ~About0(e))
  BY <1>1 DEF NoneAt0
<1>3. OnlyOut(s) <=> (OnlyOut(q) /\ (About0(e) => ~Inward(e)))
  BY <1>1 DEF OnlyOut
<1>4. ASSUME OneAt0(q, n, way), ~About0(e) PROVE OneAt0(s, n, way)
  <2>1. PICK k \in 1 .. Len(q) :
          /\ About0(q[k]) /\ Way(q[k]) = way /\ q[k].n = n
          /\ \A j \in (1 .. Len(q)) \ {k} : ~About0(q[j])
    BY <1>4 DEF OneAt0
  <2>2. \A j \in (1 .. Len(s)) \ {k} : ~About0(s[j])
    BY <1>1, <1>4, <2>1
  <2> QED
    BY <1>1, <2>1, <2>2 DEF OneAt0
<1>5. ASSUME NoneAt0(q), About0(e), Way(e) = way, e.n = n PROVE OneAt0(s, n, way)
  <2>1. \A j \in (1 .. Len(s)) \ {Len(q) + 1} : ~About0(s[j])
    BY <1>1, <1>5 DEF NoneAt0
  <2> QED
    BY <1>1, <1>5, <2>1 DEF OneAt0
<1> QED
  BY <1>2, <1>3, <1>4, <1>5 DEF s

LEMMA PacketLeaves ==
  ASSUME NEW q, SomeSeq(q), q # << >>, NEW n, NEW way
  PROVE  /\ NoneAt0(q) <=> (NoneAt0(Tail(q)) /\ ~About0(Head(q)))
         /\ OnlyOut(q) <=> (OnlyOut(Tail(q)) /\ (About0(Head(q)) => ~Inward(Head(q))))
         /\ OneAt0(q, n, way) /\ ~About0(Head(q)) => OneAt0(Tail(q), n, way)
         /\ OneAt0(q, n, way) /\ About0(Head(q))
              => Way(Head(q)) = way /\ Head(q).n = n /\ NoneAt0(Tail(q))
<1> DEFINE s == Tail(q)
           h == Head(q)
<1>1. /\ Len(q) \in Nat \ {0} /\ Len(s) = Len(q) - 1 /\ h = q[1]
      /\ \A k \in 1 .. Len(q) - 1 : s[k] = q[k + 1]
  BY Shortened
<1> HIDE DEF s, h
<1>2. \A k \in 1 .. Len(q) : k = 1 \/ (k - 1 \in 1 .. Len(s) /\ s[k - 1] = q[k])
  BY <1>1
<1>3. \A k \in 1 .. Len(s) : k + 1 \in 1 .. Len(q) /\ s[k] = q[k + 1]
  BY <1>1
<1>4. NoneAt0(q) <=> (NoneAt0(s) /\ ~About0(h))
  BY <1>1, <1>2, <1>3 DEF NoneAt0
<1>5. OnlyOut(q) <=> (OnlyOut(s) /\ (About0(h) => ~Inward(h)))
  BY <1>1, <1>2, <1>3 DEF OnlyOut
<1>6. ASSUME OneAt0(q, n, way), ~About0(h) PROVE OneAt0(s, n, way)
  <2>1. PICK k \in 1 .. Len(q) :
          /\ About0(q[k]) /\ Way(q[k]) = way /\ q[k].n = n
          /\ \A j \in (1 .. Len(q)) \ {k} : ~About0(q[j])
    BY <1>6 DEF OneAt0
  <2>2. k # 1
    BY <1>1, <1>6, <2>1
  <2>3. k - 1 \in 1 .. Len(s) /\ s[k - 1] = q[k]
    BY <1>2, <2>1, <2>2
  <2>4. \A j \in (1 .. Len(s)) \ {k - 1} : ~About0(s[j])
    BY <1>1, <1>3, <2>1
  <2> QED
    BY <2>1, <2>3, <2>4 DEF OneAt0
<1>7. ASSUME OneAt0(q, n, way), About0(h)
      PROVE  Way(h) = way /\ h.n = n /\ NoneAt0(s)
  <2>1. PICK k \in 1 .. Len(q) :
          /\ About0(q[k]) /\ Way(q[k]) = way /\ q[k].n = n
          /\ \A j \in (1 .. Len(q)) \ {k} : ~About0(q[j])
    BY <1>7 DEF OneAt0
  <2>2. k = 1
    BY <1>1, <1>7, <2>1
  <2>3. \A j \in 1 .. Len(s) : ~About0(s[j])
    BY <1>1, <1>3, <2>1, <2>2
  <2> QED
    BY <1>1, <2>1, <2>2, <2>3 DEF NoneAt0
<1> QED
  BY <1>4, <1>5, <1>6, <1>7 DEF s, h

LEMMA PacketKinds ==
  ASSUME NEW q, NEW n, NEW way
  PROVE  /\ NoneAt0(q) => OnlyOut(q)
         /\ OneAt0(q, n, "in") => ~OnlyOut(q)
         /\ OneAt0(q, n, "out") => OnlyOut(q)
         /\ OneAt0(q, n, way) => ~NoneAt0(q)
<1>1. NoneAt0(q) => OnlyOut(q)
  BY DEF NoneAt0, OnlyOut
<1>2. OneAt0(q, n, "in") => ~OnlyOut(q)
  BY DEF OneAt0, OnlyOut, Way
<1>3. OneAt0(q, n, "out") => OnlyOut(q)
  BY DEF OneAt0, OnlyOut, Way
<1>4. OneAt0(q, n, way) => ~NoneAt0(q)
  BY DEF OneAt0, NoneAt0
<1> QED
  BY <1>1, <1>2, <1>3, <1>4

LEMMA FrontJoins ==
  ASSUME NEW q, SomeSeq(q), NEW e
  PROVE  /\ AtFront(q) /\ ~About0(e) => AtFront(Append(q, e))
         /\ ~HasSetup(q) /\ NoBus(q) => AtFront(q) /\ AtFront(Append(q, e))
<1> DEFINE s == Append(q, e)
<1>1. /\ Len(q) \in Nat /\ Len(s) = Len(q) + 1
      /\ \A k \in 1 .. Len(q) : s[k] = q[k]
      /\ s[Len(q) + 1] = e
  BY Appended
<1> HIDE DEF s
<1>2. ASSUME AtFront(q), ~About0(e) PROVE AtFront(s)
  <2> SUFFICES ASSUME NEW k \in 1 .. Len(s), About0(s[k]), NEW j \in 1 .. k - 1
               PROVE  s[j].id # "setup" /\ ~BusEvent(s[j])
    BY DEF AtFront
  <2>1. k \in 1 .. Len(q) /\ j \in 1 .. Len(q)
    BY <1>1, <1>2
  <2> QED
    BY <1>1, <1>2, <2>1 DEF AtFront
<1>3. ASSUME ~HasSetup(q), NoBus(q) PROVE AtFront(q) /\ AtFront(s)
  BY <1>1, <1>3 DEF AtFront, HasSetup, NoBus
<1> QED
  BY <1>2, <1>3 DEF s

LEMMA FrontLeaves ==
  ASSUME NEW q, SomeSeq(q), q # << >>, AtFront(q)
  PROVE  /\ AtFront(Tail(q))
         /\ Head(q).id = "setup" \/ BusEvent(Head(q)) => NoneAt0(q)
<1> DEFINE s == Tail(q)
           h == Head(q)
<1>1. /\ Len(q) \in Nat \ {0} /\ Len(s) = Len(q) - 1 /\ h = q[1]
      /\ \A k \in 1 .. Len(q) - 1 : s[k] = q[k + 1]
  BY Shortened
<1> HIDE DEF s, h
<1>2. AtFront(s)
  <2> SUFFICES ASSUME NEW k \in 1 .. Len(s), About0(s[k]), NEW j \in 1 .. k - 1
               PROVE  s[j].id # "setup" /\ ~BusEvent(s[j])
    BY DEF AtFront
  <2>1. /\ k + 1 \in 1 .. Len(q) /\ j + 1 \in 1 .. (k + 1) - 1
        /\ s[k] = q[k + 1] /\ s[j] = q[j + 1]
    BY <1>1
  <2> QED
    BY <2>1 DEF AtFront
<1>3. ASSUME h.id = "setup" \/ BusEvent(h) PROVE NoneAt0(q)
  <2> SUFFICES ASSUME NEW k \in 1 .. Len(q), About0(q[k]) PROVE FALSE
    BY DEF NoneAt0
  <2>1. k # 1
    BY <1>1, <1>3 DEF About0, BusEvent
  <2>2. 1 \in 1 .. k - 1
    BY <1>1, <2>1
  <2> QED
    BY <1>1, <1>3, <2>2 DEF AtFront
<1> QED
  BY <1>2, <1>3 DEF s, h

LEMMA PacketMoves ==
  ASSUME NEW q, SomeSeq(q)
  PROVE  /\ \A e : /\ NoneAt0(Append(q, e)) <=> (NoneAt0(q) /\ ~About0(e))
                   /\ OnlyOut(Append(q, e)) <=> (OnlyOut(q) /\ (About0(e) => ~Inward(e)))
         /\ q # << >> =>
              /\ NoneAt0(q) <=> (NoneAt0(Tail(q)) /\ ~About0(Head(q)))
              /\ OnlyOut(q) <=> (OnlyOut(Tail(q)) /\ (About0(Head(q)) => ~Inward(Head(q))))
  BY PacketJoins, PacketLeaves
-----------------------------------------------------------------------------
(***************************************************************************)
(* The stack's functions, as far as endpoint 0 is concerned.               *)
(***************************************************************************)
(* Endpoint 0 is as before, except for the request in hand.                *)
SameEp0(a, b) ==
  /\ b.address = a.address /\ b.in[0] = a.in[0] /\ b.out[0] = a.out[0]
  /\ b.stalled = a.stalled /\ b.sIn[0] = a.sIn[0]
  /\ b.queue = a.queue /\ b.setups = a.setups

Kept(a, b) == Shape(b) /\ SameEp0(a, b) /\ b.ctrl = a.ctrl

LEMMA KeptTwice ==
  ASSUME NEW a, NEW b, NEW c, Kept(a, b), Kept(b, c)
  PROVE  Kept(a, c)
  BY DEF Kept, SameEp0

LEMMA XferKept ==
  ASSUME NEW dev, Shape(dev), NEW p
  PROVE  Kept(dev, XferIn(dev, 2, p)) /\ Kept(dev, XferOut(dev, 2))
  BY DEF Kept, SameEp0, Shape, XferIn, XferOut, DcdXferIn, DcdXferOut, DeviceFields, Eps

LEMMA FlushKept ==
  ASSUME NEW dev, Shape(dev)
  PROVE  Kept(dev, Flushed(dev))
<1> DEFINE r == [dev EXCEPT !.tx = FifoRead(@, PacketSize)]
<1>1. Kept(dev, r)
  BY DEF Kept, SameEp0, Shape, DeviceFields
<1>2. Kept(dev, dev)
  BY DEF Kept, SameEp0
<1>3. Kept(r, XferIn(r, 2, FifoFirst(dev.tx, PacketSize)))
  BY <1>1, XferKept DEF Kept
<1> HIDE DEF r
<1>4. Kept(dev, XferIn(r, 2, FifoFirst(dev.tx, PacketSize)))
  BY <1>1, <1>3, KeptTwice
<1> QED
  BY <1>2, <1>4 DEF Flushed, r

LEMMA WriteKept ==
  ASSUME NEW dev, Shape(dev), NEW items
  PROVE  Kept(dev, CdcWritten(dev, items))
<1> DEFINE w == [dev EXCEPT !.tx = FifoWritten(@, items)]
<1>1. Kept(dev, w)
  BY DEF Kept, SameEp0, Shape, DeviceFields
<1>2. Kept(w, Flushed(w))
  BY <1>1, FlushKept DEF Kept
<1> HIDE DEF w
<1>3. Kept(dev, Flushed(w))
  BY <1>1, <1>2, KeptTwice
<1> QED
  BY <1>1, <1>3 DEF CdcWritten, w

LEMMA PrepKept ==
  ASSUME NEW dev, Shape(dev)
  PROVE  Kept(dev, PrepOut(dev))
<1>1. Kept(dev, dev)
  BY DEF Kept, SameEp0
<1> QED
  BY <1>1, XferKept DEF PrepOut

LEMMA SentKept ==
  ASSUME NEW dev, Shape(dev), NEW n
  PROVE  Kept(dev, CdcSent(dev, n))
<1>1. Kept(dev, dev)
  BY DEF Kept, SameEp0
<1> QED
  BY <1>1, XferKept, FlushKept DEF CdcSent

LEMMA ReceivedKept0 ==
  ASSUME NEW dev, Shape(dev), NEW n
  PROVE  Kept(dev, CdcReceived(dev, n))
<1> DEFINE r == [dev EXCEPT !.rx = Lesser(@ + n, RxDepth)]
<1>1. Kept(dev, r)
  BY DEF Kept, SameEp0, Shape, DeviceFields
<1>2. Kept(r, PrepOut(r))
  BY <1>1, PrepKept DEF Kept
<1> HIDE DEF r
<1> QED
  BY <1>1, <1>2, KeptTwice DEF CdcReceived, r

LEMMA ConfigKept ==
  ASSUME NEW dev, Shape(dev), NEW v, NEW req
  PROVE  /\ Kept(dev, ConfigurationReset(dev))
         /\ ~ConfigurationReset(dev).busyIn[0]
         /\ Kept(dev, EpCloseAll(dev))
         /\ Kept(dev, [dev EXCEPT !.cfg = v])
         /\ Kept(dev, CdcAck(dev, req))
<1>1. Kept(dev, ConfigurationReset(dev)) /\ ~ConfigurationReset(dev).busyIn[0]
  <2> DEFINE r == ConfigurationReset(dev)
  <2>1. /\ DOMAIN r = DeviceFields
        /\ r.busyIn = [e \in Eps |-> FALSE] /\ r.busyOut = [e \in Eps |-> FALSE]
    <3>0. DOMAIN r = DOMAIN dev
      BY Zenon DEF ConfigurationReset
    <3>1. DOMAIN dev = DeviceFields /\ DOMAIN r = DeviceFields
      BY <3>0 DEF Shape
    <3>2. "busyIn" \in DeviceFields /\ "busyOut" \in DeviceFields
      BY DEF DeviceFields
    <3> QED
      BY <3>1, <3>2, Zenon DEF ConfigurationReset
  <2>2. /\ r.in = dev.in /\ r.out = dev.out /\ r.sIn = dev.sIn /\ r.ctrl = dev.ctrl
        /\ r.address = dev.address /\ r.stalled = dev.stalled
        /\ r.queue = dev.queue /\ r.setups = dev.setups
    BY DEF Shape, DeviceFields, ConfigurationReset
  <2>3. DOMAIN r.busyIn = Eps /\ DOMAIN r.busyOut = Eps /\ ~r.busyIn[0]
    BY <2>1 DEF Eps
  <2> HIDE DEF r
  <2> QED
    BY <2>1, <2>2, <2>3 DEF Kept, SameEp0, Shape, r
<1>2. Kept(dev, EpCloseAll(dev))
  BY DEF Kept, SameEp0, Shape, DeviceFields, EpCloseAll, Eps
<1>3. Kept(dev, [dev EXCEPT !.cfg = v])
  BY DEF Kept, SameEp0, Shape, DeviceFields
<1>4. Kept(dev, CdcAck(dev, req))
  BY DEF Kept, SameEp0, Shape, DeviceFields, CdcAck
<1> QED
  BY <1>1, <1>2, <1>3, <1>4

LEMMA OpenKept ==
  ASSUME NEW dev, Shape(dev)
  PROVE  Kept(dev, CdcOpened(dev))
<1> DEFINE r == [dev EXCEPT !.bound = TRUE, !.open = TRUE, !.in[2] = << >>, !.out[2] = FALSE]
<1>1. Kept(dev, r)
  BY DEF Kept, SameEp0, Shape, DeviceFields, Eps
<1>2. Kept(r, PrepOut(r))
  BY <1>1, PrepKept DEF Kept
<1> HIDE DEF r
<1> QED
  BY <1>1, <1>2, KeptTwice DEF CdcOpened, r
-----------------------------------------------------------------------------
(***************************************************************************)
(* Answers and packets.                                                    *)
(***************************************************************************)
LEMMA RequestTyped ==
  ASSUME NEW req \in Requests \cup {NoRequest}
  PROVE  /\ req.len \in Nat /\ req.want \in Nat /\ req.v \in Nat
         /\ Lesser(req.len, req.want) \in Nat
         /\ Lesser(req.len, req.want) <= req.len /\ Lesser(req.len, req.want) <= req.want
<1>1. req.len \in Nat /\ req.want \in Nat /\ req.v \in Nat
  BY UsbConsoleAssumption DEF NoRequest
<1> QED
  BY <1>1 DEF Lesser

LEMMA AnswerTyped ==
  ASSUME NEW req \in Requests \cup {NoRequest}
  PROVE  /\ Answer(req) \in Seq(Bytes) /\ Len(Answer(req)) = Lesser(req.len, req.want)
         /\ Len(Answer(req)) \in Nat
<1>1. Lesser(req.len, req.want) \in Nat /\ req.len \in Nat
  BY RequestTyped
<1>2. \A k \in 1 .. Lesser(req.len, req.want) : <<req.len, k>> \in Bytes
  BY <1>1 DEF Bytes
<1>3. Answer(req) \in Seq(Bytes)
  BY <1>1, <1>2 DEF Answer
<1>4. Len(Answer(req)) = Lesser(req.len, req.want)
  BY <1>1, <1>3 DEF Answer
<1> QED
  BY <1>1, <1>3, <1>4

(* What data_stage_xact sends is always a sequence of bytes.               *)
LEMMA PartTyped ==
  ASSUME NEW req \in Requests \cup {NoRequest}, NEW total \in Nat,
         NEW len \in Nat, len <= Len(Answer(req))
  PROVE  /\ SubSeq(Answer(req), total + 1, Lesser(len, total + Ep0Size)) \in Seq(Bytes)
         /\ Len(SubSeq(Answer(req), total + 1, Lesser(len, total + Ep0Size))) \in Nat
<1> DEFINE A == Answer(req)
           hi == Lesser(len, total + Ep0Size)
<1>1. A \in Seq(Bytes) /\ Len(A) \in Nat
  BY AnswerTyped
<1>2. hi \in Nat /\ hi <= Len(A)
  BY <1>1, UsbStackAssumption DEF Lesser
<1> HIDE DEF A, hi
<1>3. CASE total + 1 > hi
  <2>1. SubSeq(A, total + 1, hi) = << >>
    BY <1>1, <1>2, <1>3, SubSeqEmpty
  <2> QED
    BY <2>1, EmptySeq DEF A, hi
<1>4. CASE ~(total + 1 > hi)
  <2>1. SubSeq(A, total + 1, hi) \in Seq(Bytes)
    BY <1>1, <1>2, <1>4, SubSeqProperties
  <2> QED
    BY <2>1, LenProperties DEF A, hi
<1> QED
  BY <1>3, <1>4

(* The packet behind `total', and the host's bytes with it.                *)
LEMMA PacketFacts ==
  ASSUME NEW req \in Requests, NEW total \in 0 .. Len(Answer(req))
  PROVE  /\ Packet(req, total) \in Seq(Bytes)
         /\ Stop(req, total) \in total .. Len(Answer(req))
         /\ Len(Packet(req, total)) = Stop(req, total) - total
         /\ Upto(req, total) \in Seq(Bytes) /\ Len(Upto(req, total)) = total
         /\ Upto(req, total) \o Packet(req, total) = Upto(req, Stop(req, total))
         /\ Len(Packet(req, total)) < Ep0Size \/ total + Ep0Size <= Len(Answer(req))
         /\ Len(Packet(req, total)) < Ep0Size => Stop(req, total) = Len(Answer(req))
         /\ Len(Packet(req, total)) <= Ep0Size
<1> DEFINE A == Answer(req)
           hi == Stop(req, total)
<1>1. A \in Seq(Bytes) /\ Len(A) \in Nat
  BY AnswerTyped
<1>2. hi \in total .. Len(A)
  BY <1>1, UsbStackAssumption DEF Stop, Lesser
<1>3. /\ hi - total < Ep0Size \/ total + Ep0Size <= Len(A)
      /\ hi - total < Ep0Size => hi = Len(A)
      /\ hi - total <= Ep0Size
  BY <1>1, UsbStackAssumption DEF Stop, Lesser
<1> HIDE DEF A, hi
<1>4. /\ SubSeq(A, total + 1, hi) \in Seq(Bytes)
      /\ Len(SubSeq(A, total + 1, hi)) = hi - total
  BY <1>1, <1>2, SubSeqProperties
<1>5. SubSeq(A, 1, total) \in Seq(Bytes) /\ Len(SubSeq(A, 1, total)) = total
  <2>1. total \in Nat /\ \A i \in 1 .. total : A[i] \in Bytes
    BY <1>1, <1>2 DEF A
  <2>2. /\ SubSeq(A, 1, total) \in Seq(Bytes)
        /\ Len(SubSeq(A, 1, total)) = IF 1 <= total THEN total - 1 + 1 ELSE 0
    BY <2>1, SubSeqProperties
  <2> QED
    BY <2>1, <2>2
<1>6. SubSeq(A, 1, total) \o SubSeq(A, total + 1, hi) = SubSeq(A, 1, hi)
  BY <1>1, <1>2, ConcatAdjacentSubSeq
<1> QED
  BY <1>2, <1>3, <1>4, <1>5, <1>6 DEF Packet, Upto, A, hi

LEMMA WholeAnswer ==
  ASSUME NEW req \in Requests
  PROVE  Upto(req, Len(Answer(req))) = Answer(req) /\ Upto(req, 0) = << >>
<1>1. Answer(req) \in Seq(Bytes)
  BY AnswerTyped
<1>2. SubSeq(Answer(req), 1, Len(Answer(req))) = Answer(req)
  BY <1>1, SubSeqFull
<1>3. SubSeq(Answer(req), 1, 0) = << >>
  BY <1>1, SubSeqEmpty
<1> QED
  BY <1>2, <1>3 DEF Upto
-----------------------------------------------------------------------------
(***************************************************************************)
(* Control transfers.                                                      *)
(***************************************************************************)
Beside0(a, b) ==
  /\ Shape(b) /\ b.address = a.address
  /\ b.queue = a.queue /\ b.setups = a.setups

LEMMA Sends0 ==
  ASSUME NEW dev, Shape(dev), NEW p
  PROVE  LET r == XferIn(dev, 0, p)
         IN /\ Beside0(dev, r) /\ r.out[0] = dev.out[0] /\ r.ctrl = dev.ctrl
            /\ r.stalled = dev.stalled
            /\ \/ dev.busyIn[0] /\ r.in[0] = dev.in[0] /\ r.sIn[0] = dev.sIn[0]
               \/ ~dev.busyIn[0] /\ r.in[0] = <<p>> /\ r.sIn[0] = Sending(p)
<1>1. CASE dev.busyIn[0]
  BY <1>1 DEF XferIn, Beside0
<1>2. CASE ~dev.busyIn[0]
  <2> DEFINE r == DcdXferIn([dev EXCEPT !.busyIn[0] = TRUE], 0, p)
  <2>1. XferIn(dev, 0, p) = r
    BY <1>2 DEF XferIn
  <2>2. Beside0(dev, r) /\ r.out[0] = dev.out[0] /\ r.ctrl = dev.ctrl /\ r.stalled = dev.stalled
    BY DEF Beside0, Shape, DcdXferIn, DeviceFields, Eps
  <2>3. r.in[0] = <<p>> /\ r.sIn[0] = Sending(p)
    BY DEF Shape, DcdXferIn, DeviceFields, Eps, Sending
  <2> HIDE DEF r
  <2> QED
    BY <1>2, <2>1, <2>2, <2>3
<1> QED
  BY <1>1, <1>2

LEMMA Receives0 ==
  ASSUME NEW dev, Shape(dev)
  PROVE  LET r == XferOut(dev, 0)
         IN /\ Beside0(dev, r) /\ r.in[0] = dev.in[0] /\ r.sIn[0] = dev.sIn[0]
            /\ r.ctrl = dev.ctrl /\ r.stalled = dev.stalled
  BY DEF XferOut, DcdXferOut, Beside0, Shape, DeviceFields, Eps

(* A status stage, for requests of either direction.                       *)
LEMMA StatusSent ==
  ASSUME NEW dev, Shape(dev)
  PROVE  LET r == StatusStage(dev)
         IN /\ Beside0(dev, r) /\ r.ctrl = dev.ctrl /\ r.stalled = dev.stalled
            /\ \/ r.in[0] = dev.in[0] /\ r.sIn[0] = dev.sIn[0]
               \/ /\ ~HostReads(dev.ctrl.req)
                  /\ r.in[0] = << << >> >> /\ r.sIn[0] = Sending(<< >>)
<1>1. CASE HostReads(dev.ctrl.req)
  BY <1>1, Receives0 DEF StatusStage
<1>2. CASE ~HostReads(dev.ctrl.req)
  BY <1>2, Sends0 DEF StatusStage
<1> QED
  BY <1>1, <1>2

Part(dev) == SubSeq(Answer(dev.ctrl.req), dev.ctrl.total + 1,
                    Lesser(dev.ctrl.len, dev.ctrl.total + Ep0Size))

LEMMA DataSent ==
  ASSUME NEW dev, Shape(dev)
  PROVE  LET r == DataStage(dev)
         IN /\ Beside0(dev, r) /\ r.ctrl = dev.ctrl /\ r.stalled = dev.stalled
            /\ HostReads(dev.ctrl.req) => r.out[0] = dev.out[0]
            /\ \/ /\ r.in[0] = dev.in[0] /\ r.sIn[0] = dev.sIn[0]
                  /\ ~HostReads(dev.ctrl.req) \/ dev.busyIn[0]
               \/ /\ HostReads(dev.ctrl.req)
                  /\ r.in[0] = <<Part(dev)>> /\ r.sIn[0] = Sending(Part(dev))
<1>1. CASE HostReads(dev.ctrl.req)
  BY <1>1, Sends0 DEF DataStage, Part
<1>2. CASE ~HostReads(dev.ctrl.req)
  BY <1>2, Receives0 DEF DataStage
<1> QED
  BY <1>1, <1>2

LEMMA SendingTyped ==
  ASSUME NEW dev, NEW p \in Seq(Bytes), dev.sIn[0] = Sending(p),
         dev.in[0] # << >> => Head(dev.in[0]) \in Seq(Bytes)
  PROVE  DriverTyped(dev)
<1>1. Len(p) \in Nat /\ (Len(p) = 0 => p = << >>) /\ Len(p) \in Wrapped .. Len(p)
  BY EmptySeq, LenProperties DEF Wrapped
<1> QED
  BY <1>1 DEF DriverTyped, Sending

LEMMA OfferTyped ==
  ASSUME NEW dev, NEW p \in Seq(Bytes), dev.sIn[0] = Sending(p), dev.in[0] = <<p>>
  PROVE  DriverTyped(dev)
<1>1. Head(dev.in[0]) \in Seq(Bytes)
  OBVIOUS
<1> QED
  BY <1>1, SendingTyped

LEMMA PartIsTyped ==
  ASSUME NEW dev, CtrlTyped(dev)
  PROVE  Part(dev) \in Seq(Bytes)
<1>1. /\ dev.ctrl.req \in Requests \cup {NoRequest} /\ dev.ctrl.total \in Nat
      /\ dev.ctrl.len = Lesser(dev.ctrl.req.len, dev.ctrl.req.want) \/ dev.ctrl.len = 0
  BY DEF CtrlTyped
<1>2. /\ Len(Answer(dev.ctrl.req)) = Lesser(dev.ctrl.req.len, dev.ctrl.req.want)
      /\ Len(Answer(dev.ctrl.req)) \in Nat
  BY <1>1, AnswerTyped
<1>3. dev.ctrl.len \in Nat /\ dev.ctrl.len <= Len(Answer(dev.ctrl.req))
  BY <1>1, <1>2
<1> QED
  BY <1>1, <1>3, PartTyped DEF Part
-----------------------------------------------------------------------------
(***************************************************************************)
(* process_control_request.                                                *)
(***************************************************************************)
CtrlFields == {"req", "len", "total", "cb"}

LEMMA CtrlSet ==
  ASSUME NEW dev, Shape(dev), NEW c, DOMAIN c = CtrlFields
  PROVE  LET r == [dev EXCEPT !.ctrl = c]
         IN /\ Shape(r) /\ SameEp0(dev, r) /\ r.ctrl = c /\ r.busyIn = dev.busyIn
            /\ Beside0(dev, r)
  BY DEF Shape, SameEp0, Beside0, DeviceFields, CtrlFields

LEMMA CbSet ==
  ASSUME NEW dev, Shape(dev), NEW b
  PROVE  LET r == [dev EXCEPT !.ctrl.cb = b]
         IN /\ Shape(r) /\ SameEp0(dev, r) /\ Beside0(dev, r) /\ r.busyIn = dev.busyIn
            /\ r.ctrl.req = dev.ctrl.req /\ r.ctrl.len = dev.ctrl.len
            /\ r.ctrl.total = dev.ctrl.total
  BY DEF Shape, SameEp0, Beside0, DeviceFields

(* A request that is not a read is acknowledged, or the endpoint stalls.   *)
Acknowledged(a, r, req) ==
  /\ Beside0(a, r) /\ r.ctrl.req = req /\ CtrlTyped(r) /\ r.stalled = a.stalled
  /\ r.in[0] \in {a.in[0], << << >> >>} /\ (req.kind = "coding" => r.in[0] = a.in[0])
  /\ r.sIn[0] \in {a.sIn[0], Sending(<< >>)}

Rejected(a, r) ==
  /\ Beside0(a, r) /\ r.stalled /\ r.in[0] = a.in[0] /\ r.out[0] = a.out[0]
  /\ r.sIn[0] = a.sIn[0]
  /\ r.ctrl.req = a.ctrl.req /\ r.ctrl.len = a.ctrl.len /\ r.ctrl.total = a.ctrl.total

LEMMA StatusAcknowledges ==
  ASSUME NEW dev, Shape(dev), NEW req \in Requests, ~HostReads(req), req.kind # "coding"
  PROVE  Acknowledged(dev, ControlStatus(dev, req), req)
<1> DEFINE c == [req |-> req, len |-> 0, total |-> 0, cb |-> dev.ctrl.cb]
           s == [dev EXCEPT !.ctrl = c]
<1>1. Shape(s) /\ SameEp0(dev, s) /\ s.ctrl = c /\ Beside0(dev, s)
  BY CtrlSet DEF CtrlFields
<1>2. c.req = req /\ c.len = 0 /\ c.total = 0
  OBVIOUS
<1> HIDE DEF c, s
<1> DEFINE r == StatusStage(s)
<1>3. /\ Beside0(s, r) /\ r.ctrl = s.ctrl /\ r.stalled = s.stalled
      /\ \/ r.in[0] = s.in[0] /\ r.sIn[0] = s.sIn[0]
         \/ r.in[0] = << << >> >> /\ r.sIn[0] = Sending(<< >>)
  BY <1>1, StatusSent
<1>4. ControlStatus(dev, req) = r
  BY DEF ControlStatus, s, c
<1> HIDE DEF r
<1>5. CtrlTyped(r)
  BY <1>1, <1>2, <1>3 DEF CtrlTyped
<1> QED
  BY <1>1, <1>2, <1>3, <1>4, <1>5 DEF Acknowledged, Beside0, SameEp0

LEMMA AckAfterKept ==
  ASSUME NEW a, NEW b, NEW r, NEW req, Kept(a, b), Acknowledged(b, r, req)
  PROVE  Acknowledged(a, r, req)
  BY DEF Kept, SameEp0, Acknowledged, Beside0

LEMMA ConfigurationAcknowledges ==
  ASSUME NEW dev, Shape(dev), NEW req \in Requests, ~HostReads(req), req.kind # "coding"
  PROVE  \/ Acknowledged(dev, SetConfiguration(dev, req), req)
         \/ Rejected(dev, SetConfiguration(dev, req))
<1> DEFINE e == EpCloseAll(dev)
           f == ConfigurationReset(e)
           cleared == IF dev.cfg # 0 THEN [f EXCEPT !.cfg = req.v]
                      ELSE [dev EXCEPT !.cfg = req.v]
<1>1. Kept(dev, cleared)
  <2>1. Kept(dev, e)
    BY ConfigKept
  <2>2. Kept(e, f)
    BY <2>1, ConfigKept DEF Kept
  <2>3. Kept(f, [f EXCEPT !.cfg = req.v])
    BY <2>2, ConfigKept DEF Kept
  <2>4. Kept(dev, [dev EXCEPT !.cfg = req.v])
    BY ConfigKept
  <2> HIDE DEF e, f
  <2>5. Kept(dev, [f EXCEPT !.cfg = req.v])
    BY <2>1, <2>2, <2>3, KeptTwice
  <2> QED
    BY <2>4, <2>5
<1>2. SetConfiguration(dev, req) =
        IF dev.cfg = req.v THEN ControlStatus(dev, req)
        ELSE IF req.v = 0 THEN ControlStatus(cleared, req)
        ELSE IF cleared.bound THEN StalledEp0([cleared EXCEPT !.cfg = 0])
        ELSE ControlStatus(CdcOpened(cleared), req)
  BY DEF SetConfiguration
<1> HIDE DEF cleared
<1>3. Acknowledged(dev, ControlStatus(dev, req), req)
  BY StatusAcknowledges
<1>4. Acknowledged(dev, ControlStatus(cleared, req), req)
  BY <1>1, StatusAcknowledges, AckAfterKept DEF Kept
<1>5. Rejected(dev, StalledEp0([cleared EXCEPT !.cfg = 0]))
  <2> DEFINE z == [cleared EXCEPT !.cfg = 0]
  <2>1. Kept(cleared, z)
    BY <1>1, ConfigKept DEF Kept
  <2> HIDE DEF z
  <2>2. Kept(dev, z)
    BY <1>1, <2>1, KeptTwice
  <2> QED
    BY <2>2 DEF Kept, SameEp0, Rejected, Beside0, StalledEp0, Shape, DeviceFields, z
<1>6. Acknowledged(dev, ControlStatus(CdcOpened(cleared), req), req)
  <2>1. Kept(cleared, CdcOpened(cleared))
    BY <1>1, OpenKept DEF Kept
  <2>2. Kept(dev, CdcOpened(cleared))
    BY <1>1, <2>1, KeptTwice
  <2> QED
    BY <2>2, StatusAcknowledges, AckAfterKept DEF Kept
<1> QED
  BY <1>2, <1>3, <1>4, <1>5, <1>6

LEMMA RequestRead ==
  ASSUME NEW dev, Shape(dev), ~dev.busyIn[0], NEW req \in Requests, req.kind = "get"
  PROVE  LET r == ControlRequest(dev, req)
         IN /\ Beside0(dev, r) /\ r.stalled = dev.stalled /\ r.out[0] = dev.out[0]
            /\ r.ctrl.req = req /\ r.ctrl.len = Len(Answer(req)) /\ r.ctrl.total = 0
            /\ r.in[0] = <<Packet(req, 0)>> /\ r.sIn[0] = Sending(Packet(req, 0))
<1> DEFINE n == [dev EXCEPT !.ctrl.cb = FALSE]
           c == [req |-> req, len |-> Lesser(req.len, req.want),
                 total |-> 0, cb |-> n.ctrl.cb]
           s == [n EXCEPT !.ctrl = c]
           r == DataStage(s)
<1>1. Shape(n) /\ SameEp0(dev, n) /\ Beside0(dev, n) /\ n.busyIn = dev.busyIn
  BY CbSet
<1> HIDE DEF n
<1>2. DOMAIN c = CtrlFields
  BY DEF CtrlFields
<1>4. c.req = req /\ c.len = Lesser(req.len, req.want) /\ c.total = 0
  OBVIOUS
<1>3. Shape(s) /\ SameEp0(n, s) /\ s.ctrl = c /\ Beside0(n, s) /\ s.busyIn = n.busyIn
  <2> HIDE DEF c
  <2> QED
    BY <1>1, <1>2, CtrlSet
<1>5. Len(Answer(req)) = Lesser(req.len, req.want)
  BY AnswerTyped
<1>6. ControlRequest(dev, req) = r
  <2>1. ControlRequest(dev, req) = ControlXfer(n, req)
    BY DEF ControlRequest, n
  <2>2. req.want > 0
    BY UsbConsoleAssumption
  <2> QED
    BY <2>1, <2>2 DEF ControlXfer
<1> HIDE DEF c, s
<1>7. HostReads(s.ctrl.req) /\ ~s.busyIn[0]
  BY <1>1, <1>3, <1>4 DEF HostReads
<1>8. Part(s) = Packet(req, 0)
  BY <1>3, <1>4, <1>5 DEF Part, Packet, Stop
<1>9. /\ Beside0(s, r) /\ r.ctrl = s.ctrl /\ r.stalled = s.stalled /\ r.out[0] = s.out[0]
      /\ r.in[0] = <<Part(s)>> /\ r.sIn[0] = Sending(Part(s))
  BY <1>3, <1>7, DataSent
<1> HIDE DEF r
<1> QED
  BY <1>1, <1>3, <1>4, <1>5, <1>6, <1>8, <1>9 DEF Beside0, SameEp0

LEMMA RequestOther ==
  ASSUME NEW dev, Shape(dev), NEW req \in Requests, req.kind # "get"
  PROVE  \/ Acknowledged(dev, ControlRequest(dev, req), req)
         \/ Rejected(dev, ControlRequest(dev, req))
<1> DEFINE n == [dev EXCEPT !.ctrl.cb = FALSE]
           c == [dev EXCEPT !.ctrl.cb = TRUE]
<1>0. ~HostReads(req)
  BY DEF HostReads
<1>1. /\ Shape(n) /\ SameEp0(dev, n) /\ Beside0(dev, n)
      /\ n.ctrl.req = dev.ctrl.req /\ n.ctrl.len = dev.ctrl.len
      /\ n.ctrl.total = dev.ctrl.total
  BY CbSet
<1>2. Shape(c) /\ SameEp0(dev, c) /\ Beside0(dev, c)
  BY CbSet
<1>3. ControlRequest(dev, req) =
        CASE req.kind = "get" -> ControlXfer(n, req)
          [] req.kind = "addr" -> BeginSetAddress(n, req)
          [] req.kind = "cfg" -> SetConfiguration(n, req)
          [] req.kind = "line" /\ dev.bound -> ControlStatus(c, req)
          [] req.kind = "coding" /\ dev.bound -> ControlXfer(c, req)
          [] OTHER -> StalledEp0(n)
  BY DEF ControlRequest
<1> HIDE DEF n, c
<1>4. ASSUME req.kind = "addr" PROVE Acknowledged(dev, BeginSetAddress(n, req), req)
  <2> DEFINE z == [req |-> req, len |-> 0, total |-> 0, cb |-> FALSE]
             s == [n EXCEPT !.ctrl = z]
             r == [s EXCEPT !.in[0] = << << >> >>]
  <2>1. Shape(s) /\ SameEp0(n, s) /\ s.ctrl = z /\ Beside0(n, s)
    BY <1>1, CtrlSet DEF CtrlFields
  <2>2. z.req = req /\ z.len = 0 /\ z.total = 0
    OBVIOUS
  <2>3. BeginSetAddress(n, req) = r
    BY DEF BeginSetAddress
  <2> HIDE DEF z, s
  <2>4. /\ Beside0(s, r) /\ r.ctrl = s.ctrl /\ r.stalled = s.stalled
        /\ r.in[0] = << << >> >> /\ r.sIn[0] = s.sIn[0]
    BY <2>1 DEF Shape, Beside0, DeviceFields, Eps
  <2> HIDE DEF r
  <2>5. CtrlTyped(r)
    BY <2>1, <2>2, <2>4 DEF CtrlTyped
  <2> QED
    BY <1>1, <1>4, <2>1, <2>2, <2>3, <2>4, <2>5 DEF Acknowledged, Beside0, SameEp0
<1>5. ASSUME req.kind = "cfg"
      PROVE  \/ Acknowledged(dev, SetConfiguration(n, req), req)
             \/ Rejected(dev, SetConfiguration(n, req))
  <2>1. \/ Acknowledged(n, SetConfiguration(n, req), req)
        \/ Rejected(n, SetConfiguration(n, req))
    BY <1>0, <1>1, <1>5, ConfigurationAcknowledges
  <2> QED
    BY <1>1, <2>1 DEF Acknowledged, Rejected, Beside0, SameEp0
<1>6. ASSUME req.kind = "line" PROVE Acknowledged(dev, ControlStatus(c, req), req)
  <2>1. Acknowledged(c, ControlStatus(c, req), req)
    BY <1>0, <1>2, <1>6, StatusAcknowledges
  <2> QED
    BY <1>2, <2>1 DEF Acknowledged, Beside0, SameEp0
<1>7. ASSUME req.kind = "coding" PROVE Acknowledged(dev, ControlXfer(c, req), req)
  <2> DEFINE z == [req |-> req, len |-> Lesser(req.len, req.want),
                   total |-> 0, cb |-> c.ctrl.cb]
             s == [c EXCEPT !.ctrl = z]
             r == DataStage(s)
  <2>1. Shape(s) /\ SameEp0(c, s) /\ s.ctrl = z /\ Beside0(c, s)
    BY <1>2, CtrlSet DEF CtrlFields
  <2>2. z.req = req /\ z.len = Lesser(req.len, req.want) /\ z.total = 0
    OBVIOUS
  <2>3. req.want > 0
    BY <1>7, UsbConsoleAssumption
  <2>4. ControlXfer(c, req) = r
    BY <2>3 DEF ControlXfer
  <2> HIDE DEF z, s
  <2>5. /\ Beside0(s, r) /\ r.ctrl = s.ctrl /\ r.stalled = s.stalled
        /\ r.in[0] = s.in[0] /\ r.sIn[0] = s.sIn[0]
    BY <1>0, <2>1, <2>2, DataSent
  <2> HIDE DEF r
  <2>6. CtrlTyped(r)
    BY <2>1, <2>2, <2>5 DEF CtrlTyped
  <2> QED
    BY <1>2, <2>1, <2>2, <2>4, <2>5, <2>6 DEF Acknowledged, Beside0, SameEp0
<1>8. Rejected(dev, StalledEp0(n))
  BY <1>1 DEF Rejected, Beside0, SameEp0, StalledEp0, Shape, DeviceFields
<1> QED
  BY <1>3, <1>4, <1>5, <1>6, <1>7, <1>8
-----------------------------------------------------------------------------
(***************************************************************************)
(* usbd_control_xfer_cb.                                                   *)
(***************************************************************************)
AddressedBy(dev, dir, n) == dir = "in" /\ n = 0 /\ dev.ctrl.req.kind = "addr"

(* Whatever packet was reported, the stack keeps its request, and only the *)
(* end of a SET_ADDRESS changes the address.                               *)
Progressed(a, r, dir, n) ==
  /\ Shape(r) /\ DriverTyped(r) /\ CtrlTyped(r)
  /\ r.queue = a.queue /\ r.setups = a.setups /\ r.ctrl.req = a.ctrl.req
  /\ r.address = IF AddressedBy(a, dir, n) THEN a.ctrl.req.v ELSE a.address

LEMMA StatusProgress ==
  ASSUME NEW dev, Shape(dev), DriverTyped(dev), CtrlTyped(dev), NEW n, NEW dir,
         (dir = "in") # HostReads(dev.ctrl.req), dir \in {"in", "out"}
  PROVE  /\ Progressed(dev, StatusComplete(dev, n), dir, n)
         /\ StatusComplete(dev, n).in[0] = dev.in[0]
         /\ StatusComplete(dev, n).out[0] = dev.out[0]
         /\ StatusComplete(dev, n).stalled = dev.stalled
         /\ StatusComplete(dev, n).sIn[0] = dev.sIn[0]
<1> DEFINE req == dev.ctrl.req
           named == IF req.kind = "addr" THEN [dev EXCEPT !.address = req.v] ELSE dev
<1>1. /\ Shape(named) /\ named.in = dev.in /\ named.sIn = dev.sIn /\ named.ctrl = dev.ctrl
      /\ named.out = dev.out /\ named.stalled = dev.stalled
      /\ named.queue = dev.queue /\ named.setups = dev.setups
      /\ named.address = IF req.kind = "addr" THEN req.v ELSE dev.address
  BY DEF Shape, DeviceFields
<1>2. StatusComplete(dev, n) =
        IF n # 0 THEN dev ELSE IF dev.ctrl.cb THEN CdcAck(named, req) ELSE named
  BY DEF StatusComplete
<1>3. req.kind = "addr" => dir = "in"
  BY DEF HostReads
<1> HIDE DEF named, req
<1>4. Kept(named, CdcAck(named, req))
  BY <1>1, ConfigKept
<1>5. n # 0 => ~AddressedBy(dev, dir, n)
  BY DEF AddressedBy
<1>6. n = 0 => (AddressedBy(dev, dir, n) <=> req.kind = "addr")
  BY <1>3 DEF AddressedBy, req
<1>7. CASE n # 0
  BY <1>2, <1>5, <1>7 DEF Progressed
<1>8. CASE n = 0
  <2>1. PICK r : r = StatusComplete(dev, n) /\ (r = CdcAck(named, req) \/ r = named)
    BY <1>2, <1>8
  <2>2. /\ Shape(r) /\ r.in[0] = dev.in[0] /\ r.sIn[0] = dev.sIn[0] /\ r.ctrl = dev.ctrl
        /\ r.out[0] = dev.out[0] /\ r.stalled = dev.stalled
        /\ r.queue = dev.queue /\ r.setups = dev.setups
        /\ r.address = IF req.kind = "addr" THEN req.v ELSE dev.address
    BY <1>1, <1>4, <2>1 DEF Kept, SameEp0
  <2>3. DriverTyped(r) /\ CtrlTyped(r)
    BY <2>2 DEF DriverTyped, CtrlTyped
  <2> QED
    BY <1>6, <1>8, <2>1, <2>2, <2>3 DEF Progressed, req
<1> QED
  BY <1>7, <1>8

(* The data stage: the account of the transfer first.                      *)
LEMMA DataProgress ==
  ASSUME NEW dev, Shape(dev), DriverTyped(dev), CtrlTyped(dev), NEW n \in Nat, NEW dir,
         ~AddressedBy(dev, dir, n)
  PROVE  LET r == DataComplete(dev, n)
             c == [dev EXCEPT !.ctrl.total = @ + n]
             ends == dev.ctrl.total + n = dev.ctrl.req.want \/ n < Ep0Size
         IN /\ Progressed(dev, r, dir, n) /\ r.stalled = dev.stalled
            /\ r.ctrl.len = dev.ctrl.len /\ r.ctrl.total = dev.ctrl.total + n
            /\ ~HostReads(dev.ctrl.req) => r.in[0] \in {dev.in[0], << << >> >>}
            /\ HostReads(dev.ctrl.req) /\ ends => r.in[0] = dev.in[0]
            /\ HostReads(dev.ctrl.req) /\ ~ends /\ ~dev.busyIn[0] =>
                 /\ r.in[0] = <<Part(c)>> /\ r.sIn[0] = Sending(Part(c))
                 /\ r.out[0] = dev.out[0]
<1> DEFINE r == DataComplete(dev, n)
           c == [dev EXCEPT !.ctrl.total = @ + n]
           ends == dev.ctrl.total + n = dev.ctrl.req.want \/ n < Ep0Size
<1>1. /\ Shape(c) /\ SameEp0(dev, c) /\ c.busyIn = dev.busyIn
      /\ c.ctrl.req = dev.ctrl.req /\ c.ctrl.len = dev.ctrl.len
      /\ c.ctrl.total = dev.ctrl.total + n
  BY DEF Shape, SameEp0, DeviceFields
<1>2. r = IF ends THEN StatusStage(c) ELSE DataStage(c)
  BY <1>1 DEF DataComplete
<1> HIDE DEF c, r
<1>3. CtrlTyped(c) /\ DriverTyped(c)
  BY <1>1 DEF CtrlTyped, DriverTyped, SameEp0
<1>4. Part(c) \in Seq(Bytes) /\ << >> \in Seq(Bytes)
  BY <1>3, PartIsTyped, EmptySeq
<1>5. CASE ends
  <2>1. /\ Beside0(c, r) /\ r.ctrl = c.ctrl /\ r.stalled = c.stalled
        /\ \/ r.in[0] = c.in[0] /\ r.sIn[0] = c.sIn[0]
           \/ /\ ~HostReads(c.ctrl.req)
              /\ r.in[0] = << << >> >> /\ r.sIn[0] = Sending(<< >>)
    BY <1>1, <1>2, <1>5, StatusSent
  <2>2. DriverTyped(r)
    <3>1. CASE r.in[0] = c.in[0] /\ r.sIn[0] = c.sIn[0]
      BY <1>3, <3>1 DEF DriverTyped
    <3>2. CASE r.in[0] = << << >> >> /\ r.sIn[0] = Sending(<< >>)
      BY <1>4, <3>2, OfferTyped
    <3> QED
      BY <2>1, <3>1, <3>2
  <2>3. CtrlTyped(r)
    BY <1>3, <2>1 DEF CtrlTyped
  <2>4. Progressed(dev, r, dir, n)
    BY <1>1, <2>1, <2>2, <2>3 DEF Progressed, Beside0, SameEp0
  <2> QED
    BY <1>1, <1>5, <2>1, <2>4 DEF SameEp0, r
<1>6. CASE ~ends
  <2>1. /\ Beside0(c, r) /\ r.ctrl = c.ctrl /\ r.stalled = c.stalled
        /\ HostReads(c.ctrl.req) => r.out[0] = c.out[0]
        /\ \/ /\ r.in[0] = c.in[0] /\ r.sIn[0] = c.sIn[0]
              /\ ~HostReads(c.ctrl.req) \/ c.busyIn[0]
           \/ /\ HostReads(c.ctrl.req)
              /\ r.in[0] = <<Part(c)>> /\ r.sIn[0] = Sending(Part(c))
    BY <1>1, <1>2, <1>6, DataSent
  <2>2. DriverTyped(r)
    <3>1. CASE r.in[0] = c.in[0] /\ r.sIn[0] = c.sIn[0]
      BY <1>3, <3>1 DEF DriverTyped
    <3>2. CASE r.in[0] = <<Part(c)>> /\ r.sIn[0] = Sending(Part(c))
      BY <1>4, <3>2, OfferTyped
    <3> QED
      BY <2>1, <3>1, <3>2
  <2>3. CtrlTyped(r)
    BY <1>3, <2>1 DEF CtrlTyped
  <2>4. Progressed(dev, r, dir, n)
    BY <1>1, <2>1, <2>2, <2>3 DEF Progressed, Beside0, SameEp0
  <2> QED
    BY <1>1, <1>6, <2>1, <2>4 DEF SameEp0, r, c
<1> QED
  BY <1>5, <1>6

LEMMA CallbackProgress ==
  ASSUME NEW dev, Shape(dev), DriverTyped(dev), CtrlTyped(dev), NEW n \in Nat,
         NEW dir \in {"in", "out"}
  PROVE  Progressed(dev, ControlXferCb(dev, dir, n), dir, n)
<1>1. CASE (dir = "in") # HostReads(dev.ctrl.req)
  BY <1>1, StatusProgress DEF ControlXferCb
<1>2. CASE (dir = "in") = HostReads(dev.ctrl.req)
  <2>1. ~AddressedBy(dev, dir, n)
    BY <1>2 DEF AddressedBy, HostReads
  <2>2. Progressed(dev, dev, dir, n)
    BY <2>1 DEF Progressed
  <2>3. Progressed(dev, DataComplete(dev, n), dir, n)
    BY <2>1, DataProgress
  <2> QED
    BY <1>2, <2>2, <2>3 DEF ControlXferCb
<1> QED
  BY <1>1, <1>2
-----------------------------------------------------------------------------
(***************************************************************************)
(* Steps that say nothing about endpoint 0.                                *)
(***************************************************************************)
Noise(e) == ~About0(e) /\ ~BusEvent(e) /\ e.id # "setup"

(* Queue r is like queue q but for noise.                                  *)
LikeQueue(q, r) ==
  /\ HasSetup(r) <=> HasSetup(q)
  /\ Covered(q) => Covered(r)
  /\ \A req : Latest(q, req) => Latest(r, req)
  /\ NoBus(q) => NoBus(r)
  /\ NoneAt0(q) => NoneAt0(r)
  /\ OnlyOut(q) => OnlyOut(r)
  /\ \A n, way : OneAt0(q, n, way) => OneAt0(r, n, way)
  /\ AtFront(q) => AtFront(r)

LEMMA NoiseJoins ==
  ASSUME NEW q, SomeSeq(q), NEW e, Noise(e)
  PROVE  LikeQueue(q, Append(q, e))
<1>1. \A req : /\ HasSetup(Append(q, e)) <=> (HasSetup(q) \/ e.id = "setup")
               /\ Covered(q) /\ ~BusEvent(e) => Covered(Append(q, e))
               /\ Latest(q, req) /\ e.id # "setup" => Latest(Append(q, e), req)
               /\ NoBus(Append(q, e)) <=> (NoBus(q) /\ ~BusEvent(e))
  BY SetupJoins
<1>2. \A n, way : /\ NoneAt0(Append(q, e)) <=> (NoneAt0(q) /\ ~About0(e))
                  /\ OnlyOut(Append(q, e)) <=> (OnlyOut(q) /\ (About0(e) => ~Inward(e)))
                  /\ OneAt0(q, n, way) /\ ~About0(e) => OneAt0(Append(q, e), n, way)
  BY PacketJoins
<1>3. AtFront(q) /\ ~About0(e) => AtFront(Append(q, e))
  BY FrontJoins
<1> QED
  BY <1>1, <1>2, <1>3, Zenon DEF LikeQueue, Noise

LEMMA NoiseLeaves ==
  ASSUME NEW q, SomeSeq(q), q # << >>, Noise(Head(q))
  PROVE  LikeQueue(q, Tail(q))
<1>1. \A req : /\ HasSetup(q) <=> (HasSetup(Tail(q)) \/ Head(q).id = "setup")
               /\ Covered(q) => Covered(Tail(q))
               /\ Latest(q, req) => Latest(Tail(q), req)
               /\ NoBus(q) <=> (NoBus(Tail(q)) /\ ~BusEvent(Head(q)))
  BY SetupLeaves
<1>2. \A n, way : /\ NoneAt0(q) <=> (NoneAt0(Tail(q)) /\ ~About0(Head(q)))
                  /\ OnlyOut(q) <=> (OnlyOut(Tail(q)) /\ (About0(Head(q)) => ~Inward(Head(q))))
                  /\ OneAt0(q, n, way) /\ ~About0(Head(q)) => OneAt0(Tail(q), n, way)
  BY PacketLeaves
<1>3. AtFront(q) => AtFront(Tail(q))
  BY FrontLeaves
<1> QED
  BY <1>1, <1>2, <1>3, Zenon DEF LikeQueue, Noise

LEMMA SameQueue ==
  ASSUME NEW q
  PROVE  LikeQueue(q, q)
  BY Zenon DEF LikeQueue

HostView == <<host.stage, host.req, host.got, host.address, host.done, host.hurried>>

LEMMA NoisyStep ==
  ASSUME UsbInv, Core', PumpsApart', HostView' = HostView,
         LikeQueue(events, events'), LikeQueue(d.queue, d'.queue),
         d'.address = d.address, d'.in[0] = d.in[0], d'.out[0] = d.out[0],
         d'.stalled = d.stalled, d'.sIn[0] = d.sIn[0], d'.ctrl = d.ctrl
  PROVE  UsbInv'
<1>1. /\ host'.stage = host.stage /\ host'.req = host.req /\ host'.got = host.got
      /\ host'.address = host.address /\ host'.done = host.done
  BY DEF HostView
<1>2. /\ HasSetup(events') <=> HasSetup(events)
      /\ HasSetup(d'.queue) <=> HasSetup(d.queue)
      /\ SetupPending' <=> SetupPending
  BY DEF LikeQueue, SetupPending
<1>3. /\ Covered(events) => Covered(events')
      /\ Covered(d.queue) => Covered(d'.queue)
      /\ Latest(events, host.req) => Latest(events', host.req)
      /\ Latest(d.queue, host.req) => Latest(d'.queue, host.req)
      /\ NoBus(events) => NoBus(events')
      /\ NoBus(d.queue) => NoBus(d'.queue)
  BY Zenon DEF LikeQueue
<1>4. /\ NoneAt0(events) => NoneAt0(events')
      /\ NoneAt0(d.queue) => NoneAt0(d'.queue)
      /\ OnlyOut(events) => OnlyOut(events')
      /\ OnlyOut(d.queue) => OnlyOut(d'.queue)
      /\ Silent0 => Silent0'
  BY Zenon DEF LikeQueue, Silent0
<1>5. \A n, way : /\ OneAt0(events, n, way) => OneAt0(events', n, way)
                  /\ OneAt0(d.queue, n, way) => OneAt0(d'.queue, n, way)
  BY Zenon DEF LikeQueue
<1>6. QueuesInv'
  BY <1>1, <1>2, <1>3 DEF QueuesInv, UsbInv
<1>7. Closing => Closing'
  <2>1. AtFront(events) => AtFront(events')
    BY Zenon DEF LikeQueue
  <2>2. AtFront(d.queue) => AtFront(d'.queue)
    BY Zenon DEF LikeQueue
  <2> QED
    BY <1>2, <1>3, <1>4, <1>5, <2>1, <2>2 DEF Closing
<1>8. Agreed <=> Agreed'
  BY <1>1 DEF Agreed
<1>9. PendingInv'
  BY <1>1, <1>2, <1>4, <1>7, <1>8 DEF PendingInv, Quiet0, Begun, UsbInv
<1>10. DoneInv'
  BY <1>1, <1>2, <1>3, <1>4, <1>7, <1>8 DEF DoneInv, UsbInv
<1>11. TransferInv'
  <2> SUFFICES ASSUME host.stage # "none", ~SetupPending
               PROVE  (Refused \/ Reading \/ Writing)'
    BY <1>1, <1>2 DEF TransferInv
  <2>1. Refused \/ Reading \/ Writing
    BY DEF UsbInv, TransferInv
  <2>2. CASE Refused
    BY <1>1, <1>4, <2>2 DEF Refused, Begun
  <2>3. CASE Reading
    <3> DEFINE p == Packet(host.req, d.ctrl.total)
    <3>1. p' = p
      BY <1>1, Zenon
    <3> HIDE DEF p
    <3>2. Offered(p) => Offered(p)'
      BY <1>1, <1>4, <3>1 DEF Offered
    <3>3. Taken(p) => Taken(p)'
      BY <1>1, <1>4, <1>5, <3>1 DEF Taken
    <3>4. AllRead => AllRead'
      BY <1>1, <1>4 DEF AllRead
    <3>5. Offered(p) \/ Taken(p) \/ AllRead
      BY <2>3 DEF Reading, p
    <3> QED
      BY <1>1, <2>3, <3>1, <3>2, <3>3, <3>4, <3>5 DEF Reading, p
  <2>4. CASE Writing
    <3>1. Given => Given'
      BY <1>1, <1>4, <1>5 DEF Given
    <3> QED
      BY <1>1, <1>4, <2>4, <3>1 DEF Writing
  <2> QED
    BY <2>1, <2>2, <2>3, <2>4
<1>12. AddressInv'
  <2>1. Naming => Naming'
    BY <1>2, <1>3, <1>4, <1>5 DEF Naming
  <2>2. Misled => Misled'
    BY <1>2, <1>4 DEF Misled
  <2> QED
    BY <1>1, <1>4, <2>1, <2>2 DEF AddressInv, UsbInv
<1> QED
  BY <1>6, <1>9, <1>10, <1>11, <1>12 DEF UsbInv

LEMMA OneMore ==
  ASSUME NEW a \in Nat, NEW b \in Nat, NEW c \in Nat, a + b < c
  PROVE  a + 1 + b <= c
  OBVIOUS

LEMMA OneMoved ==
  ASSUME NEW x \in Nat, NEW y \in Nat, NEW c \in Nat, x + y <= c,
         NEW a, NEW b, a = x - 1, b = y \/ b = y + 1
  PROVE  a + b <= c
  OBVIOUS

LEMMA TypedJoins ==
  ASSUME NEW q, SomeSeq(q), NEW e
  PROVE  /\ (\A k \in 1 .. Len(q) : EventTyped(q[k])) /\ EventTyped(e)
              => \A k \in 1 .. Len(Append(q, e)) : EventTyped(Append(q, e)[k])
         /\ (\A k \in 1 .. Len(q) : QueuedTyped(q[k])) /\ QueuedTyped(e)
              => \A k \in 1 .. Len(Append(q, e)) : QueuedTyped(Append(q, e)[k])
<1>1. /\ Len(q) \in Nat /\ Len(Append(q, e)) = Len(q) + 1
      /\ \A k \in 1 .. Len(q) : Append(q, e)[k] = q[k]
      /\ Append(q, e)[Len(q) + 1] = e
  BY Appended
<1>2. \A k \in 1 .. Len(Append(q, e)) : k \in 1 .. Len(q) \/ k = Len(q) + 1
  BY <1>1
<1> QED
  BY <1>1, <1>2, Zenon

LEMMA TypedLeaves ==
  ASSUME NEW q, SomeSeq(q), q # << >>
  PROVE  /\ (\A k \in 1 .. Len(q) : EventTyped(q[k]))
              => /\ EventTyped(Head(q))
                 /\ \A k \in 1 .. Len(Tail(q)) : EventTyped(Tail(q)[k])
         /\ (\A k \in 1 .. Len(q) : QueuedTyped(q[k]))
              => /\ QueuedTyped(Head(q))
                 /\ \A k \in 1 .. Len(Tail(q)) : QueuedTyped(Tail(q)[k])
<1>1. /\ Len(q) \in Nat \ {0} /\ Len(Tail(q)) = Len(q) - 1 /\ Head(q) = q[1]
      /\ \A k \in 1 .. Len(q) - 1 : Tail(q)[k] = q[k + 1]
  BY Shortened
<1>2. /\ 1 \in 1 .. Len(q)
      /\ \A k \in 1 .. Len(Tail(q)) : k + 1 \in 1 .. Len(q) /\ Tail(q)[k] = q[k + 1]
  BY <1>1
<1> QED
  BY <1>1, <1>2, Zenon

(* A step on other fields of the device leaves its part of the types.      *)
LEMMA KeptTyped ==
  ASSUME UsbTyped, Shape(d'), d'.sIn[0] = d.sIn[0], d'.ctrl = d.ctrl,
         d'.in[0] = d.in[0] \/ d'.in[0] = << >>
  PROVE  Shape(d') /\ DriverTyped(d') /\ CtrlTyped(d')
  BY DEF UsbTyped, DriverTyped, CtrlTyped

LEMMA QuietStep ==
  ASSUME Core, Kept(d, d'), UNCHANGED <<events, host>>,
         pc' \in {"pump", "task", "stream"}, PumpsApart => PumpsApart'
  PROVE  Core' /\ (UsbInv => UsbInv')
<1>1. UsbTyped'
  BY KeptTyped DEF Core, UsbTyped, Kept, SameEp0, HostTyped
<1>2. HostView' = HostView
  BY DEF HostView
<1>3. Counted'
  BY DEF Core, Counted, Kept, SameEp0
<1>4. LikeQueue(events, events') /\ LikeQueue(d.queue, d'.queue)
  BY SameQueue DEF Kept, SameEp0
<1>5. Core'
  BY <1>1, <1>3 DEF Core
<1>6. ASSUME UsbInv PROVE UsbInv'
  <2>1. PumpsApart'
    BY <1>6 DEF UsbInv, QueuesInv
  <2> QED
    BY <1>2, <1>4, <1>5, <1>6, <2>1, NoisyStep DEF Kept, SameEp0
<1> QED
  BY <1>5, <1>6

LEMMA LoopIdles ==
  ASSUME Core, PumpNone \/ TaskNone \/ Stream \/ Log
  PROVE  Core' /\ (UsbInv => UsbInv')
<1>1. Shape(d) /\ pc \in {"pump", "task", "stream"}
  BY DEF Core, UsbTyped
<1>2. Kept(d, d)
  BY <1>1 DEF Kept, SameEp0
<1>3. CASE PumpNone
  <2>1. UNCHANGED <<d, events, host>> /\ events = << >> /\ pc' = "task"
    BY <1>3 DEF PumpNone
  <2>2. PumpsApart'
    BY <2>1, EmptyIsSeq DEF PumpsApart, HasSetup
  <2> QED
    BY <1>2, <2>1, <2>2, QuietStep
<1>4. CASE TaskNone
  <2>1. UNCHANGED <<d, events, host>> /\ d.queue = << >> /\ pc' = "stream"
    BY <1>4 DEF TaskNone
  <2>2. PumpsApart'
    BY <2>1, EmptyIsSeq DEF PumpsApart, HasSetup
  <2> QED
    BY <1>2, <2>1, <2>2, QuietStep
<1>5. CASE Stream
  <2>1. UNCHANGED <<events, host>> /\ pc' = "pump"
    BY <1>5 DEF Stream
  <2>2. PumpsApart'
    BY <2>1 DEF PumpsApart
  <2>3. Kept(d, d')
    <3> DEFINE w == CdcWritten(d, [k \in 1 .. Chunk |-> sent + k])
    <3>1. Kept(d, w)
      BY <1>1, WriteKept
    <3>2. Kept(w, Flushed(w))
      BY <3>1, FlushKept DEF Kept
    <3>3. d' = d \/ d' = Flushed(w)
      BY <1>5 DEF Stream
    <3> HIDE DEF w
    <3> QED
      BY <1>2, <3>1, <3>2, <3>3, KeptTwice
  <2> QED
    BY <2>1, <2>2, <2>3, QuietStep
<1>6. CASE Log
  <2>1. UNCHANGED <<d, events, pc, host>>
    BY <1>6 DEF Log
  <2>2. PumpsApart => PumpsApart'
    BY <2>1 DEF PumpsApart
  <2> QED
    BY <1>1, <1>2, <2>1, <2>2, QuietStep
<1> QED
  BY <1>3, <1>4, <1>5, <1>6

(* The controller adds an event.                                           *)
LEMMA Reported ==
  ASSUME Core, NEW ev, EventTyped(ev), Report(ev), pc' = pc,
         d'.queue = d.queue, d'.setups = d.setups,
         Shape(d'), DriverTyped(d'), CtrlTyped(d'), HostTyped'
  PROVE  /\ Core'
         /\ events' = Append(events, ev) /\ SomeSeq(events) /\ SomeSeq(d.queue)
<1>1. SomeSeq(events) /\ SomeSeq(d.queue)
  BY DEF Core, UsbTyped
<1>2. events' = Append(events, ev) /\ Len(events) + Len(d.queue) < CtlDepth
  BY DEF Report, Room
<1>4. /\ SomeSeq(events') /\ Len(events') = Len(events) + 1 /\ Len(events) \in Nat
      /\ Len(d.queue) \in Nat
  BY <1>1, <1>2, Appended DEF SomeSeq
<1>5. \A k \in 1 .. Len(events') : EventTyped(events'[k])
  BY <1>1, <1>2, TypedJoins DEF Core, UsbTyped
<1>6. UsbTyped'
  <2>2. SomeSeq(d'.queue) /\ \A k \in 1 .. Len(d'.queue) : QueuedTyped(d'.queue[k])
    BY DEF Core, UsbTyped
  <2>3. pc' \in {"pump", "task", "stream"}
    BY DEF Core, UsbTyped
  <2> QED
    BY <1>4, <1>5, <2>2, <2>3 DEF UsbTyped
<1>7. Counted'
  <2>1. CtlDepth \in Nat
    BY UsbConsoleAssumption, UsbStackAssumption
  <2>2. d.setups = Cardinality(SetupsIn(d.queue))
    BY DEF Core, Counted
  <2>3. d'.setups = Cardinality(SetupsIn(d'.queue))
    BY <2>2, Zenon
  <2>4. Len(events) + 1 + Len(d.queue) <= CtlDepth
    BY <1>2, <1>4, <2>1, OneMore
  <2>5. Len(events') + Len(d'.queue) <= CtlDepth
    BY <1>4, <2>4, Zenon
  <2> QED
    BY <2>3, <2>5 DEF Counted
<1> QED
  BY <1>1, <1>2, <1>6, <1>7 DEF Core

(* The host, or the port, adds an event of no concern to endpoint 0.       *)
LEMMA NoiseReported ==
  ASSUME Core, NEW ev, EventTyped(ev), Noise(ev), Report(ev),
         Kept(d, d'), pc' = pc, HostView' = HostView, DOMAIN host' = DOMAIN host
  PROVE  Core' /\ (UsbInv => UsbInv')
<1>1. /\ d'.queue = d.queue /\ d'.setups = d.setups /\ Shape(d')
      /\ d'.address = d.address /\ d'.in[0] = d.in[0] /\ d'.out[0] = d.out[0]
      /\ d'.stalled = d.stalled /\ d'.sIn[0] = d.sIn[0] /\ d'.ctrl = d.ctrl
  BY DEF Kept, SameEp0
<1>2. HostTyped'
  BY DEF HostView, HostTyped, Core, UsbTyped
<1>3. Shape(d') /\ DriverTyped(d') /\ CtrlTyped(d')
  BY <1>1, KeptTyped DEF Core
<1>4. /\ Core' /\ events' = Append(events, ev) /\ SomeSeq(events) /\ SomeSeq(d.queue)
  BY <1>1, <1>2, <1>3, Reported
<1>5. LikeQueue(events, events') /\ LikeQueue(d.queue, d'.queue)
  BY <1>1, <1>4, NoiseJoins, SameQueue
<1>6. ASSUME UsbInv PROVE UsbInv'
  <2>1. PumpsApart'
    BY <1>1, <1>5, <1>6 DEF PumpsApart, UsbInv, QueuesInv, LikeQueue
  <2> QED
    BY <1>1, <1>4, <1>5, <1>6, <2>1, NoisyStep
<1> QED
  BY <1>4, <1>6

LEMMA PortSteps ==
  ASSUME Core, HostSuspend \/ HostResume \/ TakeIn2 \/ \E n \in OutSizes : GiveOut2(n)
  PROVE  Core' /\ (UsbInv => UsbInv')
<1>1. Shape(d) /\ DOMAIN host = HostFields
  BY DEF Core, UsbTyped, HostTyped
<1>2. Kept(d, d)
  BY <1>1 DEF Kept, SameEp0
<1>3. CASE HostSuspend
  <2> DEFINE ev == [id |-> "suspend"]
  <2>1. Report(ev) /\ d' = d /\ pc' = pc /\ host' = [host EXCEPT !.asleep = TRUE]
    BY <1>3 DEF HostSuspend
  <2>2. HostView' = HostView /\ DOMAIN host' = DOMAIN host
    BY <1>1, <2>1 DEF HostView, HostFields
  <2>3. EventTyped(ev) /\ Noise(ev)
    BY DEF EventTyped, Noise, About0, BusEvent
  <2> HIDE DEF ev
  <2> QED
    BY <1>2, <2>1, <2>2, <2>3, NoiseReported
<1>4. CASE HostResume
  <2> DEFINE ev == [id |-> "resume"]
  <2>1. Report(ev) /\ d' = d /\ pc' = pc /\ host' = [host EXCEPT !.asleep = FALSE]
    BY <1>4 DEF HostResume
  <2>2. HostView' = HostView /\ DOMAIN host' = DOMAIN host
    BY <1>1, <2>1 DEF HostView, HostFields
  <2>3. EventTyped(ev) /\ Noise(ev)
    BY DEF EventTyped, Noise, About0, BusEvent
  <2> HIDE DEF ev
  <2> QED
    BY <1>2, <2>1, <2>2, <2>3, NoiseReported
<1>5. CASE TakeIn2
  <2> DEFINE n == Len(Head(d.in[2]))
             ev == [id |-> "in", ep |-> 2, n |-> n]
  <2>1. PICK last, ended :
          /\ Report(ev) /\ d' = [d EXCEPT !.in[2] = << >>] /\ pc' = pc
          /\ host' = [host EXCEPT !.last = last, !.ended = ended]
    BY <1>5, Zenon DEF TakeIn2
  <2>2. HostView' = HostView /\ DOMAIN host' = DOMAIN host
    BY <1>1, <2>1 DEF HostView, HostFields
  <2>3. EventTyped(ev) /\ Noise(ev)
    BY DEF EventTyped, Noise, About0, BusEvent, Eps
  <2>4. Kept(d, d')
    BY <1>1, <2>1 DEF Kept, SameEp0, Shape, DeviceFields, Eps
  <2> HIDE DEF ev
  <2> QED
    BY <2>1, <2>2, <2>3, <2>4, NoiseReported
<1>6. CASE \E n \in OutSizes : GiveOut2(n)
  <2>0. PICK n \in OutSizes : GiveOut2(n)
    BY <1>6
  <2> DEFINE ev == [id |-> "out", ep |-> 2, n |-> n]
  <2>1. /\ Report(ev) /\ d' = [d EXCEPT !.out[2] = FALSE] /\ pc' = pc
        /\ host' = [host EXCEPT !.wrote = @ + n]
    BY <2>0, Zenon DEF GiveOut2
  <2>2. HostView' = HostView /\ DOMAIN host' = DOMAIN host
    BY <1>1, <2>1 DEF HostView, HostFields
  <2>3. EventTyped(ev) /\ Noise(ev)
    BY DEF EventTyped, Noise, About0, BusEvent, Eps
  <2>4. Kept(d, d')
    BY <1>1, <2>1 DEF Kept, SameEp0, Shape, DeviceFields, Eps
  <2> HIDE DEF ev
  <2> QED
    BY <2>1, <2>2, <2>3, <2>4, NoiseReported
<1> QED
  BY <1>3, <1>4, <1>5, <1>6

(* The host drops its transfer.                                            *)
LEMMA HostLetsGo ==
  ASSUME Core, HostGiveUp \/ HostStalled
  PROVE  Core' /\ (UsbInv => UsbInv')
<1>1. UNCHANGED <<d, events, pc>> /\ host.stage # "none" /\ host' = Abandoned
  BY DEF HostGiveUp, HostStalled
<1>2. DOMAIN host = HostFields
  BY DEF Core, UsbTyped, HostTyped
<1>3. /\ DOMAIN host' = HostFields /\ host'.stage = "none" /\ host'.address = host.address
      /\ host'.done = host.done /\ host'.hurried = host.hurried
  BY <1>1, <1>2 DEF HostFields, Abandoned
<1>4. ~host.done
  BY <1>1 DEF Core, UsbTyped, HostTyped
<1>5. UsbTyped'
  BY <1>1, <1>3 DEF Core, UsbTyped, HostTyped
<1>6. Core'
  BY <1>1, <1>5 DEF Core, Counted
<1>7. ASSUME UsbInv PROVE UsbInv'
  <2>1. QueuesInv' /\ TransferInv' /\ DoneInv'
    BY <1>1, <1>3, <1>4, <1>7
    DEF UsbInv, QueuesInv, PumpsApart, TransferInv, DoneInv
  <2>2. PendingInv'
    <3>1. Silent0' = Silent0 /\ Closing' = Closing /\ SetupPending' = SetupPending
      BY <1>1 DEF Silent0, Closing, SetupPending
    <3> QED
      BY <1>1, <1>3, <1>7, <3>1 DEF UsbInv, PendingInv, Quiet0
  <2>3. AddressInv'
    BY <1>1, <1>3, <1>7 DEF UsbInv, AddressInv
  <2> QED
    BY <1>6, <2>1, <2>2, <2>3 DEF UsbInv
<1> QED
  BY <1>6, <1>7

LEMMA InitIsInv ==
  UsbInit => UsbInv
<1> SUFFICES ASSUME UsbInit PROVE UsbInv
  OBVIOUS
<1>1. d = StartedDevice /\ events = << >> /\ pc = "pump" /\ host = IdleHost
  BY DEF UsbInit
<1>2. /\ Shape(d) /\ d.sIn[0] = IdleIn /\ d.ctrl = NoCtrl /\ d.queue = << >>
      /\ d.setups = 0 /\ d.address = 0 /\ d.in[0] = << >>
  BY <1>1 DEF StartedDevice, Shape, DeviceFields, Eps, NoCtrl, IdleIn
<1>3. /\ DOMAIN host = HostFields /\ host.stage = "none" /\ host.address = 0
      /\ host.done = FALSE /\ host.hurried = FALSE
  BY <1>1 DEF IdleHost, HostFields
<1>4. DriverTyped(d) /\ CtrlTyped(d)
  <2>1. << >> \in Seq(Bytes) /\ Len(<< >>) = 0
    BY EmptySeq
  <2> QED
    BY <1>2, <2>1 DEF DriverTyped, CtrlTyped, IdleIn, NoCtrl, NoRequest, Lesser, Wrapped
<1>5. SomeSeq(<< >>) /\ Len(<< >>) = 0
  BY EmptyIsSeq
<1>6. UsbTyped
  <2>1. HostTyped
    BY <1>3 DEF HostTyped
  <2>2. /\ SomeSeq(events) /\ SomeSeq(d.queue)
        /\ \A k \in 1 .. Len(events) : EventTyped(events[k])
        /\ \A k \in 1 .. Len(d.queue) : QueuedTyped(d.queue[k])
    BY <1>1, <1>2, <1>5
  <2> QED
    BY <1>1, <1>2, <1>4, <2>1, <2>2 DEF UsbTyped
<1>7. SetupsIn(d.queue) = {} /\ Cardinality(SetupsIn(d.queue)) = 0
  BY <1>2, <1>5, FS_EmptySet DEF SetupsIn
<1>8. ~HasSetup(events) /\ ~HasSetup(d.queue)
  BY <1>1, <1>2, <1>5 DEF HasSetup
<1>9. QueuesInv /\ Counted
  BY <1>1, <1>2, <1>3, <1>5, <1>7, UsbConsoleAssumption, UsbStackAssumption
  DEF QueuesInv, PumpsApart, Counted
<1>10. PendingInv /\ TransferInv /\ AddressInv /\ DoneInv
  BY <1>3, <1>8 DEF PendingInv, TransferInv, AddressInv, DoneInv, SetupPending
<1> QED
  BY <1>6, <1>9, <1>10 DEF UsbInv, Core
-----------------------------------------------------------------------------
(***************************************************************************)
(* Steps of the host that concern endpoint 0.                              *)
(***************************************************************************)
LEMMA QuiescedFacts ==
  ASSUME UsbTyped, d' = Quiesced
  PROVE  /\ Shape(d') /\ DriverTyped(d') /\ CtrlTyped(d')
         /\ d'.queue = d.queue /\ d'.setups = d.setups
         /\ d'.in[0] = << >> /\ ~d'.out[0] /\ ~d'.stalled /\ d'.address = 0
         /\ d'.sIn[0] = d.sIn[0] /\ d'.ctrl = d.ctrl
<1>0. Shape(d)
  BY DEF UsbTyped
<1>1. /\ DOMAIN d' = DeviceFields
      /\ d'.in = [e \in Eps |-> << >>] /\ d'.out = [e \in Eps |-> FALSE]
      /\ d'.stalled = FALSE /\ d'.address = 0 /\ d'.queue = d.queue
      /\ d'.setups = d.setups /\ d'.sIn = d.sIn /\ d'.ctrl = d.ctrl
      /\ d'.busyIn = d.busyIn /\ d'.busyOut = d.busyOut
  BY <1>0 DEF Quiesced, Shape, DeviceFields
<1>2. DOMAIN d'.in = Eps /\ DOMAIN d'.out = Eps /\ d'.in[0] = << >> /\ ~d'.out[0]
  BY <1>1 DEF Eps
<1>3. Shape(d')
  BY <1>0, <1>1, <1>2 DEF Shape
<1> QED
  BY <1>1, <1>2, <1>3, KeptTyped

LEMMA BusGoesDown ==
  ASSUME Core, HostReset \/ HostUnplug
  PROVE  Core' /\ (UsbInv => UsbInv')
<1> DEFINE AtRest == /\ DOMAIN host' = HostFields /\ host'.stage = "none"
                     /\ host'.address = 0 /\ host'.done = FALSE
                     /\ host'.hurried = host.hurried
<1>1. PICK ev : /\ Report(ev) /\ ev.id \in {"reset", "unplugged"}
                /\ d' = Quiesced /\ pc' = pc /\ AtRest
  <2>1. CASE HostReset
    <3> DEFINE ev == [id |-> "reset"]
    <3>1. Report(ev) /\ ev.id \in {"reset", "unplugged"} /\ d' = Quiesced /\ pc' = pc
      BY <2>1 DEF HostReset
    <3>2. AtRest
      BY <2>1 DEF HostReset, IdleHost, HostFields
    <3> QED
      BY <3>1, <3>2
  <2>2. CASE HostUnplug
    <3> DEFINE ev == [id |-> "unplugged"]
    <3>1. Report(ev) /\ ev.id \in {"reset", "unplugged"} /\ d' = Quiesced /\ pc' = pc
      BY <2>2 DEF HostUnplug
    <3>2. AtRest
      BY <2>2 DEF HostUnplug, IdleHost, HostFields
    <3> QED
      BY <3>1, <3>2
  <2> QED
    BY <2>1, <2>2
<1>2. AtRest
  BY <1>1
<1>3. HostTyped'
  BY <1>2 DEF HostTyped, Core, UsbTyped
<1>4. /\ Shape(d') /\ DriverTyped(d') /\ CtrlTyped(d')
      /\ d'.queue = d.queue /\ d'.setups = d.setups
      /\ d'.in[0] = << >> /\ ~d'.out[0] /\ ~d'.stalled /\ d'.address = 0
      /\ d'.sIn[0] = d.sIn[0] /\ d'.ctrl = d.ctrl
  BY <1>1, QuiescedFacts DEF Core
<1>5. EventTyped(ev) /\ ~About0(ev) /\ ev.id # "setup"
  BY <1>1 DEF EventTyped, About0
<1>6. Core' /\ events' = Append(events, ev) /\ SomeSeq(events) /\ SomeSeq(d.queue)
  BY <1>1, <1>3, <1>4, <1>5, Reported
<1>7. ASSUME UsbInv PROVE UsbInv'
  <2>1. HasSetup(events') <=> HasSetup(events)
    BY <1>5, <1>6, SetupJoins
  <2>2. /\ NoneAt0(events) => NoneAt0(events')
        /\ \A n, way : OneAt0(events, n, way) => OneAt0(events', n, way)
    BY <1>5, <1>6, PacketJoins
  <2>3. AtFront(events) => AtFront(events')
    BY <1>5, <1>6, FrontJoins
  <2>4. QueuesInv'
    BY <1>1, <1>2, <1>4, <1>7, <2>1 DEF PumpsApart, UsbInv, QueuesInv
  <2>5. (Silent0 => Silent0') /\ (Closing => Closing')
    BY <1>4, <2>2, <2>3 DEF Silent0, Closing
  <2>6. PendingInv'
    BY <1>2, <1>4, <1>7, <2>1, <2>5 DEF PendingInv, UsbInv, SetupPending, Quiet0
  <2>7. TransferInv' /\ AddressInv' /\ DoneInv'
    BY <1>2 DEF TransferInv, AddressInv, DoneInv
  <2> QED
    BY <1>6, <2>4, <2>6, <2>7 DEF UsbInv
<1> QED
  BY <1>6, <1>7

(* A transfer that is not hurried starts from what the types say and from  *)
(* what does not wait, or behind the end of one that was not.              *)
LEMMA SetupSent ==
  ASSUME Core, NEW req \in Requests, HostSetup(req)
  PROVE  /\ Core' /\ host'.hurried = ~Unhurried
         /\ Unhurried /\ (host.hurried \/ UsbInv) => UsbInv'
<1> DEFINE ev == [id |-> "setup", req |-> req]
<1>1. /\ Report(ev) /\ pc' = pc /\ host.address = d.address /\ host.stage = "none"
      /\ d' = [d EXCEPT !.in[0] = << >>, !.out[0] = FALSE, !.stalled = FALSE]
      /\ host' = [host EXCEPT !.req = req, !.got = << >>,
                              !.hurried = ~Unhurried, !.done = FALSE,
                              !.stage = IF req.kind = "get" THEN "in"
                                        ELSE IF req.kind = "coding" THEN "out" ELSE "status"]
  BY Zenon DEF HostSetup
<1>2. ev.id = "setup" /\ ev.req = req
  OBVIOUS
<1> HIDE DEF ev
<1>3. /\ Shape(d) /\ SomeSeq(events) /\ SomeSeq(d.queue) /\ DOMAIN host = HostFields
      /\ \A k \in 1 .. Len(events) : EventTyped(events[k])
      /\ \A k \in 1 .. Len(d.queue) : QueuedTyped(d.queue[k])
  BY DEF Core, UsbTyped, HostTyped
<1>4. /\ Shape(d') /\ d'.in[0] = << >> /\ ~d'.out[0] /\ ~d'.stalled
      /\ d'.queue = d.queue /\ d'.setups = d.setups /\ d'.address = d.address
      /\ d'.sIn[0] = d.sIn[0] /\ d'.ctrl = d.ctrl
  BY <1>1, <1>3 DEF Shape, DeviceFields, Eps
<1>5. DriverTyped(d') /\ CtrlTyped(d')
  BY <1>4, KeptTyped DEF Core
<1>6. /\ DOMAIN host' = HostFields /\ host'.req = req /\ host'.got = << >>
      /\ host'.stage = FirstStage(req) /\ host'.address = host.address
      /\ host'.done = FALSE /\ host'.hurried = ~Unhurried
  BY <1>1, <1>3 DEF HostFields, FirstStage
<1>7. HostTyped' /\ host'.stage # "none"
  BY <1>6 DEF HostTyped, FirstStage
<1>8. EventTyped(ev) /\ ~About0(ev)
  BY <1>2 DEF EventTyped, About0
<1>9. Core' /\ events' = Append(events, ev)
  BY <1>1, <1>4, <1>5, <1>7, <1>8, Reported
<1>10. ASSUME Unhurried, host.hurried \/ UsbInv PROVE UsbInv'
  <2>1. DOMAIN events = 1 .. Len(events) /\ DOMAIN d.queue = 1 .. Len(d.queue)
    BY <1>3, LenProperties DEF SomeSeq
  <2>2. ~HasSetup(d.queue)
    BY <1>10, <2>1 DEF Unhurried, HasSetup
  <2>3. NoneWaits => Silent0
    <3>1. NoneWaits => NoneAt0(events)
      BY <1>3, <2>1 DEF NoneWaits, NoneAt0, About0, EventTyped
    <3>2. NoneWaits => NoneAt0(d.queue)
      BY <1>3, <2>1 DEF NoneWaits, NoneAt0, About0, QueuedTyped
    <3> QED
      BY <3>1, <3>2 DEF Silent0
  <2>4. Silent0 \/ (Closing /\ Agreed /\ d.sIn[0].remaining = 0)
    <3>1. ASSUME host.done, d.sIn[0].remaining = 0
          PROVE  Silent0 \/ (Closing /\ Agreed /\ d.sIn[0].remaining = 0)
      BY <1>10, <3>1 DEF Core, UsbTyped, HostTyped, UsbInv, DoneInv
    <3> QED
      BY <1>10, <2>3, <3>1 DEF Unhurried
  <2>5. HasSetup(events') /\ Covered(events') /\ Latest(events', req)
    BY <1>2, <1>3, <1>9, SetupJoins
  <2>6. /\ NoneAt0(events) => NoneAt0(events')
        /\ OnlyOut(events) => OnlyOut(events')
        /\ \A n, way : OneAt0(events, n, way) => OneAt0(events', n, way)
    BY <1>3, <1>8, <1>9, PacketJoins
  <2>7. AtFront(events) => AtFront(events')
    BY <1>3, <1>8, <1>9, FrontJoins
  <2>8. (Silent0 => Silent0') /\ (Closing => Closing') /\ (Agreed => Agreed')
    BY <1>4, <1>6, <2>6, <2>7 DEF Silent0, Closing, Agreed
  <2>9. QueuesInv'
    BY <1>4, <1>6, <2>2, <2>5 DEF QueuesInv, PumpsApart
  <2>10. PendingInv'
    BY <1>4, <1>6, <2>4, <2>8 DEF PendingInv, Quiet0, Begun
  <2>11. TransferInv' /\ DoneInv'
    BY <1>6, <2>5 DEF TransferInv, DoneInv, SetupPending
  <2>12. Silent0 => OnlyOut(events') /\ OnlyOut(d'.queue)
    BY <1>4, <2>6, PacketKinds DEF Silent0
  <2>13. AddressInv'
    BY <1>1, <1>4, <1>6, <1>7, <2>4, <2>12 DEF AddressInv, Agreed
  <2> QED
    BY <1>9, <2>9, <2>10, <2>11, <2>13 DEF UsbInv
<1> QED
  BY <1>6, <1>9, <1>10

(* A transfer under way on endpoint 0.                                     *)
LEMMA UnderWay ==
  ASSUME UsbInv, host.stage # "none", d.in[0] # << >> \/ d.out[0]
  PROVE  /\ ~SetupPending /\ host.req \in Requests /\ host.address = d.address
         /\ Reading \/ Writing
         /\ Covered(events) /\ Latest(events, host.req)
         /\ Covered(d.queue) /\ Latest(d.queue, host.req)
         /\ NoBus(events) /\ NoBus(d.queue)
<1>1. ~SetupPending
  BY DEF UsbInv, PendingInv
<1>2. ~Refused
  BY DEF Refused
<1>3. Reading \/ Writing
  BY <1>1, <1>2 DEF UsbInv, TransferInv
<1>4. ~HasSetup(events) /\ ~HasSetup(d.queue)
  BY <1>1 DEF SetupPending
<1>5. /\ Covered(events) /\ Latest(events, host.req)
      /\ Covered(d.queue) /\ Latest(d.queue, host.req)
  BY <1>4 DEF UsbInv, QueuesInv
<1>6. NoBus(events) /\ NoBus(d.queue)
  BY <1>4, <1>5, CoveredQuiet DEF UsbInv, Core, UsbTyped
<1>7. host.req \in Requests /\ host.address = d.address
  BY DEF UsbInv, Core, UsbTyped, HostTyped, AddressInv
<1> QED
  BY <1>1, <1>3, <1>5, <1>6, <1>7

(* ... and a packet on it, in either direction.                            *)
LEMMA PacketReported ==
  ASSUME UsbInv, NEW ev, events' = Append(events, ev), ev.id \in {"in", "out"},
         host.stage # "none", d.in[0] # << >> \/ d.out[0],
         pc' = pc, d'.queue = d.queue, host'.stage = "none" \/ host'.req = host.req
  PROVE  /\ QueuesInv' /\ ~SetupPending' /\ PendingInv'
         /\ NoBus(events') /\ NoBus(d'.queue) /\ AtFront(events')
<1>1. /\ ~SetupPending /\ NoBus(events) /\ NoBus(d.queue)
      /\ Covered(events) /\ Latest(events, host.req)
      /\ Covered(d.queue) /\ Latest(d.queue, host.req)
  BY UnderWay
<1>2. ~BusEvent(ev) /\ ev.id # "setup" /\ SomeSeq(events)
  BY DEF BusEvent, UsbInv, Core, UsbTyped
<1>3. /\ HasSetup(events') <=> HasSetup(events)
      /\ Covered(events') /\ Latest(events', host.req) /\ NoBus(events')
  BY <1>1, <1>2, SetupJoins
<1>4. ~SetupPending' /\ AtFront(events')
  BY <1>1, <1>2, <1>3, FrontJoins DEF SetupPending
<1>5. QueuesInv'
  BY <1>1, <1>3, <1>4 DEF QueuesInv, PumpsApart, SetupPending
<1>6. PendingInv'
  BY <1>4 DEF PendingInv
<1> QED
  BY <1>1, <1>3, <1>4, <1>5, <1>6

(* Behind the last packet of a transfer.                                   *)
LEMMA EndReported ==
  ASSUME Silent0, NEW ev, events' = Append(events, ev), SomeSeq(events),
         About0(ev), ev.n = 0, Way(ev) = IF HostReads(d.ctrl.req) THEN "out" ELSE "in",
         ~SetupPending', NoBus(events'), NoBus(d'.queue), AtFront(events'),
         d'.queue = d.queue, d'.ctrl = d.ctrl, Agreed'
  PROVE  DoneInv'
<1> DEFINE way == IF HostReads(d.ctrl.req) THEN "out" ELSE "in"
<1>1. OneAt0(events', 0, way) /\ NoneAt0(d'.queue)
  BY PacketJoins DEF Silent0
<1>2. ~HasSetup(d'.queue) /\ way' = way
  BY DEF SetupPending
<1> HIDE DEF way
<1>3. Closing'
  BY <1>1, <1>2 DEF Closing, way
<1> QED
  BY <1>3 DEF DoneInv

LEMMA HostTakes ==
  ASSUME Core, TakeIn0
  PROVE  Core' /\ (UsbInv => UsbInv')
<1> DEFINE p == Head(d.in[0])
           ev == [id |-> "in", ep |-> 0, n |-> Len(p)]
<1>1. /\ d.in[0] # << >> /\ ~d.stalled /\ Report(ev) /\ pc' = pc
      /\ d' = [d EXCEPT !.in[0] = << >>]
      /\ host.stage = "in" \/ (host.stage = "status" /\ ~HostReads(host.req))
      /\ host' = IF host.stage = "status" THEN IF p = << >> THEN Finished ELSE Abandoned
                 ELSE [host EXCEPT !.got = host.got \o p,
                        !.stage = IF Len(p) < Ep0Size \/ Len(host.got \o p) >= host.req.want
                                  THEN "status" ELSE "in"]
  BY Zenon DEF TakeIn0
<1>2. ev.id = "in" /\ ev.ep = 0 /\ ev.n = Len(p)
  OBVIOUS
<1>3. p \in Seq(Bytes)
  BY <1>1 DEF Core, UsbTyped, DriverTyped
<1> HIDE DEF ev, p
<1>4. /\ Shape(d) /\ DOMAIN host = HostFields /\ host.stage # "none" /\ ~host.done
      /\ host.req \in Requests /\ host.hurried \in BOOLEAN /\ host.done \in BOOLEAN
  BY <1>1 DEF Core, UsbTyped, HostTyped
<1>5. /\ Shape(d') /\ d'.in[0] = << >> /\ d'.out[0] = d.out[0] /\ d'.stalled = d.stalled
      /\ d'.queue = d.queue /\ d'.setups = d.setups /\ d'.address = d.address
      /\ d'.sIn[0] = d.sIn[0] /\ d'.ctrl = d.ctrl
  BY <1>1, <1>4 DEF Shape, DeviceFields, Eps
<1>6. About0(ev) /\ Inward(ev) /\ EventTyped(ev)
  BY <1>2, <1>3 DEF About0, Inward, EventTyped, Eps
<1>7. HostTyped'
  <2>1. CASE host.stage = "status"
    BY <1>1, <1>4, <2>1 DEF HostTyped, Finished, Abandoned, HostFields
  <2>2. CASE host.stage # "status"
    <3>1. /\ DOMAIN host' = HostFields /\ host'.stage \in {"status", "in"}
          /\ host'.req = host.req /\ host'.done = host.done /\ host'.hurried = host.hurried
      BY <1>1, <1>4, <2>2 DEF HostFields
    <3> QED
      BY <1>4, <3>1 DEF HostTyped
  <2> QED
    BY <2>1, <2>2
<1>8. DriverTyped(d') /\ CtrlTyped(d')
  BY <1>5, KeptTyped DEF Core
<1>9. Core' /\ events' = Append(events, ev) /\ SomeSeq(events) /\ SomeSeq(d.queue)
  BY <1>1, <1>5, <1>6, <1>7, <1>8, Reported
<1> SUFFICES ASSUME UsbInv PROVE UsbInv'
  BY <1>9
<1>10. host.address = d.address /\ (Reading \/ Writing) /\ ~SetupPending
  BY <1>1, <1>4, UnderWay
<1>11. ASSUME host'.stage = "none" \/ host'.req = host.req
       PROVE  /\ QueuesInv' /\ ~SetupPending' /\ PendingInv'
              /\ NoBus(events') /\ NoBus(d'.queue) /\ AtFront(events')
  BY <1>1, <1>2, <1>4, <1>5, <1>9, <1>11, PacketReported
<1>12. CASE Reading
  <2> DEFINE total == d.ctrl.total
             stop == Stop(host.req, total)
  <2>1. /\ host.req.kind = "get" /\ d.ctrl.req = host.req
        /\ d.ctrl.len = Len(Answer(host.req)) /\ total \in 0 .. Len(Answer(host.req))
        /\ Offered(Packet(host.req, total))
    BY <1>1, <1>12 DEF Reading, Taken, AllRead
  <2>2. /\ p = Packet(host.req, total) /\ host.stage = "in" /\ ~d.out[0]
        /\ host.got = Upto(host.req, total) /\ d.sIn[0] = Sending(p) /\ Silent0
    BY <2>1 DEF Offered, p
  <2>3. /\ stop \in total .. Len(Answer(host.req))
        /\ Len(p) = stop - total /\ host.got \o p = Upto(host.req, stop)
    BY <1>4, <2>1, <2>2, PacketFacts
  <2>4. /\ Len(Answer(host.req)) \in Nat /\ host.req.want \in Nat
        /\ Len(Answer(host.req)) <= host.req.want
    BY <1>4, AnswerTyped, RequestTyped DEF Lesser
  <2>5. Len(host.got \o p) = stop
    <3>1. stop \in 0 .. Len(Answer(host.req))
      BY <2>1, <2>3, <2>4
    <3> QED
      BY <1>4, <2>3, <3>1, PacketFacts
  <2>6. stop >= host.req.want <=> stop = host.req.want
    BY <2>1, <2>3, <2>4
  <2>7. /\ host'.req = host.req /\ host'.done = host.done
        /\ host'.address = host.address /\ host'.got = Upto(host.req, stop)
        /\ host'.stage = IF Len(p) < Ep0Size \/ stop = host.req.want THEN "status" ELSE "in"
    BY <1>1, <1>4, <2>2, <2>3, <2>5, <2>6 DEF HostFields
  <2>8. QueuesInv' /\ ~SetupPending' /\ PendingInv' /\ host'.stage # "none"
    BY <1>11, <2>7
  <2>9. OneAt0(events', Len(p), "in") /\ NoneAt0(d'.queue)
    BY <1>2, <1>5, <1>6, <1>9, <2>2, PacketJoins DEF Silent0, Way
  <2>10. /\ Packet(host'.req, d'.ctrl.total) = p
         /\ Stop(host'.req, d'.ctrl.total) = stop
    BY <1>5, <2>2, <2>7, Zenon
  <2>11. Reading'
    <3>1. Taken(Packet(host.req, d.ctrl.total))'
      BY <1>5, <2>2, <2>7, <2>9, <2>10 DEF Taken
    <3> QED
      BY <1>5, <2>1, <2>7, <3>1 DEF Reading
  <2>12. TransferInv' /\ AddressInv' /\ DoneInv'
    BY <1>4, <1>5, <1>10, <2>1, <2>7, <2>8, <2>11 DEF TransferInv, AddressInv, DoneInv
  <2> QED
    BY <1>9, <2>8, <2>12 DEF UsbInv
<1>13. CASE Writing
  <2>1. /\ host.req.kind # "get" /\ d.ctrl.req = host.req /\ host.stage = "status"
        /\ d.in[0] = << << >> >> /\ Silent0
    BY <1>1, <1>13 DEF Writing
  <2>2. p = << >> /\ Len(p) = 0
    BY <2>1, EmptyIsSeq DEF p
  <2>3. /\ host'.stage = "none"
        /\ host'.address = IF host.req.kind = "addr" THEN host.req.v ELSE host.address
    BY <1>1, <1>4, <2>1, <2>2 DEF Finished, Abandoned, HostFields
  <2>4. /\ QueuesInv' /\ ~SetupPending' /\ PendingInv'
        /\ NoBus(events') /\ NoBus(d'.queue) /\ AtFront(events')
    BY <1>11, <2>3
  <2>5. Way(ev) = "in" /\ ~HostReads(d.ctrl.req) /\ Agreed'
    BY <1>5, <1>6, <2>1, <2>3 DEF Way, HostReads, Agreed
  <2>6. DoneInv'
    BY <1>2, <1>5, <1>6, <1>9, <2>1, <2>2, <2>4, <2>5, EndReported
  <2>7. TransferInv'
    BY <2>3 DEF TransferInv
  <2>8. AddressInv'
    <3>1. CASE host.req.kind = "addr"
      <4>1. OneAt0(events', 0, "in") /\ NoneAt0(d'.queue)
        BY <1>2, <1>5, <1>6, <1>9, <2>1, <2>2, <2>5, PacketJoins DEF Silent0
      <4>2. Naming'
        BY <1>5, <2>1, <2>4, <3>1, <4>1 DEF Naming
      <4> QED
        BY <1>5, <2>1, <2>3, <3>1, <4>2 DEF AddressInv
    <3>2. CASE host.req.kind # "addr"
      BY <1>5, <1>10, <2>1, <2>3, <3>2 DEF AddressInv
    <3> QED
      BY <3>1, <3>2
  <2> QED
    BY <1>9, <2>4, <2>6, <2>7, <2>8 DEF UsbInv
<1> QED
  BY <1>10, <1>12, <1>13

LEMMA HostGives ==
  ASSUME Core, GiveOut0
  PROVE  Core' /\ (UsbInv => UsbInv')
<1>1. /\ d.out[0] /\ ~d.stalled /\ pc' = pc /\ d' = [d EXCEPT !.out[0] = FALSE]
      /\ host.stage # "none"
  BY DEF GiveOut0
<1>2. /\ Shape(d) /\ DOMAIN host = HostFields /\ host.req \in Requests /\ ~host.done
      /\ host.hurried \in BOOLEAN /\ host.done \in BOOLEAN
  BY <1>1 DEF Core, UsbTyped, HostTyped
<1>3. /\ Shape(d') /\ d'.in[0] = d.in[0] /\ d'.stalled = d.stalled
      /\ d'.queue = d.queue /\ d'.setups = d.setups /\ d'.address = d.address
      /\ d'.sIn[0] = d.sIn[0] /\ d'.ctrl = d.ctrl
  BY <1>1, <1>2 DEF Shape, DeviceFields, Eps
<1>4. DriverTyped(d') /\ CtrlTyped(d')
  BY <1>3, KeptTyped DEF Core
<1>5. host.req.want \in Nat
  BY <1>2, RequestTyped
<1>6. UsbInv => host.address = d.address /\ (Reading \/ Writing)
  BY <1>1, UnderWay
<1>7. ASSUME host.stage = "out",
             Report([id |-> "out", ep |-> 0, n |-> host.req.want]),
             host' = [host EXCEPT !.stage = "status"]
      PROVE  Core' /\ (UsbInv => UsbInv')
  <2> DEFINE ev == [id |-> "out", ep |-> 0, n |-> host.req.want]
  <2>1. ev.id = "out" /\ ev.ep = 0 /\ ev.n = host.req.want /\ Report(ev)
    BY <1>7
  <2> HIDE DEF ev
  <2>2. /\ DOMAIN host' = HostFields /\ host'.stage = "status" /\ host'.req = host.req
        /\ host'.got = host.got /\ host'.address = host.address
        /\ host'.done = host.done /\ host'.hurried = host.hurried
    BY <1>2, <1>7 DEF HostFields
  <2>3. HostTyped'
    BY <1>2, <2>2 DEF HostTyped
  <2>4. EventTyped(ev) /\ About0(ev) /\ Way(ev) = "out"
    BY <1>5, <2>1 DEF EventTyped, Eps, About0, Way, Inward
  <2>5. Core' /\ events' = Append(events, ev) /\ SomeSeq(events) /\ SomeSeq(d.queue)
    BY <1>1, <1>3, <1>4, <2>1, <2>3, <2>4, Reported
  <2>6. ASSUME UsbInv PROVE UsbInv'
    <3>1. Writing /\ host.req.kind = "coding" /\ d.in[0] = << >> /\ Silent0
      BY <1>6, <1>7, <2>6 DEF Reading, Writing, Offered, Taken, AllRead
    <3>2. QueuesInv' /\ ~SetupPending' /\ PendingInv'
      BY <1>1, <1>3, <2>1, <2>2, <2>5, <2>6, PacketReported
    <3>3. OneAt0(events', host.req.want, "out") /\ NoneAt0(d'.queue)
      BY <1>3, <2>1, <2>4, <2>5, <3>1, PacketJoins DEF Silent0
    <3>4. Writing'
      BY <1>3, <2>2, <3>1, <3>3 DEF Writing, Given
    <3>5. TransferInv' /\ AddressInv' /\ DoneInv'
      BY <1>2, <1>3, <1>6, <2>2, <2>6, <3>1, <3>4
      DEF TransferInv, AddressInv, DoneInv, Writing
    <3> QED
      BY <2>5, <3>2, <3>5 DEF UsbInv
  <2> QED
    BY <2>5, <2>6
<1>8. ASSUME host.stage = "status", HostReads(host.req),
             Report([id |-> "out", ep |-> 0, n |-> 0]), host' = Finished
      PROVE  Core' /\ (UsbInv => UsbInv')
  <2> DEFINE ev == [id |-> "out", ep |-> 0, n |-> 0]
  <2>1. ev.id = "out" /\ ev.ep = 0 /\ ev.n = 0 /\ Report(ev)
    BY <1>8
  <2> HIDE DEF ev
  <2>2. /\ DOMAIN host' = HostFields /\ host'.stage = "none"
        /\ host'.address = host.address
        /\ host'.done = ~host.hurried /\ host'.hurried = host.hurried
    BY <1>2, <1>8 DEF HostFields, Finished, Abandoned, HostReads
  <2>3. HostTyped'
    BY <1>2, <2>2 DEF HostTyped
  <2>4. EventTyped(ev) /\ About0(ev) /\ Way(ev) = "out"
    BY <2>1 DEF EventTyped, Eps, About0, Way, Inward
  <2>5. Core' /\ events' = Append(events, ev) /\ SomeSeq(events) /\ SomeSeq(d.queue)
    BY <1>1, <1>3, <1>4, <2>1, <2>3, <2>4, Reported
  <2>6. ASSUME UsbInv PROVE UsbInv'
    <3>1. d.ctrl.req = host.req /\ host.req.kind = "get" /\ Silent0
      BY <1>1, <1>6, <1>8, <2>6
      DEF Reading, Writing, HostReads, Offered, Taken, AllRead
    <3>2. /\ QueuesInv' /\ ~SetupPending' /\ PendingInv'
          /\ NoBus(events') /\ NoBus(d'.queue) /\ AtFront(events')
      BY <1>1, <1>3, <2>1, <2>2, <2>5, <2>6, PacketReported
    <3>3. Agreed' /\ HostReads(d.ctrl.req)
      BY <1>3, <3>1 DEF Agreed, HostReads
    <3>4. DoneInv'
      BY <1>3, <2>1, <2>4, <2>5, <3>1, <3>2, <3>3, EndReported
    <3>5. TransferInv' /\ AddressInv'
      BY <1>3, <1>6, <2>2, <2>6, <3>1 DEF TransferInv, AddressInv
    <3> QED
      BY <2>5, <3>2, <3>4, <3>5 DEF UsbInv
  <2> QED
    BY <2>5, <2>6
<1> QED
  BY <1>7, <1>8 DEF GiveOut0
-----------------------------------------------------------------------------
(***************************************************************************)
(* gpk_usb_task: an event moves from the cartridge to the stack's queue.   *)
(***************************************************************************)
(* Nothing but the stack's queue is different.                             *)
AroundQueue(a, b) ==
  /\ Shape(b) /\ b.address = a.address /\ b.in[0] = a.in[0] /\ b.out[0] = a.out[0]
  /\ b.stalled = a.stalled /\ b.sIn[0] = a.sIn[0] /\ b.ctrl = a.ctrl

LEMMA QueuedFacts ==
  ASSUME NEW dev, Shape(dev), NEW e, Len(dev.queue) < QueueSize
  PROVE  LET r == Queued(dev, e)
         IN AroundQueue(dev, r) /\ r.queue = Append(dev.queue, e) /\ r.setups = dev.setups
  BY DEF Queued, AroundQueue, Shape, DeviceFields

LEMMA PumpRoom ==
  ASSUME Core, events # << >>
  PROVE  /\ SomeSeq(events) /\ SomeSeq(d.queue) /\ Shape(d)
         /\ Len(d.queue) < QueueSize /\ EventTyped(Head(events))
<1>1. SomeSeq(events) /\ SomeSeq(d.queue) /\ Shape(d)
  BY DEF Core, UsbTyped
<1>2. Len(events) \in Nat \ {0} /\ Len(d.queue) \in Nat
  BY <1>1, Shortened DEF SomeSeq
<1>3. Len(events) + Len(d.queue) <= CtlDepth /\ CtlDepth <= QueueSize
      /\ CtlDepth \in Nat /\ QueueSize \in Nat
  BY UsbConsoleAssumption, UsbStackAssumption DEF Core, Counted
<1>4. Len(d.queue) < QueueSize
  BY <1>2, <1>3
<1>5. EventTyped(Head(events))
  BY <1>1, TypedLeaves DEF Core, UsbTyped
<1> QED
  BY <1>1, <1>4, <1>5

(* Types and counts: the stack's count of SETUPs follows its queue.        *)
LEMMA PumpCore ==
  ASSUME Core, events # << >>, events' = Tail(events), host' = host,
         pc' = IF Tail(events) = << >> THEN "task" ELSE "pump",
         Shape(d'), DriverTyped(d'), CtrlTyped(d'), NEW e, QueuedTyped(e),
         \/ d'.queue = d.queue /\ d'.setups = d.setups
         \/ d'.queue = Append(d.queue, e) /\ e.id # "setup" /\ d'.setups = d.setups
         \/ d'.queue = Append(d.queue, e) /\ e.id = "setup" /\ d'.setups = d.setups + 1
  PROVE  Core' /\ PumpsApart' /\ SomeSeq(events) /\ SomeSeq(d.queue)
<1>1. SomeSeq(events) /\ SomeSeq(d.queue)
  BY PumpRoom
<1>2. /\ SomeSeq(events') /\ Len(events) \in Nat \ {0} /\ Len(events') = Len(events) - 1
      /\ \A k \in 1 .. Len(events') : EventTyped(events'[k])
  BY <1>1, Shortened, TypedLeaves DEF Core, UsbTyped
<1>3. /\ SomeSeq(d'.queue) /\ Len(d.queue) \in Nat
      /\ \A k \in 1 .. Len(d'.queue) : QueuedTyped(d'.queue[k])
      /\ Len(d'.queue) = Len(d.queue) \/ Len(d'.queue) = Len(d.queue) + 1
  <2>1. CASE d'.queue = d.queue
    BY <1>1, <2>1, Appended DEF Core, UsbTyped
  <2>2. CASE d'.queue = Append(d.queue, e)
    BY <1>1, <2>2, Appended, TypedJoins DEF Core, UsbTyped
  <2> QED
    BY <2>1, <2>2
<1>4. UsbTyped'
  <2>1. HostTyped' /\ pc' \in {"pump", "task", "stream"}
    BY DEF Core, UsbTyped, HostTyped
  <2> QED
    BY <1>2, <1>3, <2>1 DEF UsbTyped
<1>5. PumpsApart'
  <2>1. ~HasSetup(<< >>)
    BY EmptyIsSeq DEF HasSetup
  <2>2. pc' # "pump" => events' = << >>
    BY Zenon
  <2> QED
    BY <2>1, <2>2, Zenon DEF PumpsApart
<1>6. Len(events') + Len(d'.queue) <= CtlDepth
  <2>1. CtlDepth \in Nat /\ Len(events) + Len(d.queue) <= CtlDepth
    BY UsbConsoleAssumption, UsbStackAssumption DEF Core, Counted
  <2>2. Len(events) \in Nat
    BY <1>2
  <2> QED
    BY <1>2, <1>3, <2>1, <2>2, OneMoved
<1>7. d'.setups = Cardinality(SetupsIn(d'.queue))
  <2>1. d.setups = Cardinality(SetupsIn(d.queue))
    BY DEF Core, Counted
  <2>2. Cardinality(SetupsIn(Append(d.queue, e)))
          = Cardinality(SetupsIn(d.queue)) + (IF e.id = "setup" THEN 1 ELSE 0)
    BY <1>1, SetupCounted
  <2>3. Cardinality(SetupsIn(d.queue)) \in Nat
    BY <1>1, SetupsFinite
  <2>4. CASE d'.queue = d.queue /\ d'.setups = d.setups
    BY <2>1, <2>4, Zenon
  <2>5. CASE d'.queue = Append(d.queue, e) /\ e.id # "setup" /\ d'.setups = d.setups
    <3>1. Cardinality(SetupsIn(Append(d.queue, e))) = Cardinality(SetupsIn(d.queue))
      BY <2>2, <2>3, <2>5
    <3> QED
      BY <2>1, <2>5, <3>1, Zenon
  <2>6. CASE d'.queue = Append(d.queue, e) /\ e.id = "setup" /\ d'.setups = d.setups + 1
    <3>1. Cardinality(SetupsIn(Append(d.queue, e))) = Cardinality(SetupsIn(d.queue)) + 1
      BY <2>2, <2>3, <2>6
    <3> QED
      BY <2>1, <2>6, <3>1, Zenon
  <2> QED
    BY <2>4, <2>5, <2>6
<1>8. Core'
  BY <1>4, <1>6, <1>7 DEF Core, Counted
<1> QED
  BY <1>1, <1>5, <1>8

(* An event of no concern to endpoint 0.                                   *)
LEMMA NoisePumped ==
  ASSUME Core, events # << >>, events' = Tail(events), host' = host,
         pc' = IF Tail(events) = << >> THEN "task" ELSE "pump",
         Noise(Head(events)), AroundQueue(d, d'), d'.setups = d.setups,
         NEW e, QueuedTyped(e), Noise(e),
         d'.queue = d.queue \/ d'.queue = Append(d.queue, e)
  PROVE  Core' /\ (UsbInv => UsbInv')
<1>1. DriverTyped(d') /\ CtrlTyped(d') /\ Shape(d')
  BY KeptTyped DEF Core, AroundQueue
<1>2. Core' /\ PumpsApart' /\ SomeSeq(events) /\ SomeSeq(d.queue)
  BY <1>1, PumpCore DEF Noise
<1>3. LikeQueue(events, events')
  BY <1>2, NoiseLeaves
<1>4. LikeQueue(d.queue, d'.queue)
  BY <1>2, NoiseJoins, SameQueue
<1>5. HostView' = HostView
  BY DEF HostView
<1> QED
  BY <1>2, <1>3, <1>4, <1>5, NoisyStep DEF AroundQueue

(* Behind a SETUP or a bus event no packet of endpoint 0 is in `events'.   *)
LEMMA FrontPumped ==
  ASSUME SomeSeq(events), SomeSeq(d.queue), events # << >>, events' = Tail(events),
         Head(events).id = "setup" \/ BusEvent(Head(events)),
         NEW e, e.id = "setup" \/ BusEvent(e), d'.queue = Append(d.queue, e),
         AroundQueue(d, d'), host' = host
  PROVE  /\ Quiet0 => Quiet0'
         /\ Silent0 => Silent0'
         /\ OnlyOut(events) => OnlyOut(events')
         /\ OnlyOut(d.queue) => OnlyOut(d'.queue)
<1>1. ~About0(e) /\ ~About0(Head(events))
  BY DEF About0, BusEvent
<1>2. /\ NoneAt0(events) => NoneAt0(events')
      /\ NoneAt0(d.queue) => NoneAt0(d'.queue)
      /\ OnlyOut(events) => OnlyOut(events')
      /\ OnlyOut(d.queue) => OnlyOut(d'.queue)
  BY <1>1, PacketMoves
<1>3. AtFront(events) => NoneAt0(events)
  BY FrontLeaves
<1>4. \A n, way : OneAt0(d.queue, n, way) => OneAt0(d'.queue, n, way)
  BY <1>1, PacketJoins
<1>5. AtFront(d.queue) => AtFront(d'.queue)
  BY <1>1, FrontJoins
<1>6. \A n, way : OneAt0(events, n, way) => ~AtFront(events)
  BY <1>3, PacketKinds
<1>7. Closing => Closing'
  BY <1>2, <1>4, <1>5, <1>6 DEF Closing, AroundQueue
<1>8. Silent0 => Silent0'
  BY <1>2 DEF Silent0
<1> QED
  BY <1>2, <1>7, <1>8 DEF Quiet0, Agreed, AroundQueue

(* A SETUP reaches the stack's queue.                                      *)
LEMMA SetupPumped ==
  ASSUME Core, events # << >>, events' = Tail(events), host' = host,
         pc' = IF Tail(events) = << >> THEN "task" ELSE "pump",
         Head(events).id = "setup", AroundQueue(d, d'), d'.setups = d.setups + 1,
         NEW e, QueuedTyped(e), e.id = "setup", e.req = Head(events).req,
         d'.queue = Append(d.queue, e)
  PROVE  Core' /\ (UsbInv => UsbInv')
<1>1. DriverTyped(d') /\ CtrlTyped(d') /\ Shape(d')
  BY KeptTyped DEF Core, AroundQueue
<1>2. Core' /\ PumpsApart' /\ SomeSeq(events) /\ SomeSeq(d.queue)
  BY <1>1, PumpCore
<1> SUFFICES ASSUME UsbInv PROVE UsbInv'
  BY <1>2
<1>3. /\ HasSetup(events)
      /\ Covered(events) => Covered(events')
      /\ Latest(events, host.req) => Latest(events', host.req)
      /\ Latest(events, host.req) /\ ~HasSetup(events') => e.req = host.req
  BY <1>2, SetupLeaves
<1>4. /\ HasSetup(d'.queue) /\ Covered(d'.queue)
      /\ e.req = host.req => Latest(d'.queue, host.req)
  BY <1>2, SetupJoins
<1>5. SetupPending /\ SetupPending'
  BY <1>3, <1>4 DEF SetupPending
<1>6. QueuesInv'
  BY <1>2, <1>3, <1>4 DEF QueuesInv, UsbInv
<1>7. /\ Quiet0 => Quiet0'
      /\ OnlyOut(events) => OnlyOut(events')
      /\ OnlyOut(d.queue) => OnlyOut(d'.queue)
  BY <1>2, FrontPumped
<1>8. PendingInv'
  BY <1>5, <1>7 DEF UsbInv, PendingInv, AroundQueue, Begun
<1>9. AddressInv'
  BY <1>5, <1>7 DEF AddressInv, UsbInv, AroundQueue, Naming, Misled
<1>10. TransferInv' /\ DoneInv'
  BY <1>5 DEF TransferInv, DoneInv, UsbInv
<1> QED
  BY <1>2, <1>6, <1>8, <1>9, <1>10 DEF UsbInv

(* So does a bus event: a SETUP of the host is behind it.                  *)
LEMMA BusPumped ==
  ASSUME Core, events # << >>, events' = Tail(events), host' = host,
         pc' = IF Tail(events) = << >> THEN "task" ELSE "pump",
         BusEvent(Head(events)), AroundQueue(d, d'), d'.setups = d.setups,
         NEW e, QueuedTyped(e), BusEvent(e), d'.queue = Append(d.queue, e)
  PROVE  Core' /\ (UsbInv => UsbInv')
<1>1. DriverTyped(d') /\ CtrlTyped(d') /\ Shape(d')
  BY KeptTyped DEF Core, AroundQueue
<1>2. e.id # "setup" /\ Head(events).id # "setup"
  BY DEF BusEvent
<1>3. Core' /\ PumpsApart' /\ SomeSeq(events) /\ SomeSeq(d.queue)
  BY <1>1, <1>2, PumpCore
<1> SUFFICES ASSUME UsbInv PROVE UsbInv'
  BY <1>3
<1>4. /\ HasSetup(events) <=> HasSetup(events')
      /\ Covered(events) => Covered(events') /\ HasSetup(events')
      /\ Latest(events, host.req) => Latest(events', host.req)
      /\ ~NoBus(events)
  BY <1>2, <1>3, SetupLeaves
<1>5. HasSetup(d'.queue) <=> HasSetup(d.queue)
  BY <1>2, <1>3, SetupJoins
<1>6. SetupPending <=> SetupPending'
  BY <1>4, <1>5 DEF SetupPending
<1>7. QueuesInv'
  BY <1>3, <1>4, <1>5 DEF QueuesInv, UsbInv
<1>8. /\ Quiet0 => Quiet0'
      /\ Silent0 => Silent0'
      /\ OnlyOut(events) => OnlyOut(events')
      /\ OnlyOut(d.queue) => OnlyOut(d'.queue)
  BY <1>3, FrontPumped
<1>9. PendingInv'
  BY <1>6, <1>8 DEF UsbInv, PendingInv, AroundQueue, Begun
<1>10. TransferInv' /\ DoneInv'
  BY <1>4 DEF UsbInv, TransferInv, QueuesInv, SetupPending, DoneInv
<1>11. AddressInv'
  <2>1. ~Naming
    BY <1>4 DEF Naming
  <2>2. Misled => Misled'
    BY <1>6, <1>8 DEF Misled, AroundQueue
  <2> QED
    BY <1>8, <2>1, <2>2 DEF AddressInv, UsbInv, AroundQueue
<1> QED
  BY <1>3, <1>7, <1>9, <1>10, <1>11 DEF UsbInv

(* An event about endpoint 0: the rest of the queues keeps its order.      *)
LEMMA PacketPumped ==
  ASSUME UsbInv, PumpsApart', events # << >>, events' = Tail(events), host' = host,
         About0(Head(events)), NEW e, e.id = "xfer",
         d'.queue = d.queue \/ d'.queue = Append(d.queue, e)
  PROVE  /\ QueuesInv' /\ (SetupPending' <=> SetupPending)
         /\ NoBus(events) => NoBus(events')
         /\ NoBus(d.queue) => NoBus(d'.queue)
         /\ SomeSeq(events) /\ SomeSeq(d.queue) /\ ~NoneAt0(events) /\ ~Silent0
<1>1. SomeSeq(events) /\ SomeSeq(d.queue)
  BY DEF UsbInv, Core, UsbTyped
<1>2. ~NoneAt0(events)
  BY <1>1, PacketLeaves
<1>3. /\ HasSetup(events') <=> HasSetup(events)
      /\ Covered(events) => Covered(events')
      /\ Latest(events, host.req) => Latest(events', host.req)
      /\ NoBus(events) => NoBus(events')
  <2>1. Head(events).id # "setup"
    BY DEF About0
  <2> QED
    BY <1>1, <2>1, SetupLeaves
<1>4. /\ HasSetup(d'.queue) <=> HasSetup(d.queue)
      /\ Covered(d.queue) => Covered(d'.queue)
      /\ Latest(d.queue, host.req) => Latest(d'.queue, host.req)
      /\ NoBus(d.queue) => NoBus(d'.queue)
  <2>1. ~BusEvent(e) /\ e.id # "setup"
    BY DEF BusEvent
  <2>2. CASE d'.queue = d.queue
    BY <2>2
  <2>3. CASE d'.queue = Append(d.queue, e)
    BY <1>1, <2>1, <2>3, SetupJoins
  <2> QED
    BY <2>2, <2>3
<1>5. QueuesInv'
  BY <1>3, <1>4 DEF QueuesInv, UsbInv
<1> QED
  BY <1>1, <1>2, <1>3, <1>4, <1>5 DEF SetupPending, Silent0

(* A packet received on endpoint 0 ...                                     *)
LEMMA OutPumped ==
  ASSUME Core, events # << >>, events' = Tail(events), host' = host,
         pc' = IF Tail(events) = << >> THEN "task" ELSE "pump",
         About0(Head(events)), ~Inward(Head(events)), AroundQueue(d, d'),
         d'.setups = d.setups, NEW e, QueuedTyped(e), e.id = "xfer", e.dir = "out",
         e.ep = 0, e.n = Head(events).n, d'.queue = Append(d.queue, e)
  PROVE  Core' /\ (UsbInv => UsbInv')
<1>1. DriverTyped(d') /\ CtrlTyped(d') /\ Shape(d')
  BY KeptTyped DEF Core, AroundQueue
<1>2. Core' /\ PumpsApart'
  BY <1>1, PumpCore
<1> SUFFICES ASSUME UsbInv PROVE UsbInv'
  BY <1>2
<1>3. /\ QueuesInv' /\ (SetupPending' <=> SetupPending)
      /\ NoBus(events) => NoBus(events')
      /\ NoBus(d.queue) => NoBus(d'.queue)
      /\ SomeSeq(events) /\ SomeSeq(d.queue) /\ ~NoneAt0(events) /\ ~Silent0
  BY <1>2, PacketPumped
<1>4. About0(e) /\ ~Inward(e) /\ Way(e) = "out" /\ Way(Head(events)) = "out"
  BY DEF About0, Inward, Way
<1>5. \A n, way : OneAt0(events, n, way)
        => way = "out" /\ Head(events).n = n /\ NoneAt0(events')
  BY <1>3, <1>4, PacketLeaves
<1>6. ASSUME NEW n, NEW way, OneAt0(events, n, way), NoneAt0(d.queue)
      PROVE  NoneAt0(events') /\ OneAt0(d'.queue, n, way)
  <2>1. way = "out" /\ e.n = n /\ NoneAt0(events')
    BY <1>5, <1>6
  <2> QED
    BY <1>3, <1>4, <1>6, <2>1, PacketJoins
<1>7. Closing => Closing'
  <2>1. ~HasSetup(d.queue) /\ NoBus(d.queue) => AtFront(d'.queue)
    BY <1>3, FrontJoins
  <2> QED
    BY <1>3, <1>6, <2>1 DEF Closing, AroundQueue
<1>8. Agreed => Agreed'
  BY DEF Agreed, AroundQueue
<1>9. PendingInv' /\ DoneInv'
  BY <1>3, <1>7, <1>8 DEF UsbInv, PendingInv, DoneInv, Quiet0, Begun, AroundQueue
<1>10. TransferInv'
  <2> SUFFICES ASSUME host.stage # "none", ~SetupPending PROVE Writing'
    BY <1>3 DEF TransferInv
  <2>1. Refused \/ Reading \/ Writing
    BY DEF UsbInv, TransferInv
  <2>2. \A n : ~OneAt0(events, n, "in")
    BY <1>5
  <2>3. Writing /\ Given
    BY <1>3, <2>1, <2>2 DEF Refused, Reading, Offered, Taken, AllRead, Writing
  <2>4. Given'
    BY <1>3, <1>6, <2>3 DEF Given
  <2> QED
    BY <1>3, <2>3, <2>4 DEF Writing, AroundQueue
<1>11. AddressInv'
  <2>1. /\ OnlyOut(events) => OnlyOut(events')
        /\ OnlyOut(d.queue) => OnlyOut(d'.queue)
    BY <1>3, <1>4, PacketMoves
  <2>2. ~OneAt0(events, 0, "in")
    BY <1>5
  <2> QED
    BY <1>3, <2>1, <2>2 DEF UsbInv, AddressInv, Naming, Misled, AroundQueue
<1> QED
  BY <1>2, <1>3, <1>9, <1>10, <1>11 DEF UsbInv

(* in_complete on endpoint 0.                                              *)
LEMMA InFacts ==
  ASSUME NEW dev, Shape(dev), Len(dev.queue) < QueueSize, NEW n
  PROVE  LET r == InComplete(dev, 0, n)
             s == dev.sIn[0]
         IN /\ Shape(r) /\ r.address = dev.address /\ r.out[0] = dev.out[0]
            /\ r.stalled = dev.stalled /\ r.ctrl = dev.ctrl /\ r.setups = dev.setups
            /\ \/ /\ ~s.active /\ r.in[0] = dev.in[0] /\ r.sIn[0] = s
                  /\ r.queue = Append(dev.queue, XferComplete(0, "in", n))
               \/ /\ s.active /\ s.remaining - n = 0
                  /\ r.in[0] = dev.in[0] /\ r.sIn[0] = IdleIn
                  /\ r.queue = Append(dev.queue, XferComplete(0, "in", Len(s.tx)))
               \/ /\ s.active /\ s.remaining - n # 0 /\ r.queue = dev.queue
                  /\ r.sIn[0].active = s.active /\ r.sIn[0].tx = s.tx
                  /\ \/ /\ s.remaining - n > 0 /\ r.sIn[0].remaining = s.remaining - n
                        /\ r.in[0] = <<SubSeq(s.tx, 1, s.remaining - n)>>
                     \/ r.sIn[0].remaining = Wrapped /\ r.in[0] = <<Foreign>>
<1> DEFINE s == dev.sIn[0]
           left == s.remaining - n
<1>1. CASE ~s.active
  <2>1. InComplete(dev, 0, n) = Queued(dev, XferComplete(0, "in", n))
    BY <1>1, Zenon DEF InComplete
  <2> QED
    BY <1>1, <2>1, QueuedFacts DEF AroundQueue
<1>2. CASE s.active /\ left = 0
  <2> DEFINE c == [dev EXCEPT !.sIn[0] = IdleIn]
  <2>1. InComplete(dev, 0, n) = Queued(c, XferComplete(0, "in", Len(s.tx)))
    BY <1>2, Zenon DEF InComplete
  <2>2. /\ Shape(c) /\ c.address = dev.address /\ c.out[0] = dev.out[0]
        /\ c.stalled = dev.stalled /\ c.ctrl = dev.ctrl /\ c.setups = dev.setups
        /\ c.in[0] = dev.in[0] /\ c.sIn[0] = IdleIn /\ c.queue = dev.queue
    BY DEF Shape, DeviceFields, Eps, IdleIn
  <2> HIDE DEF c
  <2> QED
    <3> DEFINE x == XferComplete(0, "in", Len(s.tx))
               r == Queued(c, x)
    <3> HIDE DEF x
    <3>1. AroundQueue(c, r) /\ r.queue = Append(c.queue, x) /\ r.setups = c.setups
      <4>1. Len(c.queue) < QueueSize
        BY <2>2
      <4> QED
        BY <2>2, <4>1, QueuedFacts
    <3> HIDE DEF r
    <3>2. /\ Shape(r) /\ r.address = dev.address /\ r.out[0] = dev.out[0]
          /\ r.stalled = dev.stalled /\ r.ctrl = dev.ctrl /\ r.setups = dev.setups
          /\ r.in[0] = dev.in[0] /\ r.sIn[0] = IdleIn /\ r.queue = Append(dev.queue, x)
      BY <2>2, <3>1, Zenon DEF AroundQueue
    <3>3. InComplete(dev, 0, n) = r
      BY <2>1, Zenon DEF r, x
    <3> QED
      BY <1>2, <3>2, <3>3, Zenon DEF x
<1>3. CASE s.active /\ left # 0
  <2> DEFINE b == IF left > 0 THEN left ELSE Wrapped
             q == IF left > 0 THEN <<SubSeq(s.tx, 1, left)>> ELSE <<Foreign>>
             c == [dev EXCEPT !.sIn[0].remaining = b, !.in[0] = q]
  <2>1. InComplete(dev, 0, n) = c
    BY <1>3, Zenon DEF InComplete
  <2>2. (left > 0 /\ b = left /\ q = <<SubSeq(s.tx, 1, left)>>) \/ (b = Wrapped /\ q = <<Foreign>>)
    BY Zenon
  <2> HIDE DEF q, b
  <2>3. /\ Shape(c) /\ c.address = dev.address /\ c.out[0] = dev.out[0]
        /\ c.stalled = dev.stalled /\ c.ctrl = dev.ctrl /\ c.setups = dev.setups
        /\ c.sIn[0].active = s.active /\ c.sIn[0].tx = s.tx
        /\ c.sIn[0].remaining = b /\ c.in[0] = q /\ c.queue = dev.queue
    BY DEF Shape, DeviceFields, Eps
  <2> HIDE DEF c
  <2> QED
    BY <1>3, <2>1, <2>2, <2>3, Zenon
<1> QED
  BY <1>1, <1>2, <1>3

(* ... and one that was sent.                                              *)
LEMMA InPumped ==
  ASSUME Core, events # << >>, events' = Tail(events), host' = host,
         pc' = IF Tail(events) = << >> THEN "task" ELSE "pump",
         Head(events).id = "in", Head(events).ep = 0,
         d' = InComplete(d, 0, Head(events).n)
  PROVE  Core' /\ (UsbInv => UsbInv')
<1> DEFINE n == Head(events).n
           s == d.sIn[0]
           e == XferComplete(0, "in", IF s.active THEN Len(s.tx) ELSE n)
           left == s.remaining - n
           Kept0 == d'.in[0] = d.in[0] /\ d'.queue = Append(d.queue, e)
           Cut == /\ left # 0 /\ d'.queue = d.queue /\ s.active
                  /\ d'.sIn[0].active = s.active /\ d'.sIn[0].tx = s.tx
                  /\ \/ /\ left > 0 /\ d'.sIn[0].remaining = left
                        /\ d'.in[0] = <<SubSeq(s.tx, 1, left)>>
                     \/ d'.sIn[0].remaining = Wrapped /\ d'.in[0] = <<Foreign>>
<1>1. Shape(d) /\ Len(d.queue) < QueueSize /\ n \in Nat
  BY PumpRoom DEF EventTyped
<1>2. About0(Head(events)) /\ Inward(Head(events)) /\ Way(Head(events)) = "in"
  BY DEF About0, Inward, Way
<1>3. DriverTyped(d) /\ CtrlTyped(d)
  BY DEF Core, UsbTyped
<1>4. Len(s.tx) \in Nat /\ s.tx \in Seq(Bytes) /\ s.remaining \in Wrapped .. Len(s.tx)
  BY <1>3 DEF DriverTyped
<1>5. /\ e.id = "xfer" /\ About0(e) /\ Way(e) = "in" /\ QueuedTyped(e)
      /\ e.n = IF s.active THEN Len(s.tx) ELSE n
  BY <1>1, <1>4 DEF XferComplete, About0, Inward, Way, QueuedTyped, Eps
<1>6. /\ Shape(d') /\ d'.address = d.address /\ d'.out[0] = d.out[0]
      /\ d'.stalled = d.stalled /\ d'.ctrl = d.ctrl /\ d'.setups = d.setups
      /\ \/ ~s.active /\ d'.sIn[0] = s /\ Kept0
         \/ s.active /\ left = 0 /\ d'.sIn[0] = IdleIn /\ Kept0
         \/ Cut
  BY <1>1, InFacts
<1> HIDE DEF e, n, s, left, Kept0, Cut
<1>7. DriverTyped(d') /\ CtrlTyped(d')
  <2>1. CtrlTyped(d')
    BY <1>3, <1>6 DEF CtrlTyped
  <2>2. /\ IdleIn.active = FALSE /\ IdleIn.tx = << >> /\ IdleIn.remaining = 0
        /\ << >> \in Seq(Bytes) /\ Len(<< >>) = 0
    BY EmptySeq DEF IdleIn
  <2>3. CASE d'.sIn[0] = s /\ Kept0
    BY <1>3, <2>1, <2>3 DEF DriverTyped, s, Kept0
  <2>4. CASE d'.sIn[0] = IdleIn /\ Kept0
    <3>1. d'.in[0] = d.in[0]
      BY <2>4 DEF Kept0
    <3>2. 0 \in Wrapped .. 0
      BY DEF Wrapped
    <3> QED
      BY <1>3, <2>1, <2>2, <2>4, <3>1, <3>2 DEF DriverTyped
  <2>5. CASE Cut
    <3>1. /\ d'.sIn[0].active = TRUE /\ d'.sIn[0].tx = s.tx
      BY <1>3, <2>5 DEF DriverTyped, s, Cut
    <3>2. d'.sIn[0].remaining \in Wrapped .. Len(s.tx) /\ d'.sIn[0].remaining # 0
      BY <1>1, <1>4, <2>5 DEF Wrapped, Cut, left
    <3>3. Head(d'.in[0]) \in Seq(Bytes)
      <4>1. CASE d'.in[0] = <<Foreign>>
        <5>1. Foreign \in Seq(Bytes)
          BY UsbStackAssumption DEF Foreign, Bytes
        <5> QED
          BY <4>1, <5>1
      <4>2. CASE left > 0 /\ d'.in[0] = <<SubSeq(s.tx, 1, left)>>
        <5>1. left \in 1 .. Len(s.tx)
          BY <1>1, <1>4, <4>2 DEF Wrapped, left
        <5> DEFINE part == SubSeq(s.tx, 1, left)
        <5>2. part \in Seq(Bytes)
          BY <1>4, <5>1, SubSeqProperties
        <5> HIDE DEF part
        <5>3. Head(<<part>>) = part
          OBVIOUS
        <5>4. d'.in[0] = <<part>>
          BY <4>2 DEF part
        <5> QED
          BY <5>2, <5>3, <5>4, Zenon
      <4> QED
        BY <2>5, <4>1, <4>2 DEF Cut
    <3> QED
      BY <1>4, <2>1, <3>1, <3>2, <3>3 DEF DriverTyped
  <2> QED
    BY <1>6, <2>3, <2>4, <2>5
<1>0. /\ Cut => d'.queue = d.queue /\ s.active /\ d'.sIn[0].active
      /\ ~Cut => Kept0
      /\ Kept0 => d'.in[0] = d.in[0] /\ d'.queue = Append(d.queue, e)
  <2>1. Cut => d'.queue = d.queue /\ s.active /\ d'.sIn[0].active
    BY DEF Cut
  <2>2. ~Cut => Kept0
    BY <1>6
  <2>3. Kept0 => d'.in[0] = d.in[0] /\ d'.queue = Append(d.queue, e)
    BY DEF Kept0
  <2> QED
    BY <2>1, <2>2, <2>3
<1>8. Core' /\ PumpsApart'
  <2>1. d'.queue = d.queue \/ (d'.queue = Append(d.queue, e) /\ e.id # "setup")
    BY <1>0, <1>5
  <2> QED
    BY <1>5, <1>6, <1>7, <2>1, PumpCore
<1> SUFFICES ASSUME UsbInv PROVE UsbInv'
  BY <1>8
<1>9. /\ QueuesInv' /\ (SetupPending' <=> SetupPending)
      /\ NoBus(events) => NoBus(events')
      /\ NoBus(d.queue) => NoBus(d'.queue)
      /\ SomeSeq(events) /\ SomeSeq(d.queue) /\ ~NoneAt0(events) /\ ~Silent0
  BY <1>0, <1>2, <1>5, <1>8, PacketPumped
<1>10. \A k, way : OneAt0(events, k, way) => way = "in" /\ n = k /\ NoneAt0(events')
  BY <1>2, <1>9, PacketLeaves DEF n
<1>11. ASSUME NoneAt0(d.queue), d'.queue = Append(d.queue, e)
       PROVE  OneAt0(d'.queue, e.n, "in")
  <2>1. \A m : e.n = m => OneAt0(Append(d.queue, e), m, "in")
    BY <1>5, <1>9, <1>11, PacketJoins
  <2> QED
    BY <1>11, <2>1
<1>12. n = 0 /\ ~Cut => e.n = 0
  <2> SUFFICES ASSUME n = 0, s.active, left = 0 PROVE Len(s.tx) = 0
    BY <1>5, <1>6
  <2>1. s.remaining = 0
    BY <1>4 DEF Wrapped, left
  <2>2. s.tx = << >>
    BY <1>3, <2>1 DEF DriverTyped, s
  <2> QED
    BY <2>2, EmptyIsSeq
<1>13. ASSUME n = 0, s.remaining = 0
       PROVE  Kept0 /\ d'.sIn[0].remaining = 0 /\ ~Cut
  <2>1. left = 0 /\ ~Cut
    BY <1>13 DEF left, Cut
  <2> QED
    BY <1>6, <1>13, <2>1 DEF IdleIn
<1>14. ASSUME Closing
       PROVE  n = 0 /\ (Closing' \/ (Cut /\ Silent0'))
  <2> DEFINE way == IF HostReads(d.ctrl.req) THEN "out" ELSE "in"
  <2>1. OneAt0(events, 0, way) /\ NoneAt0(d.queue) /\ ~HasSetup(d.queue) /\ NoBus(d.queue)
    BY <1>9, <1>14 DEF Closing
  <2>2. way = "in" /\ n = 0 /\ NoneAt0(events')
    BY <1>10, <2>1
  <2>3. CASE Cut
    BY <1>0, <2>1, <2>2, <2>3 DEF Silent0
  <2>4. CASE ~Cut
    <3>1. d'.queue = Append(d.queue, e) /\ e.n = 0
      BY <1>0, <1>12, <2>2, <2>4
    <3>2. OneAt0(d'.queue, 0, "in")
      BY <1>11, <2>1, <3>1
    <3>3. AtFront(d'.queue)
      BY <1>9, <2>1, <3>1, FrontJoins
    <3>4. (IF HostReads(d'.ctrl.req) THEN "out" ELSE "in") = "in"
      BY <1>6, <2>2
    <3>5. Closing'
      BY <2>2, <3>2, <3>3, <3>4 DEF Closing
    <3> QED
      BY <2>2, <3>5
  <2> QED
    BY <2>3, <2>4
<1>15. PendingInv'
  <2> SUFFICES ASSUME SetupPending
               PROVE  /\ d'.in[0] = << >> /\ ~d'.out[0] /\ ~d'.stalled /\ Quiet0'
                      /\ host'.stage # "none" => Begun'
    BY <1>9 DEF PendingInv
  <2>1. /\ d.in[0] = << >> /\ ~d.out[0] /\ ~d.stalled /\ Quiet0
        /\ host.stage # "none" => Begun
    BY DEF UsbInv, PendingInv
  <2>2. Closing /\ s.remaining = 0 /\ (host.stage # "none" => Agreed)
    BY <1>9, <2>1 DEF Quiet0, s
  <2>3. n = 0 /\ Kept0 /\ d'.sIn[0].remaining = 0 /\ Closing'
    BY <1>13, <1>14, <2>2
  <2> QED
    BY <1>0, <1>6, <2>1, <2>2, <2>3 DEF Quiet0, Begun, Agreed
<1>16. DoneInv'
  <2> SUFFICES ASSUME host.done
               PROVE  /\ ~SetupPending' /\ NoBus(events') /\ NoBus(d'.queue)
                      /\ Silent0' \/ (Closing' /\ Agreed')
    BY DEF DoneInv
  <2>1. ~SetupPending /\ NoBus(events) /\ NoBus(d.queue) /\ Closing /\ Agreed
    BY <1>9 DEF UsbInv, DoneInv
  <2>2. Agreed'
    BY <1>6, <2>1 DEF Agreed
  <2> QED
    BY <1>9, <1>14, <2>1, <2>2
<1>17. TransferInv'
  <2> SUFFICES ASSUME host.stage # "none", ~SetupPending PROVE Reading'
    BY <1>9 DEF TransferInv
  <2> DEFINE p == Packet(host.req, d.ctrl.total)
  <2>1. Refused \/ Reading \/ Writing
    BY DEF UsbInv, TransferInv
  <2>2. ~Given
    BY <1>9, <1>10 DEF Given
  <2>3. /\ Reading /\ Taken(p)
        /\ OneAt0(events, Len(p), "in") /\ NoneAt0(d.queue) /\ s = Sending(p)
    BY <1>9, <2>1, <2>2 DEF Refused, Writing, Reading, Offered, Taken, AllRead, s
  <2>4. n = Len(p) /\ NoneAt0(events')
    BY <1>10, <2>3
  <2>5. s.active /\ s.tx = p /\ s.remaining = Len(p)
    BY <2>3 DEF Sending
  <2>6. d'.in[0] = d.in[0] /\ d'.queue = Append(d.queue, e)
    <3>1. left = 0
      BY <1>1, <2>4, <2>5 DEF left
    <3> QED
      BY <1>0, <3>1 DEF Cut
  <2>7. OneAt0(d'.queue, Len(p), "in")
    BY <1>5, <1>11, <2>3, <2>5, <2>6
  <2>8. Packet(host'.req, d'.ctrl.total) = p /\ host'.stage = host.stage
        /\ host'.req = host.req /\ host'.got = host.got
        /\ Stop(host'.req, d'.ctrl.total) = Stop(host.req, d.ctrl.total)
    BY <1>6, Zenon
  <2> HIDE DEF p
  <2>9. Taken(Packet(host.req, d.ctrl.total))'
    BY <1>6, <2>3, <2>4, <2>6, <2>7, <2>8 DEF Taken
  <2> QED
    BY <1>6, <2>3, <2>8, <2>9 DEF Reading
<1>18. AddressInv'
  <2>1. /\ host'.stage = host.stage /\ host'.address = host.address
        /\ d'.address = d.address /\ d'.ctrl = d.ctrl
    BY <1>6
  <2>2. ~OnlyOut(events)
    BY <1>2, <1>9, PacketMoves
  <2>3. /\ host.stage # "none" => host.address = d.address
        /\ host.address # 0 /\ d.ctrl.req.kind = "addr" => d.ctrl.req.v = host.address
        /\ host.address # 0 /\ host.stage = "none" => d.address = host.address \/ Naming
    BY <1>9, <2>2 DEF UsbInv, AddressInv, Misled
  <2>4. ASSUME Naming PROVE Naming' \/ Misled'
    <3>1. OneAt0(events, 0, "in") /\ NoneAt0(d.queue) /\ d.ctrl.req.kind = "addr"
      BY <1>9, <2>4 DEF Naming
    <3>2. /\ n = 0 /\ NoneAt0(events') /\ NoBus(events') /\ NoBus(d'.queue)
          /\ ~SetupPending'
      BY <1>9, <1>10, <2>4, <3>1 DEF Naming
    <3>3. CASE ~Cut
      <4>1. d'.queue = Append(d.queue, e) /\ e.n = 0
        BY <1>0, <1>12, <3>2, <3>3
      <4> QED
        BY <1>11, <2>1, <3>1, <3>2, <4>1 DEF Naming
    <3>4. CASE Cut
      BY <1>0, <3>1, <3>2, <3>4 DEF Misled, Silent0
    <3> QED
      BY <3>3, <3>4
  <2> QED
    BY <2>1, <2>3, <2>4 DEF AddressInv
<1> QED
  BY <1>8, <1>9, <1>15, <1>16, <1>17, <1>18 DEF UsbInv

LEMMA SerialInFacts ==
  ASSUME NEW dev, Shape(dev), Len(dev.queue) < QueueSize, NEW n
  PROVE  LET r == InComplete(dev, 2, n)
         IN /\ AroundQueue(dev, r) /\ r.setups = dev.setups
            /\ \/ r.queue = dev.queue
               \/ \E m : r.queue = Append(dev.queue, XferComplete(2, "in", m))
<1> DEFINE s == dev.sIn[2]
           left == s.remaining - n
<1>1. CASE ~s.active
  <2>1. InComplete(dev, 2, n) = Queued(dev, XferComplete(2, "in", n))
    BY <1>1, Zenon DEF InComplete
  <2> QED
    BY <2>1, QueuedFacts
<1>2. CASE s.active /\ left = 0
  <2> DEFINE c == [dev EXCEPT !.sIn[2] = IdleIn]
             m == Len(s.tx)
  <2>1. InComplete(dev, 2, n) = Queued(c, XferComplete(2, "in", m))
    BY <1>2, Zenon DEF InComplete
  <2>2. AroundQueue(dev, c) /\ c.setups = dev.setups /\ c.queue = dev.queue
    BY DEF Shape, DeviceFields, Eps, IdleIn, AroundQueue
  <2> HIDE DEF c, m
  <2>3. Shape(c) /\ Len(c.queue) < QueueSize
    BY <2>2 DEF AroundQueue
  <2>4. LET r == Queued(c, XferComplete(2, "in", m))
        IN /\ AroundQueue(c, r) /\ r.setups = c.setups
           /\ r.queue = Append(c.queue, XferComplete(2, "in", m))
    BY <2>3, QueuedFacts
  <2> QED
    BY <2>1, <2>2, <2>4, Zenon DEF AroundQueue
<1>3. CASE s.active /\ left # 0
  <2> DEFINE b == IF left > 0 THEN left ELSE Wrapped
             q == IF left > 0 THEN <<SubSeq(s.tx, 1, left)>> ELSE <<Foreign>>
             c == [dev EXCEPT !.sIn[2].remaining = b, !.in[2] = q]
  <2>1. InComplete(dev, 2, n) = c
    BY <1>3, Zenon DEF InComplete
  <2> HIDE DEF q, b
  <2>2. AroundQueue(dev, c) /\ c.setups = dev.setups /\ c.queue = dev.queue
    BY DEF Shape, DeviceFields, Eps, AroundQueue
  <2> HIDE DEF c
  <2> QED
    BY <2>1, <2>2
<1> QED
  BY <1>1, <1>2, <1>3

LEMMA Pumps ==
  ASSUME Core, PumpEvent
  PROVE  Core' /\ (UsbInv => UsbInv')
<1> DEFINE ev == Head(events)
<1>1. /\ events # << >> /\ events' = Tail(events) /\ host' = host
      /\ pc' = IF Tail(events) = << >> THEN "task" ELSE "pump"
      /\ d' = Pumped(d, ev)
  BY DEF PumpEvent
<1>2. /\ SomeSeq(events) /\ SomeSeq(d.queue) /\ Shape(d)
      /\ Len(d.queue) < QueueSize /\ EventTyped(ev)
  BY <1>1, PumpRoom
<1> HIDE DEF ev
<1>3. AroundQueue(d, d)
  BY <1>2 DEF AroundQueue
<1>4. CASE ev.id = "setup"
  <2> DEFINE c == [d EXCEPT !.setups = @ + 1]
             e == [id |-> "setup", req |-> ev.req]
  <2>1. d' = Queued(c, e)
    BY <1>1, <1>4 DEF Pumped, SetupReceived
  <2>2. AroundQueue(d, c) /\ c.queue = d.queue /\ c.setups = d.setups + 1
    BY <1>2 DEF AroundQueue, Shape, DeviceFields
  <2>3. e.id = "setup" /\ e.req = ev.req /\ QueuedTyped(e)
    BY <1>2, <1>4 DEF QueuedTyped, EventTyped
  <2> HIDE DEF c, e
  <2>4. AroundQueue(c, d') /\ d'.queue = Append(c.queue, e) /\ d'.setups = c.setups
    BY <1>2, <2>1, <2>2, QueuedFacts DEF AroundQueue
  <2>5. /\ AroundQueue(d, d') /\ d'.queue = Append(d.queue, e)
        /\ d'.setups = d.setups + 1
    BY <2>2, <2>4 DEF AroundQueue
  <2> QED
    BY <1>1, <1>4, <2>3, <2>5, SetupPumped DEF ev
<1>5. CASE ev.id = "in" /\ ev.ep = 0
  <2>1. d' = InComplete(d, 0, ev.n)
    BY <1>1, <1>5 DEF Pumped
  <2> QED
    BY <1>1, <1>5, <2>1, InPumped DEF ev
<1>6. CASE ev.id = "in" /\ ev.ep = 2
  <2>1. d' = InComplete(d, 2, ev.n)
    BY <1>1, <1>6 DEF Pumped
  <2>2. /\ AroundQueue(d, d') /\ d'.setups = d.setups
        /\ \/ d'.queue = d.queue
           \/ \E m : d'.queue = Append(d.queue, XferComplete(2, "in", m))
    BY <1>2, <2>1, SerialInFacts
  <2>3. \A m : QueuedTyped(XferComplete(2, "in", m)) /\ Noise(XferComplete(2, "in", m))
    BY DEF QueuedTyped, Noise, About0, BusEvent, XferComplete, Eps
  <2>4. PICK m : d'.queue = d.queue \/ d'.queue = Append(d.queue, XferComplete(2, "in", m))
    BY <2>2
  <2>5. Noise(ev)
    BY <1>6 DEF Noise, About0, BusEvent
  <2> QED
    BY <1>1, <2>2, <2>3, <2>4, <2>5, NoisePumped DEF ev
<1>7. CASE ev.id = "out"
  <2> DEFINE e == XferComplete(ev.ep, "out", ev.n)
  <2>1. d' = Queued(d, e)
    BY <1>1, <1>7 DEF Pumped
  <2>2. QueuedTyped(e) /\ e.id = "xfer" /\ e.dir = "out" /\ e.ep = ev.ep /\ e.n = ev.n
    BY <1>2, <1>7 DEF QueuedTyped, EventTyped, XferComplete
  <2> HIDE DEF e
  <2>3. AroundQueue(d, d') /\ d'.queue = Append(d.queue, e) /\ d'.setups = d.setups
    BY <1>2, <2>1, QueuedFacts
  <2>4. CASE ev.ep = 0
    <3>1. About0(ev) /\ ~Inward(ev)
      BY <1>7, <2>4 DEF About0, Inward
    <3> QED
      BY <1>1, <2>2, <2>3, <2>4, <3>1, OutPumped DEF ev
  <2>5. CASE ev.ep # 0
    <3>1. Noise(ev) /\ Noise(e)
      BY <1>7, <2>2, <2>5 DEF Noise, About0, BusEvent
    <3> QED
      BY <1>1, <2>2, <2>3, <3>1, NoisePumped DEF ev
  <2> QED
    BY <2>4, <2>5
<1>8. CASE ev.id \in {"reset", "unplugged"}
  <2>1. PICK e : /\ e = [id |-> ev.id]
                 /\ AroundQueue(d, d') /\ d'.queue = Append(d.queue, e)
                 /\ d'.setups = d.setups
    <3>1. CASE ev.id = "reset"
      <4>1. d' = Queued(d, [id |-> "reset"])
        BY <1>1, <3>1 DEF Pumped
      <4> QED
        BY <1>2, <3>1, <4>1, QueuedFacts
    <3>2. CASE ev.id = "unplugged"
      <4> DEFINE c == [d EXCEPT !.connected = FALSE, !.cfg = 0, !.suspended = FALSE]
                 e == [id |-> "unplugged"]
      <4>1. d' = Queued(c, e)
        BY <1>1, <3>2 DEF Pumped, Unplugged
      <4>2. AroundQueue(d, c) /\ c.queue = d.queue /\ c.setups = d.setups
        BY <1>2 DEF AroundQueue, Shape, DeviceFields
      <4> HIDE DEF c
      <4>3. AroundQueue(c, d') /\ d'.queue = Append(c.queue, e) /\ d'.setups = c.setups
        BY <1>2, <4>1, <4>2, QueuedFacts DEF AroundQueue
      <4> QED
        BY <3>2, <4>2, <4>3 DEF AroundQueue
    <3> QED
      BY <1>8, <3>1, <3>2
  <2>2. QueuedTyped(e) /\ BusEvent(e) /\ BusEvent(ev)
    BY <1>8, <2>1 DEF QueuedTyped, BusEvent
  <2> QED
    BY <1>1, <2>1, <2>2, BusPumped DEF ev
<1>9. CASE ev.id \in {"suspend", "resume"}
  <2> DEFINE idle == ev.id = "suspend"
             c == [d EXCEPT !.suspended = idle]
             e == [id |-> IF idle THEN "suspend" ELSE "resume"]
  <2>1. d' = IF d.connected THEN Queued(c, e) ELSE d
    BY <1>1, <1>9 DEF Pumped, BusIdle
  <2>2. QueuedTyped(e) /\ Noise(e) /\ Noise(ev)
    BY <1>9 DEF QueuedTyped, Noise, BusEvent, About0
  <2>3. AroundQueue(d, c) /\ c.queue = d.queue /\ c.setups = d.setups
    BY <1>2 DEF AroundQueue, Shape, DeviceFields
  <2> HIDE DEF c, e
  <2>4. /\ AroundQueue(d, d') /\ d'.setups = d.setups
        /\ d'.queue = d.queue \/ d'.queue = Append(d.queue, e)
    <3>1. CASE d.connected
      <4>1. AroundQueue(c, d') /\ d'.queue = Append(c.queue, e) /\ d'.setups = c.setups
        BY <1>2, <2>1, <2>3, <3>1, QueuedFacts DEF AroundQueue
      <4> QED
        BY <2>3, <4>1 DEF AroundQueue
    <3>2. CASE ~d.connected
      BY <1>3, <2>1, <3>2
    <3> QED
      BY <3>1, <3>2
  <2> QED
    BY <1>1, <2>2, <2>4, NoisePumped DEF ev
<1>10. /\ ev.id \in {"setup", "in", "out", "reset", "unplugged", "suspend", "resume"}
       /\ ev.id = "in" => ev.ep \in {0, 2}
  BY <1>2 DEF EventTyped, Eps
<1> QED
  BY <1>4, <1>5, <1>6, <1>7, <1>8, <1>9, <1>10
-----------------------------------------------------------------------------
(***************************************************************************)
(* tud_task: an event of the stack's queue is handled.                     *)
(***************************************************************************)
LEMMA NoSetups ==
  ASSUME NEW q, SomeSeq(q)
  PROVE  (Cardinality(SetupsIn(q)) = 0) <=> ~HasSetup(q)
<1>1. IsFiniteSet(SetupsIn(q))
  BY SetupsFinite
<1>2. (Cardinality(SetupsIn(q)) = 0) <=> (SetupsIn(q) = {})
  BY <1>1, FS_EmptySet
<1> QED
  BY <1>2 DEF SetupsIn, HasSetup

(* What every step of tud_task starts from: the event, and the device with *)
(* the event taken from its queue.                                         *)
Rest == [d EXCEPT !.queue = Tail(@)]

LEMMA TaskFacts ==
  ASSUME Core, TaskEvent
  PROVE  /\ pc = "task" /\ d.queue # << >> /\ events' = events
         /\ d' = Handled(Rest, Head(d.queue)) /\ pc' \in {"task", "stream"}
         /\ HostView' = HostView /\ HostTyped'
         /\ SomeSeq(events) /\ SomeSeq(d.queue) /\ QueuedTyped(Head(d.queue))
         /\ Shape(d) /\ DriverTyped(d) /\ CtrlTyped(d)
         /\ AroundQueue(d, Rest) /\ Rest.queue = Tail(d.queue) /\ Rest.setups = d.setups
<1>1. /\ pc = "task" /\ d.queue # << >> /\ events' = events
      /\ d' = Handled(Rest, Head(d.queue)) /\ pc' \in {"task", "stream"}
      /\ host' = host \/ host' = [host EXCEPT !.wrote = 0]
  BY DEF TaskEvent, Rest
<1>2. HostTyped
  BY DEF Core, UsbTyped
<1>3. HostView' = HostView /\ HostTyped'
  BY <1>1, <1>2 DEF HostView, HostTyped, HostFields
<1>4. /\ SomeSeq(events) /\ SomeSeq(d.queue)
      /\ Shape(d) /\ DriverTyped(d) /\ CtrlTyped(d)
  BY DEF Core, UsbTyped
<1>5. QueuedTyped(Head(d.queue))
  BY <1>1, <1>4, TypedLeaves DEF Core, UsbTyped
<1>6. AroundQueue(d, Rest) /\ Rest.queue = Tail(d.queue) /\ Rest.setups = d.setups
  BY <1>4 DEF AroundQueue, Shape, DeviceFields, Rest
<1> QED
  BY <1>1, <1>3, <1>4, <1>5, <1>6

LEMMA Lessened ==
  ASSUME NEW x \in Nat, NEW y \in Nat, NEW c \in Nat, x + y <= c, NEW b, b = y - 1
  PROVE  x + b <= c
  OBVIOUS

LEMMA TaskCore ==
  ASSUME Core, TaskEvent, Shape(d'), DriverTyped(d'), CtrlTyped(d'),
         d'.queue = Tail(d.queue),
         \/ Head(d.queue).id # "setup" /\ d'.setups = d.setups
         \/ Head(d.queue).id = "setup" /\ d'.setups = d.setups - 1
  PROVE  Core' /\ (PumpsApart => PumpsApart')
<1>1. /\ pc = "task" /\ d.queue # << >> /\ events' = events
      /\ pc' \in {"task", "stream"} /\ HostTyped' /\ SomeSeq(events) /\ SomeSeq(d.queue)
  BY TaskFacts
<1>2. /\ SomeSeq(d'.queue) /\ Len(d.queue) \in Nat \ {0}
      /\ Len(d'.queue) = Len(d.queue) - 1
      /\ \A k \in 1 .. Len(d'.queue) : QueuedTyped(d'.queue[k])
  BY <1>1, Shortened, TypedLeaves DEF Core, UsbTyped
<1>3. UsbTyped'
  <2>1. /\ \A k \in 1 .. Len(events') : EventTyped(events'[k])
        /\ pc' \in {"pump", "task", "stream"} /\ SomeSeq(events')
    BY <1>1 DEF Core, UsbTyped
  <2> QED
    BY <1>1, <1>2, <2>1 DEF UsbTyped
<1>4. PumpsApart => PumpsApart'
  <2>1. HasSetup(d'.queue) => HasSetup(d.queue)
    BY <1>1, SetupLeaves
  <2> QED
    BY <1>1, <2>1 DEF PumpsApart
<1>5. d'.setups = Cardinality(SetupsIn(d'.queue))
  <2>1. /\ d.setups = Cardinality(SetupsIn(d.queue))
        /\ Cardinality(SetupsIn(Tail(d.queue))) \in Nat
    BY <1>1, <1>2, SetupsFinite DEF Core, Counted
  <2>2. Cardinality(SetupsIn(d.queue)) = Cardinality(SetupsIn(Tail(d.queue)))
          + (IF Head(d.queue).id = "setup" THEN 1 ELSE 0)
    BY <1>1, SetupUncounted
  <2>3. d'.setups = Cardinality(SetupsIn(Tail(d.queue)))
    BY <2>1, <2>2
  <2> QED
    BY <2>3, Zenon
<1>6. Len(events') + Len(d'.queue) <= CtlDepth
  <2>1. CtlDepth \in Nat /\ Len(events) + Len(d.queue) <= CtlDepth
    BY UsbConsoleAssumption, UsbStackAssumption DEF Core, Counted
  <2>2. Len(events) \in Nat
    BY <1>1 DEF SomeSeq
  <2>3. Len(events) + Len(d'.queue) <= CtlDepth
    BY <1>2, <2>1, <2>2, Lessened
  <2> QED
    BY <1>1, <2>3, Zenon
<1>7. Core'
  BY <1>3, <1>5, <1>6 DEF Core, Counted
<1> QED
  BY <1>4, <1>7

LEMMA NoiseHandled ==
  ASSUME Core, TaskEvent, Noise(Head(d.queue)), AroundQueue(d, d'),
         d'.queue = Tail(d.queue), d'.setups = d.setups
  PROVE  Core' /\ (UsbInv => UsbInv')
<1>1. /\ d.queue # << >> /\ events' = events /\ HostView' = HostView
      /\ SomeSeq(events) /\ SomeSeq(d.queue)
  BY TaskFacts
<1>2. Shape(d') /\ DriverTyped(d') /\ CtrlTyped(d')
  BY KeptTyped DEF Core, AroundQueue
<1>3. Core' /\ (PumpsApart => PumpsApart')
  BY <1>2, TaskCore DEF Noise
<1>4. LikeQueue(events, events') /\ LikeQueue(d.queue, d'.queue)
  BY <1>1, SameQueue, NoiseLeaves
<1>5. ASSUME UsbInv PROVE UsbInv'
  <2>1. PumpsApart'
    BY <1>3, <1>5 DEF UsbInv, QueuesInv
  <2> QED
    BY <1>1, <1>3, <1>4, <1>5, <2>1, NoisyStep DEF AroundQueue
<1> QED
  BY <1>3, <1>5

(* When a SETUP or a bus event is first in the stack's queue, no packet of *)
(* the transfer before is behind it.                                       *)
LEMMA FrontQuiet ==
  ASSUME SomeSeq(d.queue), d.queue # << >>,
         Head(d.queue).id = "setup" \/ BusEvent(Head(d.queue))
  PROVE  ~Closing
<1>1. HasSetup(d.queue) \/ ~NoBus(d.queue)
  BY SetupLeaves
<1>2. AtFront(d.queue) => NoneAt0(d.queue)
  BY FrontLeaves
<1>3. \A n, way : OneAt0(d.queue, n, way) => ~AtFront(d.queue)
  BY <1>2, PacketKinds
<1> QED
  BY <1>1, <1>3 DEF Closing

(* A bus event takes the request from the stack; a transfer of the host    *)
(* that is under way has its SETUP behind it.                              *)
LEMMA BusHandled ==
  ASSUME Core, TaskEvent, BusEvent(Head(d.queue))
  PROVE  Core' /\ (UsbInv => UsbInv')
<1>1. /\ d.queue # << >> /\ events' = events /\ HostView' = HostView
      /\ d' = Handled(Rest, Head(d.queue))
      /\ SomeSeq(events) /\ SomeSeq(d.queue) /\ DriverTyped(d)
      /\ AroundQueue(d, Rest) /\ Rest.queue = Tail(d.queue) /\ Rest.setups = d.setups
  BY TaskFacts
<1>2. /\ host'.stage = host.stage /\ host'.req = host.req /\ host'.got = host.got
      /\ host'.address = host.address /\ host'.done = host.done
  BY <1>1 DEF HostView
<1>3. d' = UsbdReset(Rest)
  BY <1>1 DEF BusEvent, Handled
<1>4. /\ Shape(d') /\ SameEp0(Rest, d') /\ d'.ctrl = NoCtrl
  <2> DEFINE c == ConfigurationReset(Rest)
             n == NoCtrl
  <2>1. Kept(Rest, c)
    BY <1>1, ConfigKept DEF AroundQueue
  <2>2. DOMAIN n = CtrlFields
    BY DEF NoCtrl, CtrlFields
  <2>3. d' = [c EXCEPT !.ctrl = n]
    BY <1>3 DEF UsbdReset
  <2> HIDE DEF c, n
  <2>4. Shape(d') /\ SameEp0(c, d') /\ d'.ctrl = n
    BY <2>1, <2>2, <2>3, CtrlSet DEF Kept
  <2> QED
    BY <2>1, <2>4 DEF Kept, SameEp0, n
<1>6. /\ d'.address = d.address /\ d'.in[0] = d.in[0] /\ d'.out[0] = d.out[0]
      /\ d'.stalled = d.stalled /\ d'.sIn[0] = d.sIn[0]
      /\ d'.queue = Tail(d.queue) /\ d'.setups = d.setups
  BY <1>1, <1>4 DEF SameEp0, AroundQueue
<1>7. NoCtrl.req = NoRequest /\ NoCtrl.len = 0 /\ NoCtrl.total = 0
      /\ NoRequest.kind = "none"
  BY DEF NoCtrl, NoRequest
<1>8. DriverTyped(d') /\ CtrlTyped(d')
  BY <1>1, <1>4, <1>6, <1>7 DEF DriverTyped, CtrlTyped
<1>9. Head(d.queue).id # "setup" /\ ~About0(Head(d.queue))
  BY DEF BusEvent, About0
<1>10. Core' /\ (PumpsApart => PumpsApart')
  BY <1>4, <1>6, <1>8, <1>9, TaskCore
<1> SUFFICES ASSUME UsbInv PROVE UsbInv'
  BY <1>10
<1>11. /\ HasSetup(d'.queue) <=> HasSetup(d.queue)
       /\ Covered(d.queue) => Covered(d'.queue) /\ HasSetup(d'.queue)
       /\ Latest(d.queue, host.req) => Latest(d'.queue, host.req)
       /\ ~NoBus(d.queue)
  BY <1>1, <1>6, <1>9, SetupLeaves
<1>12. SetupPending' <=> SetupPending
  BY <1>1, <1>11 DEF SetupPending
<1>13. QueuesInv'
  BY <1>1, <1>2, <1>10, <1>11 DEF QueuesInv, UsbInv
<1>14. (Silent0 => Silent0') /\ ~Closing
  BY <1>1, <1>6, PacketMoves, FrontQuiet DEF Silent0
<1>15. PendingInv'
  BY <1>2, <1>6, <1>12, <1>14 DEF PendingInv, Quiet0, Begun, UsbInv
<1>16. TransferInv' /\ DoneInv'
  BY <1>1, <1>2, <1>11, <1>12 DEF TransferInv, DoneInv, SetupPending, UsbInv, QueuesInv
<1>17. AddressInv'
  <2>1. ~Naming
    BY <1>11 DEF Naming
  <2>2. Misled => Misled'
    BY <1>6, <1>12, <1>14 DEF Misled
  <2> QED
    BY <1>2, <1>4, <1>6, <1>7, <2>1, <2>2 DEF AddressInv, UsbInv
<1> QED
  BY <1>10, <1>13, <1>15, <1>16, <1>17 DEF UsbInv

(* A SETUP with another one behind it is passed over.                      *)
LEMMA SetupSkipped ==
  ASSUME Core, TaskEvent, Head(d.queue).id = "setup", AroundQueue(d, d'),
         d'.queue = Tail(d.queue), d'.setups = d.setups - 1, d'.setups # 0
  PROVE  Core' /\ (UsbInv => UsbInv')
<1>1. /\ d.queue # << >> /\ events' = events /\ HostView' = HostView
      /\ SomeSeq(events) /\ SomeSeq(d.queue)
  BY TaskFacts
<1>2. /\ host'.stage = host.stage /\ host'.req = host.req /\ host'.got = host.got
      /\ host'.address = host.address /\ host'.done = host.done
  BY <1>1 DEF HostView
<1>3. Shape(d') /\ DriverTyped(d') /\ CtrlTyped(d')
  BY KeptTyped DEF Core, AroundQueue
<1>4. Core' /\ (PumpsApart => PumpsApart')
  BY <1>3, TaskCore
<1> SUFFICES ASSUME UsbInv PROVE UsbInv'
  BY <1>4
<1>5. HasSetup(d'.queue)
  <2>1. SomeSeq(d'.queue) /\ d'.setups = Cardinality(SetupsIn(d'.queue))
    BY <1>4 DEF Core, UsbTyped, Counted
  <2>2. Cardinality(SetupsIn(d'.queue)) # 0
    BY <2>1, Zenon
  <2> QED
    BY <2>1, <2>2, NoSetups
<1>6. /\ HasSetup(d.queue)
      /\ Covered(d.queue) => Covered(d'.queue)
      /\ Latest(d.queue, host.req) => Latest(d'.queue, host.req)
  BY <1>1, SetupLeaves
<1>7. SetupPending /\ SetupPending'
  BY <1>5, <1>6 DEF SetupPending
<1>8. QueuesInv'
  BY <1>1, <1>2, <1>4, <1>6 DEF QueuesInv, UsbInv
<1>9. Silent0 /\ Silent0'
  <2>1. Silent0
    BY <1>1, <1>7, FrontQuiet DEF UsbInv, PendingInv, Quiet0
  <2> QED
    BY <1>1, <2>1, PacketMoves DEF Silent0
<1>10. PendingInv' /\ DoneInv' /\ TransferInv'
  BY <1>2, <1>7, <1>9
  DEF UsbInv, PendingInv, Quiet0, DoneInv, TransferInv, AroundQueue, Begun
<1>11. AddressInv'
  <2>1. OnlyOut(events) /\ OnlyOut(d.queue) /\ OnlyOut(events') /\ OnlyOut(d'.queue)
    BY <1>9, PacketKinds DEF Silent0
  <2>2. ~Naming /\ ~Misled
    BY <1>7 DEF Naming, Misled
  <2> QED
    BY <1>2, <2>1, <2>2 DEF AddressInv, UsbInv, AroundQueue
<1> QED
  BY <1>4, <1>8, <1>10, <1>11 DEF UsbInv

(* The last SETUP in the queue: the request is the host's, if the host is  *)
(* still at it, and the endpoint is free for it.                           *)
LEMMA AfterSetup ==
  ASSUME UsbInv, Core', PumpsApart', TaskEvent, Head(d.queue).id = "setup",
         d'.address = d.address, d'.queue = Tail(d.queue), d'.setups = 0
  PROVE  /\ QueuesInv' /\ PendingInv' /\ AddressInv' /\ DoneInv'
         /\ Silent0' /\ ~SetupPending'
         /\ d.in[0] = << >> /\ ~d.out[0] /\ ~d.stalled
         /\ host.stage # "none" => Begun /\ Head(d.queue).req = host.req
<1>0. Core
  BY DEF UsbInv
<1>1. /\ d.queue # << >> /\ events' = events /\ HostView' = HostView /\ pc = "task"
      /\ SomeSeq(events) /\ SomeSeq(d.queue)
  BY <1>0, TaskFacts
<1>2. /\ host'.stage = host.stage /\ host'.req = host.req /\ host'.got = host.got
      /\ host'.address = host.address /\ host'.done = host.done
  BY <1>1 DEF HostView
<1>4. ~HasSetup(d'.queue)
  <2>1. SomeSeq(d'.queue) /\ d'.setups = Cardinality(SetupsIn(d'.queue))
    BY DEF Core, UsbTyped, Counted
  <2>2. Cardinality(SetupsIn(d'.queue)) = 0
    BY <2>1, Zenon
  <2> QED
    BY <2>1, <2>2, NoSetups
<1>5. /\ HasSetup(d.queue)
      /\ Covered(d.queue) => Covered(d'.queue)
      /\ Latest(d.queue, host.req) => Latest(d'.queue, host.req)
      /\ Latest(d.queue, host.req) => Head(d.queue).req = host.req
  BY <1>1, <1>4, SetupLeaves
<1>6. ~HasSetup(events) /\ SetupPending /\ ~SetupPending'
  BY <1>1, <1>4, <1>5 DEF UsbInv, QueuesInv, PumpsApart, SetupPending
<1>7. QueuesInv'
  BY <1>1, <1>2, <1>5 DEF QueuesInv, UsbInv
<1>8. /\ Silent0 /\ d.in[0] = << >> /\ ~d.out[0] /\ ~d.stalled
      /\ host.stage # "none" => Begun
  BY <1>1, <1>6, FrontQuiet DEF UsbInv, PendingInv, Quiet0
<1>9. Silent0'
  BY <1>1, <1>8, PacketMoves DEF Silent0
<1>10. PendingInv' /\ DoneInv'
  BY <1>2, <1>6 DEF PendingInv, DoneInv, UsbInv
<1>11. AddressInv'
  <2>1. OnlyOut(events) /\ OnlyOut(d.queue) /\ OnlyOut(events') /\ OnlyOut(d'.queue)
    BY <1>8, <1>9, PacketKinds DEF Silent0
  <2>2. ~Naming /\ ~Misled
    BY <1>6 DEF Naming, Misled
  <2> QED
    BY <1>2, <2>1, <2>2 DEF AddressInv, UsbInv
<1>12. host.stage # "none" => Head(d.queue).req = host.req
  BY <1>5, <1>6 DEF UsbInv, QueuesInv
<1> QED
  BY <1>6, <1>7, <1>8, <1>9, <1>10, <1>11, <1>12

LEMMA SetupHandled ==
  ASSUME Core, TaskEvent, Head(d.queue).id = "setup", d.setups = 1,
         NEW f, AroundQueue(d, f), f.queue = Tail(d.queue), f.setups = 0, ~f.busyIn[0],
         d' = ControlRequest(f, Head(d.queue).req)
  PROVE  Core' /\ (UsbInv => UsbInv')
<1> DEFINE req == Head(d.queue).req
<1>1. /\ HostView' = HostView /\ req \in Requests /\ DriverTyped(d) /\ CtrlTyped(d)
  BY TaskFacts DEF QueuedTyped
<1>2. /\ host'.stage = host.stage /\ host'.req = host.req /\ host'.got = host.got
  BY <1>1 DEF HostView
<1>3. d' = ControlRequest(f, req) /\ Shape(f)
  BY DEF AroundQueue
<1>4. /\ f.address = d.address /\ f.in[0] = d.in[0] /\ f.out[0] = d.out[0]
      /\ f.stalled = d.stalled /\ f.sIn[0] = d.sIn[0] /\ f.ctrl = d.ctrl
  BY DEF AroundQueue
<1>5. ASSUME Beside0(f, d'), DriverTyped(d'), CtrlTyped(d')
      PROVE  /\ Core'
             /\ UsbInv => /\ QueuesInv' /\ PendingInv' /\ AddressInv' /\ DoneInv'
                          /\ Silent0' /\ ~SetupPending'
                          /\ d.in[0] = << >> /\ ~d.out[0] /\ ~d.stalled
                          /\ host.stage # "none" => Begun /\ req = host.req
  <2>1. /\ Shape(d') /\ d'.address = d.address
        /\ d'.queue = Tail(d.queue) /\ d'.setups = 0 /\ d'.setups = d.setups - 1
    BY <1>4, <1>5 DEF Beside0
  <2>2. Core' /\ (PumpsApart => PumpsApart')
    BY <1>5, <2>1, TaskCore
  <2>3. UsbInv => PumpsApart'
    BY <2>2 DEF UsbInv, QueuesInv
  <2> QED
    BY <2>1, <2>2, <2>3, AfterSetup
<1> HIDE DEF req
<1>6. CASE req.kind = "get"
  <2> DEFINE p == Packet(req, 0)
  <2>1. /\ Beside0(f, d') /\ d'.stalled = f.stalled /\ d'.out[0] = f.out[0]
        /\ d'.ctrl.req = req /\ d'.ctrl.len = Len(Answer(req)) /\ d'.ctrl.total = 0
        /\ d'.in[0] = <<p>> /\ d'.sIn[0] = Sending(p)
    BY <1>1, <1>3, <1>6, RequestRead
  <2>2. Len(Answer(req)) \in Nat /\ Len(Answer(req)) = Lesser(req.len, req.want)
    BY <1>1, AnswerTyped
  <2>3. p \in Seq(Bytes)
    <3>1. 0 \in 0 .. Len(Answer(req))
      BY <2>2
    <3> QED
      BY <1>1, <3>1, PacketFacts
  <2> HIDE DEF p
  <2>4. DriverTyped(d')
    BY <2>1, <2>3, OfferTyped
  <2>5. CtrlTyped(d')
    BY <1>1, <2>1, <2>2 DEF CtrlTyped
  <2>6. Core'
    BY <1>5, <2>1, <2>4, <2>5
  <2> SUFFICES ASSUME UsbInv PROVE UsbInv'
    BY <2>6
  <2>7. /\ QueuesInv' /\ PendingInv' /\ AddressInv' /\ DoneInv'
        /\ Silent0' /\ ~SetupPending' /\ ~d.out[0]
        /\ host.stage # "none" => Begun /\ req = host.req
    BY <1>5, <2>1, <2>4, <2>5
  <2>8. ASSUME host.stage # "none" PROVE Reading'
    <3>1. host.req = req /\ Begun
      BY <2>7, <2>8
    <3>2. host.got = Upto(req, 0) /\ host.stage = "in"
      BY <1>1, <1>6, <3>1, WholeAnswer DEF Begun, FirstStage
    <3>3. Packet(host'.req, d'.ctrl.total) = p
      BY <1>2, <2>1, <3>1, Zenon DEF p
    <3>4. Upto(host'.req, d'.ctrl.total) = host'.got
      BY <1>2, <2>1, <3>1, <3>2, Zenon
    <3>5. Offered(Packet(host.req, d.ctrl.total))'
      BY <1>2, <1>4, <2>1, <2>7, <3>2, <3>3, <3>4 DEF Offered
    <3>6. d'.ctrl.total \in 0 .. Len(Answer(host'.req)) /\ d'.ctrl.len = Len(Answer(host'.req))
      BY <1>2, <2>1, <2>2, <3>1
    <3> QED
      BY <1>2, <1>6, <2>1, <3>1, <3>5, <3>6 DEF Reading
  <2> QED
    BY <1>2, <2>6, <2>7, <2>8 DEF UsbInv, TransferInv
<1>7. CASE req.kind # "get" /\ Acknowledged(f, d', req)
  <2>1. /\ Beside0(f, d') /\ d'.ctrl.req = req /\ CtrlTyped(d')
        /\ d'.in[0] \in {f.in[0], << << >> >>}
        /\ req.kind = "coding" => d'.in[0] = f.in[0]
        /\ d'.sIn[0] \in {f.sIn[0], Sending(<< >>)}
    BY <1>7 DEF Acknowledged
  <2>2. DriverTyped(d')
    <3>1. << >> \in Seq(Bytes) /\ Head(<< << >> >>) = << >>
      OBVIOUS
    <3>2. d'.in[0] # << >> => Head(d'.in[0]) \in Seq(Bytes)
      <4>1. CASE d'.in[0] = f.in[0]
        BY <1>1, <1>4, <4>1 DEF DriverTyped
      <4>2. CASE d'.in[0] = << << >> >>
        BY <3>1, <4>2
      <4> QED
        BY <2>1, <4>1, <4>2
    <3>3. CASE d'.sIn[0] = f.sIn[0]
      BY <1>1, <1>4, <3>2, <3>3 DEF DriverTyped
    <3>4. CASE d'.sIn[0] = Sending(<< >>)
      BY <3>1, <3>2, <3>4, SendingTyped
    <3> QED
      BY <2>1, <3>3, <3>4
  <2>3. Core'
    BY <1>5, <2>1, <2>2
  <2> SUFFICES ASSUME UsbInv PROVE UsbInv'
    BY <2>3
  <2>4. /\ QueuesInv' /\ PendingInv' /\ AddressInv' /\ DoneInv'
        /\ Silent0' /\ ~SetupPending' /\ d.in[0] = << >>
        /\ host.stage # "none" => Begun /\ req = host.req
    BY <1>5, <2>1, <2>2
  <2>5. ASSUME host.stage # "none" PROVE Writing'
    BY <1>2, <1>4, <1>7, <2>1, <2>4, <2>5 DEF Writing, Begun, FirstStage
  <2> QED
    BY <1>2, <2>3, <2>4, <2>5 DEF UsbInv, TransferInv
<1>8. CASE req.kind # "get" /\ Rejected(f, d')
  <2>1. /\ Beside0(f, d') /\ d'.stalled /\ d'.in[0] = f.in[0] /\ d'.out[0] = f.out[0]
        /\ d'.sIn[0] = f.sIn[0]
        /\ d'.ctrl.req = f.ctrl.req /\ d'.ctrl.len = f.ctrl.len
        /\ d'.ctrl.total = f.ctrl.total
    BY <1>8 DEF Rejected
  <2>2. DriverTyped(d') /\ CtrlTyped(d')
    BY <1>1, <1>4, <2>1 DEF DriverTyped, CtrlTyped
  <2>3. Core'
    BY <1>5, <2>1, <2>2
  <2> SUFFICES ASSUME UsbInv PROVE UsbInv'
    BY <2>3
  <2>4. /\ QueuesInv' /\ PendingInv' /\ AddressInv' /\ DoneInv'
        /\ Silent0' /\ ~SetupPending' /\ d.in[0] = << >> /\ ~d.out[0]
        /\ host.stage # "none" => Begun
    BY <1>5, <2>1, <2>2
  <2>5. ASSUME host.stage # "none" PROVE Refused'
    BY <1>2, <1>4, <2>1, <2>4, <2>5 DEF Refused, Begun
  <2> QED
    BY <1>2, <2>3, <2>4, <2>5 DEF UsbInv, TransferInv
<1> QED
  BY <1>1, <1>3, <1>6, <1>7, <1>8, RequestOther

(* A packet of endpoint 0 was reported.                                    *)
LEMMA AfterPacket ==
  ASSUME UsbInv, PumpsApart', TaskEvent, About0(Head(d.queue)), d'.queue = Tail(d.queue)
  PROVE  /\ QueuesInv' /\ (SetupPending' <=> SetupPending)
         /\ NoBus(d.queue) => NoBus(d'.queue)
<1>1. /\ d.queue # << >> /\ events' = events /\ HostView' = HostView
      /\ SomeSeq(events) /\ SomeSeq(d.queue)
  BY TaskFacts DEF UsbInv
<1>2. host'.stage = host.stage /\ host'.req = host.req
  BY <1>1 DEF HostView
<1>3. Head(d.queue).id # "setup"
  BY DEF About0
<1>4. /\ HasSetup(d'.queue) <=> HasSetup(d.queue)
      /\ Covered(d.queue) => Covered(d'.queue)
      /\ Latest(d.queue, host.req) => Latest(d'.queue, host.req)
      /\ NoBus(d.queue) => NoBus(d'.queue)
  BY <1>1, <1>3, SetupLeaves
<1>5. QueuesInv'
  BY <1>1, <1>2, <1>4 DEF QueuesInv, UsbInv
<1> QED
  BY <1>1, <1>4, <1>5 DEF SetupPending

(* The last packet of a transfer ends it for the stack.                    *)
LEMMA TransferCloses ==
  ASSUME UsbInv, TaskEvent, Closing, Head(d.queue).id = "xfer", Head(d.queue).ep = 0,
         NEW f, Kept(Rest, f),
         d' = ControlXferCb(f, Head(d.queue).dir, Head(d.queue).n)
  PROVE  /\ Silent0' /\ d'.in[0] = d.in[0] /\ d'.out[0] = d.out[0]
         /\ d'.stalled = d.stalled /\ d'.sIn[0] = d.sIn[0]
<1> DEFINE ev == Head(d.queue)
           way == IF HostReads(d.ctrl.req) THEN "out" ELSE "in"
<1>1. /\ d.queue # << >> /\ events' = events
      /\ SomeSeq(d.queue) /\ Shape(d) /\ DriverTyped(d) /\ CtrlTyped(d)
      /\ AroundQueue(d, Rest) /\ Rest.queue = Tail(d.queue)
      /\ ev.dir \in {"in", "out"}
  BY TaskFacts DEF QueuedTyped, UsbInv
<1>2. About0(ev)
  BY DEF About0
<1>3. ~NoneAt0(d.queue)
  BY <1>1, <1>2, PacketMoves
<1>4. NoneAt0(events) /\ OneAt0(d.queue, 0, way)
  BY <1>3 DEF Closing
<1>5. Way(ev) = way /\ ev.n = 0 /\ NoneAt0(Tail(d.queue))
  BY <1>1, <1>2, <1>4, PacketLeaves
<1>6. ev.dir = way
  BY <1>1, <1>5 DEF Way, Inward
<1>7. /\ Shape(f) /\ DriverTyped(f) /\ CtrlTyped(f) /\ f.ctrl = d.ctrl
      /\ f.in[0] = d.in[0] /\ f.out[0] = d.out[0] /\ f.stalled = d.stalled
      /\ f.sIn[0] = d.sIn[0] /\ f.queue = Tail(d.queue)
  BY <1>1 DEF Kept, SameEp0, AroundQueue, DriverTyped, CtrlTyped
<1>8. (ev.dir = "in") # HostReads(f.ctrl.req)
  BY <1>6, <1>7 DEF HostReads
<1>9. d' = StatusComplete(f, ev.n)
  BY <1>8, Zenon DEF ControlXferCb
<1> HIDE DEF ev, way
<1>10. /\ d'.in[0] = f.in[0] /\ d'.out[0] = f.out[0] /\ d'.stalled = f.stalled
       /\ d'.sIn[0] = f.sIn[0] /\ Progressed(f, d', ev.dir, ev.n)
  BY <1>1, <1>7, <1>8, <1>9, StatusProgress
<1>11. d'.queue = Tail(d.queue)
  BY <1>7, <1>10 DEF Progressed
<1> QED
  BY <1>1, <1>4, <1>5, <1>7, <1>10, <1>11 DEF Silent0

(* A read goes on with the next packet, or every byte was read.            *)
LEMMA ReadGoesOn ==
  ASSUME UsbInv, TaskEvent, Reading, Head(d.queue).id = "xfer", Head(d.queue).ep = 0,
         host.stage # "none", NEW f, Kept(Rest, f), Head(d.queue).dir = "in" => ~f.busyIn[0],
         d' = ControlXferCb(f, Head(d.queue).dir, Head(d.queue).n)
  PROVE  Reading' /\ d'.address = d.address
<1> DEFINE ev == Head(d.queue)
           n == ev.n
           req == host.req
           total == d.ctrl.total
           stop == Stop(req, total)
           p == Packet(req, total)
<1>1. /\ d.queue # << >> /\ events' = events /\ HostView' = HostView
      /\ SomeSeq(events) /\ SomeSeq(d.queue) /\ Shape(d) /\ DriverTyped(d) /\ CtrlTyped(d)
      /\ AroundQueue(d, Rest) /\ Rest.queue = Tail(d.queue) /\ Rest.setups = d.setups
  BY TaskFacts DEF UsbInv
<1>2. /\ host'.stage = host.stage /\ host'.req = host.req /\ host'.got = host.got
  BY <1>1 DEF HostView
<1>3. About0(ev) /\ req \in Requests
  BY DEF About0, UsbInv, Core, UsbTyped, HostTyped
<1>4. ~NoneAt0(d.queue)
  BY <1>1, <1>3, PacketMoves
<1>5. /\ req.kind = "get" /\ d.ctrl.req = req /\ d.ctrl.len = Len(Answer(req))
      /\ total \in 0 .. Len(Answer(req))
      /\ Taken(p) /\ NoneAt0(events) /\ OneAt0(d.queue, Len(p), "in")
  BY <1>4 DEF Reading, Offered, Taken, AllRead, Silent0
<1>6. Way(ev) = "in" /\ n = Len(p) /\ NoneAt0(Tail(d.queue))
  BY <1>1, <1>3, <1>5, PacketLeaves
<1>7. /\ stop \in total .. Len(Answer(req)) /\ Len(p) = stop - total
      /\ Len(p) < Ep0Size => stop = Len(Answer(req))
      /\ Len(Answer(req)) \in Nat /\ Len(Answer(req)) <= req.want
      /\ req.want \in Nat
  BY <1>3, <1>5, PacketFacts, AnswerTyped, RequestTyped
<1>8. ev.dir = "in"
  BY <1>6 DEF Way, Inward
<1> HIDE DEF stop, p
<1>9. total \in Nat /\ n \in Nat /\ total + n = stop /\ stop \in 0 .. Len(Answer(req))
  <2> HIDE DEF n, total, req
  <2> QED
    BY <1>5, <1>6, <1>7
<1>10. /\ Shape(f) /\ DriverTyped(f) /\ CtrlTyped(f) /\ ~f.busyIn[0]
       /\ f.ctrl = d.ctrl /\ f.in[0] = d.in[0] /\ f.out[0] = d.out[0]
       /\ f.queue = Tail(d.queue) /\ f.address = d.address /\ f.sIn[0] = d.sIn[0]
  BY <1>1, <1>8 DEF Kept, SameEp0, AroundQueue, DriverTyped, CtrlTyped
<1>11. HostReads(f.ctrl.req) /\ ~AddressedBy(f, "in", n)
  BY <1>5, <1>10 DEF HostReads, AddressedBy
<1>12. d' = DataComplete(f, n)
  BY <1>8, <1>11 DEF ControlXferCb
<1> DEFINE c == [f EXCEPT !.ctrl.total = @ + n]
           ends == f.ctrl.total + n = f.ctrl.req.want \/ n < Ep0Size
<1>13. /\ Progressed(f, d', "in", n)
       /\ d'.ctrl.len = f.ctrl.len /\ d'.ctrl.total = f.ctrl.total + n
       /\ ends => d'.in[0] = f.in[0]
       /\ ~ends => /\ d'.in[0] = <<Part(c)>> /\ d'.sIn[0] = Sending(Part(c))
                   /\ d'.out[0] = f.out[0]
  <2> HIDE DEF n
  <2>1. LET r == DataComplete(f, n)
        IN /\ Progressed(f, r, "in", n)
           /\ r.ctrl.len = f.ctrl.len /\ r.ctrl.total = f.ctrl.total + n
           /\ ends => r.in[0] = f.in[0]
           /\ ~ends => /\ r.in[0] = <<Part(c)>> /\ r.sIn[0] = Sending(Part(c))
                       /\ r.out[0] = f.out[0]
    BY <1>9, <1>10, <1>11, DataProgress
  <2> QED
    BY <1>12, <2>1, Zenon
<1>14. Part(c) = Packet(req, stop)
  <2>1. c.ctrl.req = req /\ c.ctrl.len = Len(Answer(req)) /\ c.ctrl.total = stop
    BY <1>5, <1>9, <1>10 DEF Shape, DeviceFields
  <2> HIDE DEF c
  <2> QED
    BY <2>1, Zenon DEF Part, Packet, Stop
<1>15. ends <=> (Len(p) < Ep0Size \/ stop = req.want)
  BY <1>5, <1>6, <1>9, <1>10
<1> HIDE DEF c, ends, n
<1>16. /\ d'.queue = Tail(d.queue) /\ d'.ctrl.req = req /\ d'.address = d.address
       /\ d'.ctrl.len = Len(Answer(req)) /\ d'.ctrl.total = stop
  BY <1>5, <1>9, <1>10, <1>11, <1>13 DEF Progressed
<1>17. Silent0'
  BY <1>1, <1>5, <1>6, <1>16 DEF Silent0
<1>18. /\ host.stage = IF ends THEN "status" ELSE "in"
       /\ host.got = Upto(req, stop) /\ d.in[0] = << >> /\ ~d.out[0]
  BY <1>5, <1>15 DEF Taken, stop
<1>19. CASE ends
  <2>1. stop = Len(Answer(req))
    BY <1>7, <1>9, <1>15, <1>19
  <2>2. host.got = Answer(req)
    BY <1>3, <1>18, <2>1, WholeAnswer
  <2>3. AllRead'
    BY <1>2, <1>10, <1>13, <1>17, <1>18, <1>19, <2>2 DEF AllRead
  <2> QED
    BY <1>2, <1>5, <1>9, <1>16, <2>3 DEF Reading
<1>20. CASE ~ends
  <2>1. Packet(host'.req, d'.ctrl.total) = Part(c)
    BY <1>2, <1>14, <1>16, Zenon
  <2>2. Upto(host'.req, d'.ctrl.total) = host'.got
    BY <1>2, <1>16, <1>18, Zenon
  <2>3. Offered(Packet(host.req, d.ctrl.total))'
    BY <1>2, <1>10, <1>13, <1>17, <1>18, <1>20, <2>1, <2>2 DEF Offered
  <2> QED
    BY <1>2, <1>5, <1>9, <1>16, <2>3 DEF Reading
<1> QED
  BY <1>19, <1>20

(* A request that writes goes on with an empty packet, at most.            *)
LEMMA WriteGoesOn ==
  ASSUME UsbInv, TaskEvent, Writing, Head(d.queue).id = "xfer", Head(d.queue).ep = 0,
         NEW f, Kept(Rest, f),
         d' = ControlXferCb(f, Head(d.queue).dir, Head(d.queue).n)
  PROVE  Writing' /\ d'.address = d.address
<1> DEFINE ev == Head(d.queue)
           n == ev.n
<1>1. /\ d.queue # << >> /\ events' = events /\ HostView' = HostView
      /\ SomeSeq(events) /\ SomeSeq(d.queue) /\ Shape(d) /\ DriverTyped(d) /\ CtrlTyped(d)
      /\ AroundQueue(d, Rest) /\ Rest.queue = Tail(d.queue) /\ Rest.setups = d.setups
      /\ n \in Nat /\ ev.dir \in {"in", "out"}
  BY TaskFacts DEF QueuedTyped, UsbInv
<1>2. /\ host'.stage = host.stage /\ host'.req = host.req /\ host'.got = host.got
  BY <1>1 DEF HostView
<1>3. About0(ev)
  BY DEF About0
<1>4. ~NoneAt0(d.queue)
  BY <1>1, <1>3, PacketMoves
<1>5. /\ host.req.kind = "coding" /\ d.ctrl.req = host.req /\ host.got = << >>
      /\ d.in[0] = << >> /\ host.stage = "status"
      /\ NoneAt0(events) /\ OneAt0(d.queue, host.req.want, "out")
  BY <1>4 DEF Writing, Given, Silent0
<1>6. Way(ev) = "out" /\ NoneAt0(Tail(d.queue))
  BY <1>1, <1>3, <1>5, PacketLeaves
<1>7. ev.dir = "out"
  BY <1>1, <1>6 DEF Inward, Way
<1>8. /\ Shape(f) /\ DriverTyped(f) /\ CtrlTyped(f)
      /\ f.ctrl = d.ctrl /\ f.in[0] = d.in[0] /\ f.queue = Tail(d.queue)
      /\ f.address = d.address
  BY <1>1 DEF Kept, SameEp0, AroundQueue, DriverTyped, CtrlTyped
<1>9. ~HostReads(f.ctrl.req) /\ ~AddressedBy(f, "out", n)
  BY <1>5, <1>8 DEF HostReads, AddressedBy
<1>10. d' = DataComplete(f, n)
  <2>1. ~(("out" = "in") # HostReads(f.ctrl.req)) /\ f.ctrl.req.kind = "coding"
    BY <1>5, <1>8 DEF HostReads
  <2>2. ControlXferCb(f, "out", n) = DataComplete(f, n)
    BY <2>1, Zenon DEF ControlXferCb
  <2> QED
    BY <1>7, <2>2
<1>11. Progressed(f, d', "out", n) /\ d'.in[0] \in {f.in[0], << << >> >>}
  BY <1>1, <1>8, <1>9, <1>10, DataProgress
<1>12. d'.queue = Tail(d.queue) /\ d'.ctrl.req = d.ctrl.req /\ d'.address = d.address
  BY <1>8, <1>9, <1>11 DEF Progressed
<1>13. Silent0'
  BY <1>1, <1>5, <1>6, <1>12 DEF Silent0
<1> QED
  BY <1>2, <1>5, <1>8, <1>11, <1>12, <1>13 DEF Writing

LEMMA PacketHandled ==
  ASSUME Core, TaskEvent, Head(d.queue).id = "xfer", Head(d.queue).ep = 0,
         NEW f, Kept(Rest, f), Head(d.queue).dir = "in" => ~f.busyIn[0],
         d' = ControlXferCb(f, Head(d.queue).dir, Head(d.queue).n)
  PROVE  Core' /\ (UsbInv => UsbInv')
<1> DEFINE ev == Head(d.queue)
           n == ev.n
<1>1. /\ d.queue # << >> /\ events' = events /\ HostView' = HostView
      /\ SomeSeq(events) /\ SomeSeq(d.queue) /\ Shape(d) /\ DriverTyped(d) /\ CtrlTyped(d)
      /\ AroundQueue(d, Rest) /\ Rest.queue = Tail(d.queue) /\ Rest.setups = d.setups
      /\ n \in Nat /\ ev.dir \in {"in", "out"}
  BY TaskFacts DEF QueuedTyped
<1>2. /\ host'.stage = host.stage /\ host'.address = host.address
      /\ host'.req = host.req /\ host'.got = host.got /\ host'.done = host.done
  BY <1>1 DEF HostView
<1>3. About0(ev)
  BY DEF About0
<1>4. ~NoneAt0(d.queue) /\ ~Silent0
  BY <1>1, <1>3, PacketMoves DEF Silent0
<1>5. /\ Shape(f) /\ DriverTyped(f) /\ CtrlTyped(f)
      /\ f.ctrl = d.ctrl /\ f.queue = Tail(d.queue) /\ f.address = d.address
      /\ f.setups = d.setups
  BY <1>1 DEF Kept, SameEp0, AroundQueue, DriverTyped, CtrlTyped
<1>6. Progressed(f, d', ev.dir, n)
  BY <1>1, <1>5, CallbackProgress
<1>7. /\ Shape(d') /\ DriverTyped(d') /\ CtrlTyped(d')
      /\ d'.queue = Tail(d.queue) /\ d'.setups = d.setups /\ d'.ctrl.req = d.ctrl.req
      /\ d'.address = IF AddressedBy(d, ev.dir, n) THEN d.ctrl.req.v ELSE d.address
  BY <1>5, <1>6 DEF Progressed, AddressedBy
<1>8. Core' /\ (PumpsApart => PumpsApart')
  BY <1>7, TaskCore
<1> SUFFICES ASSUME UsbInv PROVE UsbInv'
  BY <1>8
<1>9. /\ QueuesInv' /\ (SetupPending' <=> SetupPending)
      /\ NoBus(d.queue) => NoBus(d'.queue)
  <2>1. PumpsApart'
    BY <1>8 DEF UsbInv, QueuesInv
  <2> QED
    BY <1>3, <1>7, <2>1, AfterPacket
<1>10. ASSUME SetupPending \/ host.done
       PROVE  /\ PendingInv' /\ TransferInv' /\ DoneInv'
              /\ host.stage # "none" => Agreed
  <2>1. host.done => ~SetupPending /\ host.stage = "none"
    BY DEF UsbInv, Core, UsbTyped, HostTyped, DoneInv
  <2>2. Closing /\ (host.stage # "none" => Agreed)
    BY <1>4, <1>10 DEF UsbInv, PendingInv, Quiet0, DoneInv
  <2>3. /\ Silent0' /\ d'.in[0] = d.in[0] /\ d'.out[0] = d.out[0]
        /\ d'.stalled = d.stalled /\ d'.sIn[0] = d.sIn[0]
    BY <2>2, TransferCloses
  <2>4. PendingInv'
    BY <1>2, <1>9, <2>3 DEF UsbInv, PendingInv, Quiet0, Begun
  <2>5. TransferInv' /\ DoneInv'
    BY <1>1, <1>2, <1>9, <1>10, <2>1, <2>3 DEF UsbInv, TransferInv, DoneInv
  <2> QED
    BY <2>2, <2>4, <2>5
<1>11. ASSUME ~SetupPending, ~host.done
       PROVE  /\ PendingInv' /\ TransferInv' /\ DoneInv'
              /\ host.stage # "none" => d'.address = d.address
  <2>1. ASSUME host.stage # "none"
        PROVE  (Reading' \/ Writing') /\ d'.address = d.address
    <3>1. Reading \/ Writing
      BY <1>4, <1>11, <2>1 DEF UsbInv, TransferInv, Refused
    <3> QED
      BY <2>1, <3>1, ReadGoesOn, WriteGoesOn
  <2> QED
    BY <1>2, <1>9, <1>11, <2>1 DEF PendingInv, TransferInv, DoneInv
<1>12. PendingInv' /\ TransferInv' /\ DoneInv'
  BY <1>10, <1>11
<1>13. AddressInv'
  <2>1. OnlyOut(d.queue) => OnlyOut(d'.queue) /\ ~Inward(ev)
    BY <1>1, <1>3, <1>7, PacketMoves
  <2>2. AddressedBy(d, ev.dir, n) => Inward(ev) /\ d.ctrl.req.kind = "addr"
    BY DEF AddressedBy, Inward
  <2>3. Naming => AddressedBy(d, ev.dir, n)
    <3>1. ASSUME Naming PROVE OneAt0(d.queue, 0, "in") /\ d.ctrl.req.kind = "addr"
      BY <1>4, <3>1 DEF Naming
    <3>2. ASSUME Naming PROVE Way(ev) = "in" /\ n = 0
      BY <1>1, <1>3, <3>1, <3>2, PacketLeaves
    <3>3. ASSUME Naming PROVE ev.dir = "in"
      BY <1>1, <3>2, <3>3 DEF Way, Inward
    <3> QED
      BY <3>1, <3>2, <3>3 DEF AddressedBy
  <2>4. ~Misled
    BY <1>4 DEF Misled
  <2>5. host.address # 0 /\ d.ctrl.req.kind = "addr"
          => d.ctrl.req.v = host.address \/ (OnlyOut(events) /\ OnlyOut(d.queue))
    BY DEF UsbInv, AddressInv
  <2>6. host.stage # "none" => host'.address = d'.address
    <3>1. host.stage # "none" => host.address = d.address
      BY DEF UsbInv, AddressInv
    <3>2. CASE SetupPending \/ host.done
      BY <1>2, <1>7, <1>10, <2>2, <3>1, <3>2 DEF Agreed
    <3>3. CASE ~SetupPending /\ ~host.done
      BY <1>2, <1>11, <3>1, <3>3
    <3> QED
      BY <3>2, <3>3
  <2>7. host.address # 0 /\ host.stage = "none" => d'.address = host.address
    <3>1. host.address # 0 /\ host.stage = "none" => d.address = host.address \/ Naming
      BY <2>4 DEF UsbInv, AddressInv
    <3>2. CASE AddressedBy(d, ev.dir, n)
      BY <1>7, <2>1, <2>2, <2>5, <3>2
    <3>3. CASE ~AddressedBy(d, ev.dir, n)
      BY <1>7, <2>3, <3>1, <3>3
    <3> QED
      BY <3>2, <3>3
  <2> QED
    BY <1>1, <1>2, <1>7, <2>1, <2>5, <2>6, <2>7 DEF AddressInv
<1> QED
  BY <1>8, <1>9, <1>12, <1>13 DEF UsbInv

LEMMA Tasks ==
  ASSUME Core, TaskEvent
  PROVE  Core' /\ (UsbInv => UsbInv')
<1> DEFINE ev == Head(d.queue)
<1>1. /\ d.queue # << >> /\ d' = Handled(Rest, ev) /\ QueuedTyped(ev) /\ SomeSeq(d.queue)
      /\ Shape(d) /\ AroundQueue(d, Rest) /\ Rest.queue = Tail(d.queue)
      /\ Rest.setups = d.setups
  BY TaskFacts
<1>2. Shape(Rest)
  BY <1>1 DEF AroundQueue
<1> HIDE DEF ev
<1>3. CASE BusEvent(ev)
  BY <1>3, BusHandled DEF ev
<1>4. CASE ev.id \in {"suspend", "resume"}
  <2>1. d' = Rest
    BY <1>1, <1>4 DEF Handled
  <2>2. Noise(ev)
    BY <1>4 DEF Noise, About0, BusEvent
  <2> QED
    BY <1>1, <2>1, <2>2, NoiseHandled DEF ev
<1>5. CASE ev.id = "setup"
  <2> DEFINE c == [Rest EXCEPT !.setups = @ - 1]
             f == [c EXCEPT !.connected = TRUE, !.busyIn[0] = FALSE, !.busyOut[0] = FALSE]
  <2>1. /\ d.setups = Cardinality(SetupsIn(d.queue)) /\ d.setups \in Nat
    BY <1>1, SetupsFinite DEF Core, Counted
  <2>2. HasSetup(d.queue)
    BY <1>1, <1>5, SetupLeaves DEF ev
  <2>3. d.setups # 0
    BY <1>1, <2>1, <2>2, NoSetups
  <2>4. AroundQueue(d, c) /\ c.queue = Tail(d.queue) /\ c.setups = d.setups - 1
    BY <1>1, <1>2 DEF AroundQueue, Shape, DeviceFields
  <2>5. d' = IF c.setups > 0 THEN c ELSE ControlRequest(f, ev.req)
    BY <1>1, <1>5, <2>3 DEF Handled, TaskSetup
  <2> HIDE DEF c
  <2>6. CASE c.setups > 0
    BY <1>5, <2>1, <2>4, <2>5, <2>6, SetupSkipped DEF ev
  <2>7. CASE ~(c.setups > 0)
    <3>1. d.setups = 1 /\ c.setups = 0
      BY <2>1, <2>3, <2>4, <2>7
    <3>2. AroundQueue(c, f) /\ f.queue = c.queue /\ f.setups = c.setups /\ ~f.busyIn[0]
      BY <2>4 DEF AroundQueue, Shape, DeviceFields, Eps
    <3> HIDE DEF f
    <3>3. AroundQueue(d, f) /\ f.queue = Tail(d.queue) /\ f.setups = 0
      BY <2>4, <3>1, <3>2 DEF AroundQueue
    <3>4. d' = ControlRequest(f, Head(d.queue).req)
      BY <2>5, <2>7 DEF ev
    <3> QED
      BY <1>5, <3>1, <3>2, <3>3, <3>4, SetupHandled DEF ev
  <2> QED
    BY <2>6, <2>7
<1>6. CASE ev.id = "xfer"
  <2> DEFINE f == IF ev.dir = "in" THEN [Rest EXCEPT !.busyIn[ev.ep] = FALSE]
                  ELSE [Rest EXCEPT !.busyOut[ev.ep] = FALSE]
  <2>1. ev.ep \in Eps /\ ev.dir \in {"in", "out"}
    BY <1>1, <1>6 DEF QueuedTyped
  <2>2. d' = IF ev.ep = 0 THEN ControlXferCb(f, ev.dir, ev.n)
             ELSE IF ~Rest.bound THEN f
             ELSE IF ev.dir = "in" THEN CdcSent(f, ev.n)
             ELSE CdcReceived(f, ev.n)
    BY <1>1, <1>6 DEF Handled, TaskXfer
  <2>3. Kept(Rest, f)
    <3>1. CASE ev.dir = "in"
      <4>1. CASE ev.ep = 0
        BY <1>2, <3>1, <4>1 DEF Kept, SameEp0, Shape, DeviceFields, Eps
      <4>2. CASE ev.ep = 2
        BY <1>2, <3>1, <4>2 DEF Kept, SameEp0, Shape, DeviceFields, Eps
      <4> QED
        BY <2>1, <4>1, <4>2 DEF Eps
    <3>2. CASE ev.dir = "out"
      <4>1. CASE ev.ep = 0
        BY <1>2, <3>2, <4>1 DEF Kept, SameEp0, Shape, DeviceFields, Eps
      <4>2. CASE ev.ep = 2
        BY <1>2, <3>2, <4>2 DEF Kept, SameEp0, Shape, DeviceFields, Eps
      <4> QED
        BY <2>1, <4>1, <4>2 DEF Eps
    <3> QED
      BY <2>1, <3>1, <3>2
  <2>4. ev.ep = 0 /\ ev.dir = "in" => ~f.busyIn[0]
    BY <1>2 DEF Shape, DeviceFields, Eps
  <2> HIDE DEF f
  <2>5. CASE ev.ep = 0
    <3>1. d' = ControlXferCb(f, ev.dir, ev.n)
      BY <2>2, <2>5
    <3> QED
      BY <1>6, <2>3, <2>4, <2>5, <3>1, PacketHandled DEF ev
  <2>6. CASE ev.ep # 0
    <3>1. Kept(f, CdcSent(f, ev.n)) /\ Kept(f, CdcReceived(f, ev.n)) /\ Kept(f, f)
      BY <2>3, SentKept, ReceivedKept0 DEF Kept, SameEp0
    <3>2. Kept(f, d')
      BY <2>2, <2>6, <3>1
    <3>3. Kept(Rest, d')
      BY <2>3, <3>2, KeptTwice
    <3>4. AroundQueue(d, d') /\ d'.queue = Tail(d.queue) /\ d'.setups = d.setups
      BY <1>1, <3>3 DEF Kept, SameEp0, AroundQueue
    <3>5. Noise(ev)
      BY <1>6, <2>6 DEF Noise, About0, BusEvent
    <3> QED
      BY <3>4, <3>5, NoiseHandled DEF ev
  <2> QED
    BY <2>5, <2>6
<1> QED
  BY <1>1, <1>3, <1>4, <1>5, <1>6 DEF QueuedTyped, BusEvent
-----------------------------------------------------------------------------
(***************************************************************************)
(* The theorems.                                                           *)
(***************************************************************************)
(* At all times: what every control transfer relies on, unless the last    *)
(* one was hurried.                                                        *)
ConsoleInv == Core /\ (host.hurried \/ UsbInv)

(* Only a SETUP says whether a transfer was hurried.                       *)
LEMMA HurryStays ==
  ASSUME Core, UsbNext, \A req \in Requests : ~HostSetup(req)
  PROVE  host'.hurried = host.hurried
<1>1. DOMAIN host = HostFields
  BY DEF Core, UsbTyped, HostTyped
<1>2. CASE MainLoop \/ Log
  BY <1>1, <1>2 DEF MainLoop, PumpEvent, PumpNone, TaskEvent, TaskNone, Stream, Log, HostFields
<1>3. CASE HostReset \/ HostUnplug
  BY <1>3 DEF HostReset, HostUnplug, IdleHost
<1>4. CASE HostSuspend \/ HostResume \/ TakeIn2 \/ \E n \in OutSizes : GiveOut2(n)
  BY <1>1, <1>4 DEF HostSuspend, HostResume, TakeIn2, GiveOut2, HostFields
<1>5. Abandoned.hurried = host.hurried /\ DOMAIN Abandoned = HostFields
  BY <1>1 DEF Abandoned, HostFields
<1>6. Finished.hurried = host.hurried
  BY <1>5 DEF Finished, HostFields
<1>7. CASE HostGiveUp \/ HostStalled
  BY <1>5, <1>7 DEF HostGiveUp, HostStalled
<1>8. CASE TakeIn0
  <2> DEFINE p == Head(d.in[0])
             got == host.got \o p
             stage == IF Len(p) < Ep0Size \/ Len(got) >= host.req.want THEN "status" ELSE "in"
  <2>1. \/ host' = Finished \/ host' = Abandoned
        \/ host' = [host EXCEPT !.got = got, !.stage = stage]
    BY <1>8 DEF TakeIn0
  <2> HIDE DEF got, stage
  <2> QED
    BY <1>1, <1>5, <1>6, <2>1 DEF HostFields
<1>9. CASE GiveOut0
  <2>1. host' = Finished \/ host' = [host EXCEPT !.stage = "status"]
    BY <1>9 DEF GiveOut0
  <2> QED
    BY <1>1, <1>6, <2>1 DEF HostFields
<1> QED
  BY <1>2, <1>3, <1>4, <1>7, <1>8, <1>9 DEF UsbNext, HostStep

LEMMA UsbStep ==
  ConsoleInv /\ [UsbNext]_usbVars => ConsoleInv'
<1> SUFFICES ASSUME ConsoleInv, [UsbNext]_usbVars PROVE ConsoleInv'
  OBVIOUS
<1>1. Core
  BY DEF ConsoleInv
<1>2. CASE \E req \in Requests : HostSetup(req)
  <2>1. PICK req \in Requests : HostSetup(req)
    BY <1>2
  <2>2. /\ Core' /\ host'.hurried = ~Unhurried
        /\ Unhurried /\ (host.hurried \/ UsbInv) => UsbInv'
    BY <1>1, <2>1, SetupSent
  <2> QED
    BY <2>2 DEF ConsoleInv
<1>3. CASE UsbNext /\ \A req \in Requests : ~HostSetup(req)
  <2>1. ASSUME MainLoop PROVE Core' /\ (UsbInv => UsbInv')
    BY <1>1, <2>1, Pumps, Tasks, LoopIdles DEF MainLoop
  <2>2. ASSUME Log PROVE Core' /\ (UsbInv => UsbInv')
    BY <1>1, <2>2, LoopIdles
  <2>3. ASSUME HostStep PROVE Core' /\ (UsbInv => UsbInv')
    BY <1>1, <1>3, <2>3, BusGoesDown, PortSteps, HostLetsGo, HostTakes, HostGives DEF HostStep
  <2>4. Core' /\ (UsbInv => UsbInv')
    BY <1>3, <2>1, <2>2, <2>3 DEF UsbNext
  <2>5. host'.hurried = host.hurried
    BY <1>1, <1>3, HurryStays
  <2> QED
    BY <2>4, <2>5 DEF ConsoleInv
<1>4. CASE UNCHANGED usbVars
  <2>1. Kept(d, d') /\ UNCHANGED <<events, host>> /\ pc' = pc
    BY <1>1, <1>4 DEF usbVars, Kept, SameEp0, Core, UsbTyped
  <2>2. pc' \in {"pump", "task", "stream"} /\ (PumpsApart => PumpsApart')
    BY <1>1, <1>4, <2>1 DEF usbVars, PumpsApart, Core, UsbTyped
  <2>3. Core' /\ (UsbInv => UsbInv')
    BY <1>1, <2>1, <2>2, QuietStep
  <2> QED
    BY <2>1, <2>3 DEF ConsoleInv
<1> QED
  BY <1>2, <1>3, <1>4 DEF UsbNext

(* ConsoleInv holds throughout.                                            *)
LEMMA ConsoleInvHolds ==
  UsbSpec => []ConsoleInv
<1>1. UsbInit => ConsoleInv
  BY InitIsInv DEF ConsoleInv, UsbInv
<1>2. ConsoleInv /\ [UsbNext]_usbVars => ConsoleInv'
  BY UsbStep
<1> QED
  BY <1>1, <1>2, PTL DEF UsbSpec

LEMMA AnswersFollow ==
  ConsoleInv => ControlAnswers
<1> SUFFICES ASSUME UsbInv, ~host.hurried PROVE ControlAnswers
  BY DEF ConsoleInv, ControlAnswers
<1> DEFINE req == host.req
           total == d.ctrl.total
           p == Packet(req, total)
           ans == Answer(req)
<1>0. host.stage # "none" => req \in Requests
  BY DEF UsbInv, Core, UsbTyped, HostTyped
<1>1. ASSUME host.stage = "in", d.in[0] # << >>
      PROVE  /\ IsPrefix(host.got \o Head(d.in[0]), ans)
             /\ Len(Head(d.in[0])) < Ep0Size \/ Len(host.got) + Ep0Size <= Len(ans)
  <2>1. Reading
    BY <1>1, UnderWay DEF Writing
  <2>2. /\ Offered(p) /\ total \in 0 .. Len(ans)
    BY <1>1, <2>1 DEF Reading, Taken, AllRead
  <2>3. Head(d.in[0]) = p /\ host.got = Upto(req, total)
    BY <2>2 DEF Offered
  <2>4. /\ Len(host.got) = total /\ host.got \o p = Upto(req, Stop(req, total))
        /\ Len(p) < Ep0Size \/ total + Ep0Size <= Len(ans)
        /\ Stop(req, total) \in total .. Len(ans)
    <3>1. /\ Len(Upto(req, total)) = total
          /\ Upto(req, total) \o p = Upto(req, Stop(req, total))
          /\ Len(p) < Ep0Size \/ total + Ep0Size <= Len(ans)
          /\ Stop(req, total) \in total .. Len(ans)
      BY <1>0, <1>1, <2>2, PacketFacts
    <3> QED
      BY <2>3, <3>1, Zenon
  <2>5. ans \in Seq(Bytes) /\ Len(ans) \in Nat
    BY <1>0, <1>1, AnswerTyped
  <2>6. IsPrefix(Upto(req, Stop(req, total)), ans)
    <3>1. Stop(req, total) \in 0 .. Len(ans)
      BY <2>2, <2>4, <2>5
    <3> DEFINE m == Stop(req, total)
               u == Upto(req, m)
    <3>2. Len(u) = m
      BY <1>0, <1>1, <3>1, PacketFacts
    <3> QED
      BY <2>5, <3>1, <3>2 DEF IsPrefix, Upto
  <2> QED
    BY <2>3, <2>4, <2>6
<1>2. ASSUME host.stage = "status", HostReads(req) PROVE host.got = ans
  <2>1. req \in Requests /\ req.kind = "get"
    BY <1>0, <1>2 DEF HostReads
  <2>2. ~SetupPending
    BY <1>2, <2>1 DEF UsbInv, PendingInv, Begun, FirstStage
  <2>3. Refused \/ Reading \/ Writing
    BY <1>2, <2>2 DEF UsbInv, TransferInv
  <2>4. Reading
    BY <1>2, <2>1, <2>3 DEF Refused, Writing, Begun, FirstStage
  <2>5. (Taken(p) \/ AllRead) /\ total \in 0 .. Len(ans)
    BY <1>2, <2>4 DEF Reading, Offered
  <2>6. CASE AllRead
    BY <2>6 DEF AllRead
  <2>7. CASE Taken(p)
    <3>1. /\ host.got = Upto(req, Stop(req, total))
          /\ Len(p) < Ep0Size \/ Stop(req, total) = req.want
      BY <1>2, <2>7 DEF Taken
    <3>2. /\ Stop(req, total) \in total .. Len(ans)
          /\ Len(p) < Ep0Size => Stop(req, total) = Len(ans)
      BY <2>1, <2>5, PacketFacts
    <3>3. Len(ans) \in Nat /\ req.want \in Nat /\ Len(ans) <= req.want
      BY <2>1, AnswerTyped, RequestTyped
    <3>4. Stop(req, total) = Len(ans)
      BY <2>5, <3>1, <3>2, <3>3
    <3> QED
      BY <2>1, <3>1, <3>4, WholeAnswer
  <2> QED
    BY <2>5, <2>6, <2>7
<1>3. ASSUME host.stage = "status", ~HostReads(req)
      PROVE  d.in[0] \in {<< >>, << << >> >>}
  <2>1. CASE d.in[0] = << >>
    BY <2>1
  <2>2. CASE d.in[0] # << >>
    <3>1. Reading \/ Writing
      BY <1>3, <2>2, UnderWay
    <3> QED
      BY <1>3, <3>1 DEF Reading, Writing, HostReads
  <2> QED
    BY <2>1, <2>2
<1> QED
  BY <1>1, <1>2, <1>3 DEF ControlAnswers

LEMMA AddressFollows ==
  ConsoleInv => AddressTaken
<1> SUFFICES ASSUME UsbInv, host.address # 0, Quiet, ~d.sIn[0].active
             PROVE  d.address = host.address
  BY DEF ConsoleInv, AddressTaken
<1>1. events = << >> /\ d.queue = << >>
  BY DEF Quiet
<1>2. \A n : ~OneAt0(<< >>, n, "in")
  BY EmptyIsSeq DEF OneAt0
<1>3. ~Naming /\ ~Misled
  BY <1>1, <1>2 DEF Naming, Misled
<1> QED
  BY <1>3 DEF UsbInv, AddressInv

(* A control transfer that was not hurried returns the right bytes in the  *)
(* right packets and an empty packet in its status stage, for any          *)
(* requests, sizes and number of resets, unplugs and transfers skipped,    *)
(* given up or hurried before it (usbd_control.c:82-126, 156-213,          *)
(* usbd.c:612-638).                                                        *)
THEOREM RightAnswers ==
  UsbSpec => []ControlAnswers
  BY ConsoleInvHolds, AnswersFollow, PTL

(* Once SET_ADDRESS is through and every event handled, the device answers *)
(* to the address the host uses, unless the last transfer was hurried or   *)
(* one cut off earlier holds endpoint 0 of the driver                      *)
(* (dcd_dspico.c:198-213, usbd_control.c:160-172).                         *)
THEOREM AddressKept ==
  UsbSpec => []AddressTaken
  BY ConsoleInvHolds, AddressFollows, PTL
=============================================================================
