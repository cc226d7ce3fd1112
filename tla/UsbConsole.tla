----------------------------- MODULE UsbConsole -----------------------------
(***************************************************************************)
(* The USB serial console of the DS test program: its main loop            *)
(* (source/main.c), which once a frame pumps the cartridge's events, runs  *)
(* the stack and streams the transcript to an open port; the stack of      *)
(* UsbStack; and, beside them, the controller on the cartridge and the     *)
(* host (both external).                                                   *)
(*                                                                         *)
(* The host resets, suspends and unplugs the bus, runs control transfers,  *)
(* may give one up, and reads and writes the serial endpoints.  Of the     *)
(* controller it is assumed that a SETUP withdraws what was prepared on    *)
(* endpoint 0, that a bus reset withdraws everything and takes address 0,  *)
(* and that at most CtlDepth events wait, the host waiting for room.       *)
(*                                                                         *)
(* The stack runs once a frame, a test stage stops it for longer, and the  *)
(* host need not wait for it.  When it starts a transfer while the stack   *)
(* has yet to hear of packets of one that was given up or cut off, the     *)
(* stack goes on with the old one on an endpoint that serves the new one   *)
(* already: nothing is claimed of such a transfer (host.hurried), but of   *)
(* every later one that was not hurried in turn.                           *)
(***************************************************************************)
EXTENDS UsbStack, SequencesExt

CONSTANTS
  Requests,     \* the control requests of the host
  CtlDepth,     \* how many events wait between two runs of tud_task
  OutSizes,     \* the lengths of the packets the host writes to the port
  DiagCap,      \* sizeof(sDiag) - 2, the longest transcript
  DiagStart,    \* its length when USB is started
  MaxResets, MaxSuspends, MaxGiveUps    \* bounds on the host's disturbances

(* A request with a data stage is for at least a byte.                     *)
ASSUME UsbConsoleAssumption ==
  /\ Requests \subseteq [kind : {"get", "addr", "cfg", "line", "coding", "other"},
                         v : Nat, len : Nat, want : Nat]
  /\ \A req \in Requests : req.kind \in {"get", "coding"} => req.want > 0
  /\ CtlDepth \in 1 .. QueueSize
  /\ \A n \in OutSizes : n \in 1 .. PacketSize
  /\ DiagStart \in 0 .. DiagCap

VARIABLES
  d,         \* the device (UsbStack)
  events,    \* the cartridge's event queue
  pc,        \* the main loop: "pump", "task" or "stream"
  sent,      \* how much of the transcript was written to the port
  diagLen,   \* sDiagLen
  host,      \* bus state, address, control transfer and what endpoint 2 gave;
             \* hurried: its last transfer began too early; done: it was
             \* not, and has ended; astray: a hurried one configured the port
  spent      \* resets, suspends and give-ups so far

usbVars == <<d, events, pc, sent, diagLen, host, spent>>

IdleHost ==
  [plugged |-> TRUE, asleep |-> FALSE, address |-> 0, cfg |-> 0, stage |-> "none",
   req |-> NoRequest, got |-> << >>, done |-> FALSE, hurried |-> FALSE, astray |-> FALSE,
   last |-> 0, ended |-> TRUE, wrote |-> 0]

UsbInit ==
  /\ d = StartedDevice
  /\ events = << >> /\ pc = "pump" /\ sent = 0 /\ diagLen = DiagStart
  /\ host = IdleHost
  /\ spent = [resets |-> 0, suspends |-> 0, giveUps |-> 0]
-----------------------------------------------------------------------------
(***************************************************************************)
(* The main loop.                                                          *)
(***************************************************************************)
(* gpk_usb_task reads events until the queue says that it gave the last.   *)
PumpEvent ==
  /\ pc = "pump" /\ events # << >>
  /\ d' = Pumped(d, Head(events))
  /\ events' = Tail(events)
  /\ pc' = IF Tail(events) = << >> THEN "task" ELSE "pump"
  /\ UNCHANGED <<sent, diagLen, host, spent>>

PumpNone ==
  /\ pc = "pump" /\ events = << >>
  /\ pc' = "task"
  /\ UNCHANGED <<d, events, sent, diagLen, host, spent>>

(* EP_OPEN starts the endpoints anew, also for the host's account.         *)
TaskEvent ==
  /\ pc = "task" /\ d.queue # << >>
  /\ LET ev == Head(d.queue)
         rest == [d EXCEPT !.queue = Tail(@)]
     IN /\ d' = Handled(rest, ev)
        /\ pc' = IF TaskReturns(rest, ev) THEN "stream" ELSE "task"
        /\ host' = IF d'.open /\ ~d.open THEN [host EXCEPT !.wrote = 0] ELSE host
  /\ UNCHANGED <<events, sent, diagLen, spent>>

TaskNone ==
  /\ pc = "task" /\ d.queue = << >>
  /\ pc' = "stream"
  /\ UNCHANGED <<d, events, sent, diagLen, host, spent>>

Chunk == Lesser(Lesser(diagLen - sent, FifoRemaining(d.tx)), PacketSize)

(* The transcript is the numbers 1 .. diagLen.                             *)
Stream ==
  /\ pc = "stream"
  /\ pc' = "pump"
  /\ IF ~Connected(d) THEN sent' = 0 /\ d' = d
     ELSE IF Chunk = 0 THEN UNCHANGED <<sent, d>>
     ELSE /\ d' = Flushed(CdcWritten(d, [k \in 1 .. Chunk |-> sent + k]))
          /\ sent' = sent + Writable(d.tx, Chunk)
  /\ UNCHANGED <<events, diagLen, host, spent>>

(* gpk_log, from the test stages that run between two frames.              *)
Log ==
  /\ pc = "pump" /\ diagLen < DiagCap
  /\ diagLen' = diagLen + 1
  /\ UNCHANGED <<d, events, pc, sent, host, spent>>
-----------------------------------------------------------------------------
(***************************************************************************)
(* External: the controller and the host.                                  *)
(***************************************************************************)
Awake == host.plugged /\ ~host.asleep
Room == Len(events) + Len(d.queue) < CtlDepth
Report(ev) == Room /\ events' = Append(events, ev)

(* A bus reset, and pulling the plug, withdraw all that was prepared.      *)
Quiesced ==
  [d EXCEPT !.in = [e \in Eps |-> << >>], !.out = [e \in Eps |-> FALSE],
            !.open = FALSE, !.stalled = FALSE, !.address = 0]

HostReset ==
  /\ spent.resets < MaxResets
  /\ Report([id |-> "reset"])
  /\ d' = Quiesced
  /\ host' = [IdleHost EXCEPT !.hurried = host.hurried]
  /\ spent' = [spent EXCEPT !.resets = @ + 1]
  /\ UNCHANGED <<pc, sent, diagLen>>

HostUnplug ==
  /\ host.plugged
  /\ Report([id |-> "unplugged"])
  /\ d' = Quiesced
  /\ host' = [IdleHost EXCEPT !.plugged = FALSE, !.hurried = host.hurried]
  /\ UNCHANGED <<pc, sent, diagLen, spent>>

HostSuspend ==
  /\ Awake /\ host.stage = "none"
  /\ spent.suspends < MaxSuspends
  /\ Report([id |-> "suspend"])
  /\ host' = [host EXCEPT !.asleep = TRUE]
  /\ spent' = [spent EXCEPT !.suspends = @ + 1]
  /\ UNCHANGED <<d, pc, sent, diagLen>>

HostResume ==
  /\ host.plugged /\ host.asleep
  /\ Report([id |-> "resume"])
  /\ host' = [host EXCEPT !.asleep = FALSE]
  /\ UNCHANGED <<d, pc, sent, diagLen, spent>>

(* No packet of endpoint 0 is still to be reported to the stack.           *)
NoneWaits ==
  /\ \A k \in DOMAIN events : events[k].id \in {"in", "out"} => events[k].ep # 0
  /\ \A k \in DOMAIN d.queue : d.queue[k].id = "xfer" => d.queue[k].ep # 0

(* No SETUP lies between gpk_usb_task and tud_task, and no packet of an    *)
(* earlier transfer waits but for the one that ended the last: transfers   *)
(* may follow each other at once.  The driver holds no transfer that was   *)
(* cut off and takes that packet for a part of it.                         *)
Unhurried ==
  /\ \A k \in DOMAIN d.queue : d.queue[k].id # "setup"
  /\ NoneWaits \/ (host.done /\ d.sIn[0].remaining = 0)

(* A request is heard only at the address the device answers to.           *)
HostSetup(req) ==
  /\ Awake /\ host.stage = "none" /\ host.address = d.address
  /\ Report([id |-> "setup", req |-> req])
  /\ d' = [d EXCEPT !.in[0] = << >>, !.out[0] = FALSE, !.stalled = FALSE]
  /\ host' = [host EXCEPT !.req = req, !.got = << >>,
                          !.hurried = ~Unhurried, !.done = FALSE,
                          !.stage = IF req.kind = "get" THEN "in"
                                    ELSE IF req.kind = "coding" THEN "out" ELSE "status"]
  /\ UNCHANGED <<pc, sent, diagLen, spent>>

(* The host is rid of its transfer: given up, stalled or out of step.      *)
Abandoned == [host EXCEPT !.stage = "none", !.req = NoRequest, !.got = << >>]

HostGiveUp ==
  /\ host.stage # "none" /\ spent.giveUps < MaxGiveUps
  /\ host' = Abandoned
  /\ spent' = [spent EXCEPT !.giveUps = @ + 1]
  /\ UNCHANGED <<d, events, pc, sent, diagLen>>

HostStalled ==
  /\ host.stage # "none" /\ d.stalled
  /\ host' = Abandoned
  /\ UNCHANGED <<d, events, pc, sent, diagLen, spent>>

Finished ==
  [Abandoned EXCEPT !.done = ~host.hurried,
                    !.address = IF host.req.kind = "addr" THEN host.req.v ELSE @,
                    !.cfg = IF host.req.kind = "cfg" THEN host.req.v ELSE @,
                    !.astray = @ \/ (host.req.kind = "cfg" /\ host.hurried)]

TakeIn0 ==
  /\ d.in[0] # << >> /\ ~d.stalled /\ host.address = d.address
  /\ \/ host.stage = "in"
     \/ host.stage = "status" /\ ~HostReads(host.req)
  /\ LET p == Head(d.in[0])
         got == host.got \o p
     IN /\ Report([id |-> "in", ep |-> 0, n |-> Len(p)])
        /\ host' = IF host.stage = "status" THEN IF p = << >> THEN Finished ELSE Abandoned
                   ELSE [host EXCEPT !.got = got,
                                     !.stage = IF Len(p) < Ep0Size \/ Len(got) >= host.req.want
                                               THEN "status" ELSE "in"]
  /\ d' = [d EXCEPT !.in[0] = << >>]
  /\ UNCHANGED <<pc, sent, diagLen, spent>>

GiveOut0 ==
  /\ d.out[0] /\ ~d.stalled /\ host.address = d.address
  /\ \/ /\ host.stage = "out"
        /\ Report([id |-> "out", ep |-> 0, n |-> host.req.want])
        /\ host' = [host EXCEPT !.stage = "status"]
     \/ /\ host.stage = "status" /\ HostReads(host.req)
        /\ Report([id |-> "out", ep |-> 0, n |-> 0])
        /\ host' = Finished
  /\ d' = [d EXCEPT !.out[0] = FALSE]
  /\ UNCHANGED <<pc, sent, diagLen, spent>>

(* The host uses the port of a device that it configured.                  *)
InUse == host.cfg # 0 /\ d.open

TakeIn2 ==
  /\ Awake /\ InUse /\ d.in[2] # << >>
  /\ LET p == Head(d.in[2])
     IN /\ Report([id |-> "in", ep |-> 2, n |-> Len(p)])
        /\ host' = [host EXCEPT !.last = IF p = << >> THEN @ ELSE Last(p),
                                !.ended = (Len(p) < PacketSize)]
  /\ d' = [d EXCEPT !.in[2] = << >>]
  /\ UNCHANGED <<pc, sent, diagLen, spent>>

GiveOut2(n) ==
  /\ Awake /\ InUse /\ d.out[2]
  /\ Report([id |-> "out", ep |-> 2, n |-> n])
  /\ host' = [host EXCEPT !.wrote = @ + n]
  /\ d' = [d EXCEPT !.out[2] = FALSE]
  /\ UNCHANGED <<pc, sent, diagLen, spent>>
-----------------------------------------------------------------------------
MainLoop == PumpEvent \/ PumpNone \/ TaskEvent \/ TaskNone \/ Stream

HostStep ==
  \/ HostReset \/ HostUnplug \/ HostSuspend \/ HostResume
  \/ (\E req \in Requests : HostSetup(req)) \/ HostGiveUp \/ HostStalled
  \/ TakeIn0 \/ GiveOut0 \/ TakeIn2 \/ (\E n \in OutSizes : GiveOut2(n))

UsbNext == MainLoop \/ Log \/ HostStep

(* The main loop runs a frame after the other, every test stage between    *)
(* two frames ending (some step of MainLoop is always enabled, so to be    *)
(* fair to it is to take one again and again); the host goes on with a     *)
(* control transfer and reads the port, also if it can do so only between  *)
(* control transfers that fill the event queue, but need never start,      *)
(* repeat, resume or end anything.                                         *)
UsbSpec ==
  /\ UsbInit /\ [][UsbNext]_usbVars
  /\ []<><<MainLoop>>_usbVars
  /\ WF_usbVars(TakeIn0) /\ WF_usbVars(GiveOut0) /\ WF_usbVars(HostStalled)
  /\ SF_usbVars(TakeIn2)
-----------------------------------------------------------------------------
(* The transcript between its two ends: what the host read last, what      *)
(* waits for the host, what the class buffers and what comes next.         *)
Pipeline ==
  <<host.last>> \o (IF d.in[2] = << >> THEN << >> ELSE Head(d.in[2]))
    \o Contents(d.tx) \o <<IF Connected(d) THEN sent + 1 ELSE 1>>

(* The host reads the transcript with no byte lost, repeated or changed    *)
(* on the way through the ring buffer, the packets and the two queues: at  *)
(* any time the bytes under way continue what it has read, except where    *)
(* the port was closed and the transcript starts again from its beginning  *)
(* (main.c:844-864, cdc_device.c:176-221, 485-503).                        *)
StreamWhole ==
  InUse => \A k \in 1 .. Len(Pipeline) - 1 :
              Pipeline[k + 1] \in {Pipeline[k] + 1, 1}

(* A control transfer returns the right bytes in the right packets, and    *)
(* only an empty packet in its status stage, whatever transfers were       *)
(* skipped, cut off by a reset, given up or hurried before it, also when   *)
(* it follows at the heels of another; but not when it is hurried itself,  *)
(* before the stack heard of the packets of a transfer that was cut off    *)
(* (usbd_control.c:82-126, 156-213, usbd.c:612-638).                       *)
ControlAnswers == ~host.hurried =>
  /\ host.stage = "in" /\ d.in[0] # << >> =>
       /\ IsPrefix(host.got \o Head(d.in[0]), Answer(host.req))
       /\ Len(Head(d.in[0])) < Ep0Size \/ Len(host.got) + Ep0Size <= Len(Answer(host.req))
  /\ host.stage = "status" /\ HostReads(host.req) => host.got = Answer(host.req)
  /\ host.stage = "status" /\ ~HostReads(host.req) => d.in[0] \in {<< >>, << << >> >>}

(* What is in the events about data received on endpoint 2.                *)
Arriving(q, id) ==
  FoldLeft(LAMBDA n, ev : IF ev.id = id /\ ev.ep = 2 /\ (id = "out" \/ ev.dir = "out")
                          THEN n + ev.n ELSE n, 0, q)

(* The class accepts a packet from the host only if it can store all of    *)
(* it: nothing written to the port is lost, although nothing ever reads    *)
(* it, unless the host took a hurried SET_CONFIGURATION for done           *)
(* (cdc_device.c:87-116, 464-483).                                         *)
ReceivedKept ==
  InUse /\ ~host.astray => host.wrote = d.rx + Arriving(events, "out") + Arriving(d.queue, "xfer")

(* Every control transfer that was not hurried ends, by its status stage,  *)
(* a stall or the host's own doing: no SETUP is dropped or waits for       *)
(* another, also when several and bus resets wait together, and whatever   *)
(* hurried ones left behind (usbd.c:612-638, dcd_dspico.c:198-213).        *)
ControlEnds == (host.stage # "none" /\ ~host.hurried) ~> (host.stage = "none")

PortOpen == Awake /\ InUse /\ Connected(d)
Arrived == host.last = diagLen /\ host.ended

(* The class buffer is full and no transfer is under way that would end in *)
(* a flush: Stream finds no room, and only a write flushes.                *)
Jammed == FifoRemaining(d.tx) = 0 /\ ~d.busyIn[2]

(* While the port stays open the transcript arrives, to its last byte and  *)
(* with a short packet behind it, unless a suspend swallowed the flush of  *)
(* a full buffer (main.c:849-860, cdc_device.c:488-503).                   *)
TranscriptArrives == <>[]PortOpen => []<>(Arrived \/ Jammed)

Quiet == events = << >> /\ d.queue = << >> /\ pc = "pump"

(* When the host has been through SET_ADDRESS and every event was handled, *)
(* the device answers to the address, unless the last transfer was hurried *)
(* or one that was cut off earlier still holds endpoint 0 of the driver:   *)
(* the empty packet of the status stage is then taken for a part of it,    *)
(* and never reported (dcd_dspico.c:198-213, 364-372,                      *)
(* usbd_control.c:160-172).                                                *)
AddressTaken ==
  host.address # 0 /\ Quiet /\ ~d.sIn[0].active /\ ~host.hurried => d.address = host.address
=============================================================================
