------------------------------ MODULE UsbStack ------------------------------
(***************************************************************************)
(* The USB device stack of the DS test program: the DSpico driver          *)
(* (usb/dcd_dspico.c), tinyusb's device core and control transfers         *)
(* (device/usbd.c, device/usbd_control.c) and its CDC class                *)
(* (class/cdc/cdc_device.c), as the program builds them: no OS, one CDC    *)
(* interface, endpoint 0 for control and endpoint 2 for the serial data.   *)
(*                                                                         *)
(* A function of the code is an operator from the device d to the device   *)
(* after the call, so that a chain of calls composes.  d holds             *)
(*   - the controller on the cartridge (external), as card commands set    *)
(*     it: address, in[e] (no packet or the one waiting for the host),     *)
(*     out[e] (a buffer waits for the host), open, stalled;                *)
(*   - the driver: sIn[e];                                                 *)
(*   - the stack: queue, setups, connected, suspended, cfg, busyIn[e],     *)
(*     busyOut[e], ctrl;                                                   *)
(*   - the class: bound (its endpoints and interfaces), dtr, tx, rx.       *)
(* Every transfer here is at most a packet (64 bytes), so one buffer of    *)
(* the driver's two is used (UsbEndpoints has the longer ones), and the    *)
(* driver's OUT side passes a completion on unchanged.  `claimed' is set   *)
(* only within a call that also sets `busy'.                               *)
(*                                                                         *)
(* A request is [kind, v, len, want]: "get" reads len bytes of which the   *)
(* host wants some; "addr", "cfg", "line" and "coding" are SET_ADDRESS,    *)
(* SET_CONFIGURATION, SET_CONTROL_LINE_STATE and SET_LINE_CODING with      *)
(* value v; "other" is any that the stack refuses.                         *)
(***************************************************************************)
EXTENDS TuFifo

CONSTANTS
  Ep0Size,    \* CFG_TUD_ENDPOINT0_SIZE, 64
  PacketSize, \* BULK_PACKET_SIZE and CFG_TUD_CDC_EP_BUFSIZE, 64
  TxDepth,    \* CFG_TUD_CDC_TX_BUFSIZE, 512
  RxDepth,    \* CFG_TUD_CDC_RX_BUFSIZE, 256
  QueueSize   \* CFG_TUD_TASK_QUEUE_SZ, 16

ASSUME UsbStackAssumption ==
  /\ Ep0Size \in Nat \ {0} /\ PacketSize \in Nat \ {0} /\ QueueSize \in Nat \ {0}
  /\ TxDepth \in PacketSize .. 32768 /\ RxDepth \in PacketSize .. 32768

Eps == {0, 2}
NoRequest == [kind |-> "none", v |-> 0, len |-> 0, want |-> 0]
NoCtrl == [req |-> NoRequest, len |-> 0, total |-> 0, cb |-> FALSE]
IdleIn == [active |-> FALSE, tx |-> << >>, remaining |-> 0]

HostReads(req) == req.kind = "get"

(* After tud_init: cdcd_init leaves the transmit buffer overwritable.      *)
StartedDevice ==
  [address |-> 0, in |-> [e \in Eps |-> << >>], out |-> [e \in Eps |-> FALSE],
   open |-> FALSE, stalled |-> FALSE,
   sIn |-> [e \in Eps |-> IdleIn],
   queue |-> << >>, setups |-> 0, connected |-> FALSE, suspended |-> FALSE,
   cfg |-> 0, busyIn |-> [e \in Eps |-> FALSE], busyOut |-> [e \in Eps |-> FALSE],
   ctrl |-> NoCtrl,
   bound |-> FALSE, dtr |-> FALSE, tx |-> NewFifo(TxDepth, TRUE), rx |-> 0]
-----------------------------------------------------------------------------
(***************************************************************************)
(* The driver.  queue_event drops an event that finds the queue full.      *)
(***************************************************************************)
Queued(d, ev) ==
  IF Len(d.queue) < QueueSize THEN [d EXCEPT !.queue = Append(@, ev)] ELSE d

XferComplete(e, dir, n) == [id |-> "xfer", ep |-> e, dir |-> dir, n |-> n]

(* dcd_edpt_xfer *)
DcdXferIn(d, e, p) ==
  [d EXCEPT !.in[e] = <<p>>, !.sIn[e] = [active |-> TRUE, tx |-> p, remaining |-> Len(p)]]

DcdXferOut(d, e) == [d EXCEPT !.out[e] = TRUE]

(* What a controller sends of a buffer that the driver never filled.       *)
Foreign == [k \in 1 .. Ep0Size |-> <<0, k>>]
Wrapped == 0 - 1

(* in_complete: a transfer with bytes left hands its buffer over again;    *)
(* remaining is unsigned, so that a completion of more bytes than it says  *)
(* wraps it to a number (Wrapped) that no completion brings back to zero.  *)
InComplete(d, e, n) ==
  LET ep == d.sIn[e]
      left == ep.remaining - n
  IN IF ~ep.active THEN Queued(d, XferComplete(e, "in", n))
     ELSE IF left = 0
     THEN Queued([d EXCEPT !.sIn[e] = IdleIn], XferComplete(e, "in", Len(ep.tx)))
     ELSE IF left > 0
     THEN [d EXCEPT !.sIn[e].remaining = left, !.in[e] = <<SubSeq(ep.tx, 1, left)>>]
     ELSE [d EXCEPT !.sIn[e].remaining = Wrapped, !.in[e] = <<Foreign>>]

(* dcd_event_handler, for SETUP and bus signals *)
SetupReceived(d, req) ==
  Queued([d EXCEPT !.setups = @ + 1], [id |-> "setup", req |-> req])

Unplugged(d) ==
  Queued([d EXCEPT !.connected = FALSE, !.cfg = 0, !.suspended = FALSE],
         [id |-> "unplugged"])

BusIdle(d, idle) ==
  IF d.connected
  THEN Queued([d EXCEPT !.suspended = idle],
              [id |-> IF idle THEN "suspend" ELSE "resume"])
  ELSE d

(* gpk_usb_task, one event *)
Pumped(d, ev) ==
  CASE ev.id = "setup" -> SetupReceived(d, ev.req)
    [] ev.id = "in" -> InComplete(d, ev.ep, ev.n)
    [] ev.id = "out" -> Queued(d, XferComplete(ev.ep, "out", ev.n))
    [] ev.id = "reset" -> Queued(d, [id |-> "reset"])
    [] ev.id = "unplugged" -> Unplugged(d)
    [] ev.id = "suspend" -> BusIdle(d, TRUE)
    [] ev.id = "resume" -> BusIdle(d, FALSE)
-----------------------------------------------------------------------------
(***************************************************************************)
(* usbd_edpt_xfer refuses a busy endpoint.                                 *)
(***************************************************************************)
XferIn(d, e, p) ==
  IF d.busyIn[e] THEN d ELSE DcdXferIn([d EXCEPT !.busyIn[e] = TRUE], e, p)

XferOut(d, e) ==
  IF d.busyOut[e] THEN d ELSE DcdXferOut([d EXCEPT !.busyOut[e] = TRUE], e)

StalledEp0(d) == [d EXCEPT !.stalled = TRUE]

(* tud_ready and tud_cdc_connected *)
Ready(d) == d.cfg # 0 /\ ~d.suspended
Connected(d) == Ready(d) /\ d.dtr
-----------------------------------------------------------------------------
(***************************************************************************)
(* The CDC class.                                                          *)
(***************************************************************************)
(* Deviation: a packet is taken from the buffer while the last one waits.  *)
FlushedAlways(d) ==
  XferIn([d EXCEPT !.tx = FifoRead(@, PacketSize)], 2, FifoFirst(d.tx, PacketSize))

(* tud_cdc_n_write_flush: with no claim on the endpoint it does nothing    *)
CanFlush(d) == Ready(d) /\ FifoCount(d.tx) > 0 /\ ~d.busyIn[2]

Flushed(d) ==
  IF CanFlush(d)
  THEN XferIn([d EXCEPT !.tx = FifoRead(@, PacketSize)], 2, FifoFirst(d.tx, PacketSize))
  ELSE d

(* tud_cdc_n_write *)
CdcWritten(d, items) ==
  LET w == [d EXCEPT !.tx = FifoWritten(@, items)]
  IN IF FifoCount(w.tx) >= PacketSize THEN Flushed(w) ELSE w

(* Deviation: the room in the receive buffer is not asked for.             *)
PrepOutBlind(d) == IF Ready(d) /\ d.bound /\ ~d.busyOut[2] THEN XferOut(d, 2) ELSE d

(* _prep_out_transaction *)
PrepOut(d) ==
  IF Ready(d) /\ d.bound /\ RxDepth - d.rx >= PacketSize /\ ~d.busyOut[2]
  THEN XferOut(d, 2) ELSE d

(* Deviation: no empty packet ends a transfer of full ones.                *)
CdcSentShort(d, n) == Flushed(d)

(* cdcd_xfer_cb: after the last packet, if it was full, an empty one       *)
CdcSent(d, n) ==
  IF CanFlush(d) THEN Flushed(d)
  ELSE IF FifoCount(d.tx) = 0 /\ n # 0 /\ n % PacketSize = 0 /\ ~d.busyIn[2]
  THEN XferIn(d, 2, << >>)
  ELSE d

CdcReceived(d, n) == PrepOut([d EXCEPT !.rx = Lesser(@ + n, RxDepth)])

(* cdcd_reset and configuration_reset *)
ConfigurationReset(d) ==
  [d EXCEPT !.bound = FALSE, !.dtr = FALSE, !.rx = 0,
            !.tx = SetOverwritable(Cleared(@), TRUE),
            !.connected = FALSE, !.suspended = FALSE, !.cfg = 0,
            !.busyIn = [e \in Eps |-> FALSE], !.busyOut = [e \in Eps |-> FALSE]]

(* process_set_config and cdcd_open; EP_OPEN empties an endpoint           *)
CdcOpened(d) ==
  PrepOut([d EXCEPT !.bound = TRUE, !.open = TRUE, !.in[2] = << >>, !.out[2] = FALSE])

(* dcd_edpt_close_all *)
EpCloseAll(d) == [d EXCEPT !.open = FALSE, !.in[2] = << >>, !.out[2] = FALSE]

(* cdcd_control_xfer_cb at CONTROL_STAGE_ACK *)
CdcAck(d, req) ==
  IF req.kind = "line"
  THEN [d EXCEPT !.dtr = (req.v = 1), !.tx = SetOverwritable(@, req.v # 1)]
  ELSE d
-----------------------------------------------------------------------------
(***************************************************************************)
(* Control transfers.                                                      *)
(***************************************************************************)
StatusStage(d) == IF HostReads(d.ctrl.req) THEN XferOut(d, 0) ELSE XferIn(d, 0, << >>)

(* The bytes a read returns.                                               *)
Answer(req) == [k \in 1 .. Lesser(req.len, req.want) |-> <<req.len, k>>]

(* data_stage_xact *)
DataStage(d) ==
  IF HostReads(d.ctrl.req)
  THEN XferIn(d, 0, SubSeq(Answer(d.ctrl.req), d.ctrl.total + 1,
                           Lesser(d.ctrl.len, d.ctrl.total + Ep0Size)))
  ELSE XferOut(d, 0)

(* tud_control_status *)
ControlStatus(d, req) == StatusStage([d EXCEPT !.ctrl =
  [req |-> req, len |-> 0, total |-> 0, cb |-> d.ctrl.cb]])

(* Deviation: the progress of the transfer before is kept.                 *)
ControlXferContinues(d, req) ==
  LET c == [d EXCEPT !.ctrl.req = req, !.ctrl.len = Lesser(req.len, req.want)]
  IN IF req.want > 0 THEN DataStage(c) ELSE StatusStage(c)

(* tud_control_xfer *)
ControlXfer(d, req) ==
  LET c == [d EXCEPT !.ctrl = [req |-> req, len |-> Lesser(req.len, req.want),
                               total |-> 0, cb |-> d.ctrl.cb]]
  IN IF req.want > 0 THEN DataStage(c) ELSE StatusStage(c)

(* SET_ADDRESS: BEGIN_SET_ADDR makes the controller answer                 *)
BeginSetAddress(d, req) ==
  [d EXCEPT !.ctrl = [req |-> req, len |-> 0, total |-> 0, cb |-> FALSE],
            !.in[0] = << << >> >>]

(* SET_CONFIGURATION *)
SetConfiguration(d, req) ==
  LET cleared == IF d.cfg # 0
                 THEN [ConfigurationReset(EpCloseAll(d)) EXCEPT !.cfg = req.v]
                 ELSE [d EXCEPT !.cfg = req.v]
  IN IF d.cfg = req.v THEN ControlStatus(d, req)
     ELSE IF req.v = 0 THEN ControlStatus(cleared, req)
     ELSE IF cleared.bound THEN StalledEp0([cleared EXCEPT !.cfg = 0])
     ELSE ControlStatus(CdcOpened(cleared), req)

(* process_control_request; class requests need the interface              *)
ControlRequest(d, req) ==
  LET n == [d EXCEPT !.ctrl.cb = FALSE]
      c == [d EXCEPT !.ctrl.cb = TRUE]
  IN CASE req.kind = "get" -> ControlXfer(n, req)
       [] req.kind = "addr" -> BeginSetAddress(n, req)
       [] req.kind = "cfg" -> SetConfiguration(n, req)
       [] req.kind = "line" /\ d.bound -> ControlStatus(c, req)
       [] req.kind = "coding" /\ d.bound -> ControlXfer(c, req)
       [] OTHER -> StalledEp0(n)

(* Deviation: only class requests reach the driver's completion.           *)
StatusCompleteForClass(d, n) ==
  IF n = 0 /\ d.ctrl.cb THEN CdcAck(d, d.ctrl.req) ELSE d

(* usbd_control_xfer_cb at the end of the status stage, with               *)
(* dcd_edpt0_status_complete                                               *)
StatusComplete(d, n) ==
  LET req == d.ctrl.req
      named == IF req.kind = "addr" THEN [d EXCEPT !.address = req.v] ELSE d
  IN IF n # 0 THEN d
     ELSE IF d.ctrl.cb THEN CdcAck(named, req) ELSE named

(* usbd_control_xfer_cb in the data stage                                  *)
DataComplete(d, n) ==
  LET c == [d EXCEPT !.ctrl.total = @ + n]
  IN IF c.ctrl.total = c.ctrl.req.want \/ n < Ep0Size THEN StatusStage(c) ELSE DataStage(c)

ControlXferCb(d, dir, n) ==
  IF (dir = "in") # HostReads(d.ctrl.req) THEN StatusComplete(d, n)
  ELSE IF dir = "out" /\ d.ctrl.req.kind # "coding" THEN d
  ELSE DataComplete(d, n)
-----------------------------------------------------------------------------
(***************************************************************************)
(* tud_task, one event.                                                    *)
(***************************************************************************)
UsbdReset(d) == [ConfigurationReset(d) EXCEPT !.ctrl = NoCtrl]

(* Deviation: a transfer that was cut off keeps endpoint 0 busy.           *)
TaskSetupKeepsBusy(d, req) ==
  LET c == [d EXCEPT !.setups = @ - 1, !.connected = TRUE]
  IN IF d.setups = 0 THEN d
     ELSE IF c.setups > 0 THEN [d EXCEPT !.setups = @ - 1]
     ELSE ControlRequest(c, req)

TaskSetup(d, req) ==
  LET c == [d EXCEPT !.setups = @ - 1]
      f == [c EXCEPT !.connected = TRUE, !.busyIn[0] = FALSE, !.busyOut[0] = FALSE]
  IN IF d.setups = 0 THEN d
     ELSE IF c.setups > 0 THEN c
     ELSE ControlRequest(f, req)

TaskXfer(d, ev) ==
  LET f == IF ev.dir = "in" THEN [d EXCEPT !.busyIn[ev.ep] = FALSE]
           ELSE [d EXCEPT !.busyOut[ev.ep] = FALSE]
  IN IF ev.ep = 0 THEN ControlXferCb(f, ev.dir, ev.n)
     ELSE IF ~d.bound THEN f
     ELSE IF ev.dir = "in" THEN CdcSent(f, ev.n)
     ELSE CdcReceived(f, ev.n)

(* The assertions that make tud_task return with events left in its queue. *)
TaskReturns(d, ev) ==
  \/ ev.id = "xfer" /\ ev.ep # 0 /\ ~d.bound
  \/ ev.id = "setup" /\ d.setups = 0

Handled(d, ev) ==
  CASE ev.id = "reset" -> UsbdReset(d)
    [] ev.id = "unplugged" -> UsbdReset(d)
    [] ev.id = "setup" -> TaskSetup(d, ev.req)
    [] ev.id = "xfer" -> TaskXfer(d, ev)
    [] OTHER -> d
=============================================================================
