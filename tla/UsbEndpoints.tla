---------------------------- MODULE UsbEndpoints ----------------------------
(***************************************************************************)
(* The DSpico USB driver (ds-test/usb/dcd_dspico.c): one IN and one OUT    *)
(* endpoint, each with two buffers of Blk bytes on the cartridge, filled   *)
(* and read by card commands while the controller moves the other one over *)
(* USB.  The ARM9 runs the driver; the controller and the host (external,  *)
(* modelled from how the driver uses them) run beside it and report each   *)
(* finished buffer in the event queue that gpk_usb_task polls.             *)
(*                                                                         *)
(* A byte is <<transfer, position>>, so that a stale, lost or repeated     *)
(* byte differs from the one that was meant.  SETUP, SOF and bus signals   *)
(* are passed to the stack without touching an endpoint, and are left out; *)
(* so are events of an endpoint that has no transfer, which in_complete    *)
(* and out_complete pass on too.                                           *)
(***************************************************************************)
EXTENDS Integers, Sequences

CONSTANTS
  Blk,       \* 512, the size of a cartridge buffer
  Lengths    \* the transfer lengths the stack asks for

ASSUME UsbAssumption == Blk \in Nat \ {0} /\ Lengths \subseteq Nat

VARIABLES
  pc,         \* where the driver is: "idle", "fill" or "receive"
  events,     \* the controller's event queue
  tx,         \* sIn: length, offset, remaining, buf and which transfer
  txBufs,     \* the two IN buffers of the cartridge
  txMove,     \* the IN buffer the controller is sending
  txHost,     \* the bytes of this transfer that the host received
  txDone,     \* what was reported to the stack
  rx,         \* sOut: length, offset, received, buf and which transfer
  rxBufs, rxMove,
  rxHost,     \* how many bytes the host will send, and has sent
  rxData,     \* the stack's buffer
  rxDone,
  now         \* out_complete's transferred and len

inVars == <<tx, txBufs, txMove, txHost, txDone>>
outVars == <<rx, rxBufs, rxMove, rxHost, rxData, rxDone, now>>
usbVars == <<pc, events, inVars, outVars>>

Least(a, b) == IF a < b THEN a ELSE b
NoMove == [buf |-> -1, len |-> 0]
Pending == -1                         \* a transfer not yet reported
Blank == [k \in 1 .. Blk |-> <<0, 0>>]

(* Bytes from + 1 .. from + n of transfer t, in a buffer padded with zeros *)
Filled(t, from, n) ==
  [k \in 1 .. Blk |-> IF k <= n THEN <<t, from + k>> ELSE <<0, 0>>]

Bytes(t, n) == [k \in 1 .. n |-> <<t, k>>]

UsbInit ==
  /\ pc = "idle" /\ events = << >>
  /\ tx = [length |-> 0, offset |-> 0, remaining |-> 0, buf |-> 0, id |-> 1]
  /\ txBufs = [b \in 0 .. 1 |-> Blank] /\ txMove = NoMove /\ txHost = << >>
  /\ txDone = 0
  /\ rx = [length |-> 0, offset |-> 0, received |-> 0, buf |-> 0, id |-> 1]
  /\ rxBufs = [b \in 0 .. 1 |-> Blank] /\ rxMove = NoMove
  /\ rxHost = [total |-> 0, sent |-> 0] /\ rxData = << >> /\ rxDone = 0
  /\ now = [transferred |-> 0, len |-> 0]
-----------------------------------------------------------------------------
(***************************************************************************)
(* IN.  in_send_block fills the driver's current buffer; only the start of *)
(* a transfer hands the buffer to the controller in the same command, and  *)
(* only there is an empty one sent.                                        *)
(***************************************************************************)
(* A deviation for NextBuf: the refilled buffer is not switched.           *)
SameBuf(b) == b

NextBuf(b) == 1 - b

SendBlock(ep) ==
  LET len == Least(ep.length - ep.offset, Blk)
  IN IF len > 0
     THEN /\ txBufs' = [txBufs EXCEPT ![ep.buf] = Filled(ep.id, ep.offset, len)]
          /\ tx' = [length |-> ep.length, offset |-> ep.offset + len,
                    remaining |-> ep.remaining, buf |-> NextBuf(ep.buf), id |-> ep.id]
     ELSE tx' = ep /\ UNCHANGED txBufs

(* dcd_edpt_xfer on the IN endpoint, up to its second in_send_block.       *)
XferIn(n) ==
  /\ pc = "idle"
  /\ txDone # Pending
  /\ SendBlock([length |-> n, offset |-> 0, remaining |-> n, buf |-> 0,
                id |-> 3 - tx.id])
  /\ txMove' = [buf |-> 0, len |-> Least(n, Blk)]
  /\ txHost' = << >>
  /\ txDone' = Pending
  /\ pc' = "fill"
  /\ UNCHANGED <<events, outVars>>

(* The in_send_block that follows, in dcd_edpt_xfer and in in_complete.    *)
FillIn ==
  /\ pc = "fill"
  /\ SendBlock(tx)
  /\ pc' = "idle"
  /\ UNCHANGED <<events, txMove, txHost, txDone, outVars>>

(* A deviation for Remaining: what was handed over counts as transferred.  *)
RemainingUnsent(n) == tx.length - tx.offset

Remaining(n) == tx.remaining - n

(* in_complete, up to its in_send_block.                                   *)
CompleteIn ==
  /\ pc = "idle"
  /\ events # << >> /\ Head(events).dir = "in"
  /\ events' = Tail(events)
  /\ LET left == Remaining(Head(events).n)
     IN /\ tx' = [length |-> tx.length, offset |-> tx.offset, remaining |-> left,
                  buf |-> tx.buf, id |-> tx.id]
        /\ \/ /\ left = 0
              /\ txDone' = tx.length
              /\ UNCHANGED <<pc, txMove>>
           \/ /\ left # 0
              /\ txMove' = [buf |-> 1 - tx.buf, len |-> Least(left, Blk)]
              /\ pc' = "fill"
              /\ UNCHANGED txDone
  /\ UNCHANGED <<txBufs, txHost, outVars>>

(* External: the controller sends the buffer to the host.                  *)
Transmit ==
  /\ txMove # NoMove
  /\ txHost' = txHost \o SubSeq(txBufs[txMove.buf], 1, txMove.len)
  /\ events' = Append(events, [dir |-> "in", n |-> txMove.len])
  /\ txMove' = NoMove
  /\ UNCHANGED <<pc, tx, txBufs, txDone, outVars>>
-----------------------------------------------------------------------------
(***************************************************************************)
(* OUT.                                                                    *)
(***************************************************************************)
(* The host will send m bytes, at most what the stack has room for.        *)
XferOut(n, m) ==
  /\ pc = "idle"
  /\ rxDone # Pending
  /\ rx' = [length |-> n, offset |-> 0, received |-> 0, buf |-> 0, id |-> 3 - rx.id]
  /\ rxMove' = [buf |-> 0, len |-> Least(n, Blk)]
  /\ rxHost' = [total |-> m, sent |-> 0]
  /\ rxData' = << >>
  /\ rxDone' = Pending
  /\ UNCHANGED <<pc, events, inVars, rxBufs, now>>

(* A deviation for BeginsNext: a transfer of exactly two blocks is not     *)
(* continued.                                                              *)
BeginsNextShort(transferred, len) == transferred = Blk /\ len > 0 /\ len < Blk

BeginsNext(transferred, len) == transferred = Blk /\ len > 0

(* A deviation for OtherBuf: the next block goes to the buffer that has    *)
(* not been read yet.                                                      *)
BusyBuf == rx.buf

OtherBuf == 1 - rx.buf

(* out_complete, up to its out_receive_block.                              *)
CompleteOut ==
  /\ pc = "idle"
  /\ events # << >> /\ Head(events).dir = "out"
  /\ events' = Tail(events)
  /\ LET n == Head(events).n
         len == Least(rx.length - rx.offset - Blk, Blk)
     IN /\ rx' = [length |-> rx.length, offset |-> rx.offset,
                  received |-> rx.received + n, buf |-> rx.buf, id |-> rx.id]
        /\ rxMove' = IF BeginsNext(n, len)
                     THEN [buf |-> OtherBuf, len |-> len] ELSE rxMove
        /\ now' = [transferred |-> n, len |-> len]
  /\ pc' = "receive"
  /\ UNCHANGED <<inVars, rxBufs, rxHost, rxData, rxDone>>

(* A deviation for LastBlock: only a short block ends a transfer.          *)
ShortBlock == now.transferred < Blk

LastBlock == now.transferred < Blk \/ now.len = 0

(* out_receive_block and the report.                                       *)
ReceiveOut ==
  /\ pc = "receive"
  /\ LET len == Least(rx.received - rx.offset, Blk)
     IN /\ rx' = [length |-> rx.length, offset |-> rx.offset + len,
                  received |-> rx.received,
                  buf |-> IF len = 0 THEN rx.buf ELSE 1 - rx.buf, id |-> rx.id]
        /\ rxData' = rxData \o SubSeq(rxBufs[rx.buf], 1, len)
        /\ rxDone' = IF LastBlock THEN rx.offset + len ELSE rxDone
  /\ pc' = "idle"
  /\ UNCHANGED <<events, inVars, rxBufs, rxMove, rxHost, now>>

(* External: the host sends as much as was asked for, or less and a short  *)
(* or empty packet when it has no more.                                    *)
Receive ==
  /\ rxMove # NoMove
  /\ LET n == Least(rxMove.len, rxHost.total - rxHost.sent)
     IN /\ rxBufs' = [rxBufs EXCEPT ![rxMove.buf] = Filled(rx.id, rxHost.sent, n)]
        /\ rxHost' = [total |-> rxHost.total, sent |-> rxHost.sent + n]
        /\ events' = Append(events, [dir |-> "out", n |-> n])
  /\ rxMove' = NoMove
  /\ UNCHANGED <<pc, inVars, rx, rxData, rxDone, now>>
-----------------------------------------------------------------------------
Driver == FillIn \/ CompleteIn \/ CompleteOut \/ ReceiveOut
Controller == Transmit \/ Receive
Stack ==
  \/ \E n \in Lengths : XferIn(n)
  \/ \E n \in Lengths : \E m \in 0 .. n : XferOut(n, m)

UsbNext == Driver \/ Controller \/ Stack

(* The main loop keeps calling gpk_usb_task, and the host keeps asking for *)
(* and sending data.                                                       *)
UsbSpec ==
  UsbInit /\ [][UsbNext]_usbVars
    /\ WF_usbVars(FillIn) /\ WF_usbVars(CompleteIn) /\ WF_usbVars(CompleteOut)
    /\ WF_usbVars(ReceiveOut) /\ WF_usbVars(Transmit) /\ WF_usbVars(Receive)
-----------------------------------------------------------------------------
(* The host receives the bytes of a transfer in order, each once, although *)
(* the driver refills one buffer while the controller sends the other; and *)
(* when the stack is told that the transfer is done, the host has all of   *)
(* it (dcd_dspico.c:181-213, 387-398).                                     *)
InDelivered ==
  /\ txHost = Bytes(tx.id, Len(txHost))
  /\ txDone # Pending => txDone = tx.length /\ Len(txHost) = tx.length

(* The stack receives exactly what the host sent for the transfer, also if *)
(* the host ends it early or on a block boundary, although the next block  *)
(* arrives while the last one is read (dcd_dspico.c:215-246, 399-408).     *)
OutDelivered ==
  /\ rxData = Bytes(rx.id, Len(rxData))
  /\ rxDone # Pending => rxDone = rxHost.total /\ Len(rxData) = rxHost.total

(* A transfer the stack started is reported in the end, of any length,     *)
(* empty ones and multiples of the block included.                         *)
TransfersEnd ==
  /\ (txDone = Pending) ~> (txDone # Pending)
  /\ (rxDone = Pending) ~> (rxDone # Pending)
=============================================================================
