--------------------------- MODULE MCUsbEndpoints ---------------------------
(***************************************************************************)
(* UsbEndpoints for TLC: blocks of two bytes and transfers of none, one,   *)
(* two and two and a half of them, so that a buffer is used twice within a *)
(* transfer, and any early end on the host's side.                         *)
(***************************************************************************)
EXTENDS UsbEndpoints
=============================================================================
