--------------------------- MODULE MCAzaharDevice ---------------------------
(***************************************************************************)
(* AzaharDevice for TLC: blocks of two words, so that a transfer has a     *)
(* middle; two word values, so that a command word rewritten during the    *)
(* data phase differs from the one the command was started with; and       *)
(* counters that wrap between resets.  The guest makes every kind of       *)
(* fault, stores to ROMCNT during transfers and completes more than once.  *)
(* The foreign command is the one that Reset leaves in the page; the       *)
(* unknown one has the discriminator and faults unless its size is none.   *)
(***************************************************************************)
EXTENDS AzaharDevice

Staged(op) == [op |-> op, index |-> 0]

MCHeadStores ==
  {Staged(op) : op \in {"Exec", "ReadReg", "WriteBlock", "ReadBlock", "unknown"}}

MCRomCntStores ==
  [activate : {TRUE}, ready : {FALSE}, size : {"none", "4", "512"}]
    \cup [activate : {FALSE}, ready : BOOLEAN, size : {"none"}]
=============================================================================
