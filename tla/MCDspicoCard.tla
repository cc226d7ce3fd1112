---------------------------- MODULE MCDspicoCard ----------------------------
(***************************************************************************)
(* DspicoCard for TLC, as its memory and its F4 checks: ALLOC, UPLOAD and  *)
(* FREE, and an unknown command, over a pool of two words and a half, so   *)
(* that holes are reused, the last word does not fit, and stale or unknown *)
(* handles are sent; among them transfers that the adapter refuses for     *)
(* their selector and for both ends of the range of lengths, and a block   *)
(* that it takes, whose descriptor writes its inline byte before it fails  *)
(* on its output.                                                          *)
(***************************************************************************)
EXTENDS DspicoCard

Image ==
  [magic |-> "good", inline |-> TRUE, seq |-> 1, input |-> 1, inOff |-> 0,
   inLen |-> 1, output |-> 3, outOff |-> 0, outLen |-> 0, data |-> 1]

Transfer(selector, len) ==
  [selector |-> selector, len |-> len, supplied |-> 0, images |-> <<Image>>]

MCRegWrites ==
  ({"Arg0"} \X {1, 2, 8}) \cup ({"Arg1"} \X {0, 4}) \cup ({"PayloadLen"} \X {4, 5})
MCPayloadWrites == {<<0, 1>>, <<1, 1>>}
MCCommands == {Alloc, Upload, Free, 10}
MCBlocks == {Transfer(1, 5), Transfer(0, 0), Transfer(0, 5), Transfer(0, 9)}
MCReads == {[selector |-> 1, offset |-> 0, len |-> 4, room |-> 8]}
=============================================================================
