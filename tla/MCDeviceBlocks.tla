--------------------------- MODULE MCDeviceBlocks ---------------------------
(***************************************************************************)
(* GekkoDevice for TLC, as its jobs: a descriptor of four bytes and a      *)
(* block of twelve, so that three descriptors fill a block, with every     *)
(* refusal of the parser and of the executor, a job table and a completion *)
(* queue that fill up, partial and refused F5 reads, and SUBMIT, POLL and  *)
(* COLLECT competing with the blocks for the job table.                    *)
(***************************************************************************)
EXTENDS GekkoDevice

Resident(n, h) ==
  [magic |-> "good", inline |-> FALSE, seq |-> n, input |-> h, inOff |-> 0,
   inLen |-> 4, output |-> 0, outOff |-> 0, outLen |-> 0, data |-> 0]

Inline(n, off, len) ==
  [Resident(n, 1) EXCEPT !.inline = TRUE, !.inOff = off, !.inLen = len, !.data = 1]

Into(d, h, len) == [d EXCEPT !.output = h, !.outLen = len]

Malformed == [Resident(0, 0) EXCEPT !.magic = "bad"]
Padding == [Resident(0, 0) EXCEPT !.magic = "zero"]

Send(len, images) ==
  [selector |-> 0, len |-> len, supplied |-> 12, images |-> images]

MCBlocks ==
  { Send(12, <<Resident(1, 1), Resident(2, 2), Inline(3, 0, 0)>>),
    Send(12, <<Inline(1, 0, 4), Into(Resident(2, 1), 2, 4)>>),
    Send(8, <<Into(Inline(1, 0, 4), 3, 0)>>),
    Send(12, <<Resident(1, 1), Malformed>>),
    Send(12, <<Resident(1, 1), Inline(2, 0, 8)>>),
    Send(12, <<Padding, Resident(1, 1)>>),
    Send(3, <<Resident(1, 1)>>),
    [Send(12, <<>>) EXCEPT !.selector = 1],
    Send(0, <<>>), Send(13, <<>>),
    [Send(8, <<>>) EXCEPT !.supplied = 4] }

MCReads ==
  { [selector |-> 1, offset |-> 0, len |-> 4, room |-> 12],
    [selector |-> 1, offset |-> 0, len |-> 12, room |-> 11],
    [selector |-> 0, offset |-> 0, len |-> 4, room |-> 12],
    [selector |-> 1, offset |-> 4, len |-> 4, room |-> 12],
    [selector |-> 1, offset |-> 0, len |-> 0, room |-> 12],
    [selector |-> 1, offset |-> 0, len |-> 13, room |-> 12],
    [selector |-> 1, offset |-> 0, len |-> 4, room |-> 0] }

MCRegWrites == {<<"Arg0", 1>>}
MCPayloadWrites == {}
MCCommands == {Alloc, Submit, Poll, Collect}
=============================================================================
