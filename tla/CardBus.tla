------------------------------- MODULE CardBus -------------------------------
(***************************************************************************)
(* What the register page promises the client and the device: a command is *)
(* taken whole when it is started, it reaches the device exactly once, and *)
(* its data phase moves the words of that command, in order.  Registers,   *)
(* cursor and staging buffer do not appear.                                *)
(***************************************************************************)
EXTENDS Integers, Sequences

CONSTANTS
  Values,      \* the values of a 32-bit word
  Indices,     \* the values of command byte 3
  BlockWords   \* the words of a 512-byte data phase

VARIABLES
  transfer,    \* the open data phase
  call,        \* the last call the device received
  got          \* the last word the client loaded from the FIFO

busVars == <<transfer, call, got>>

NoTransfer == [kind |-> "none"]
Reading(rest) == [kind |-> "read", rest |-> rest]
Writing(index, word, sent) ==
  [kind |-> "write", index |-> index, word |-> word, sent |-> sent]

(* turn tells a call from the one before it.                               *)
Called(op, index, word, data) ==
  [op |-> op, index |-> index, word |-> word, data |-> data, turn |-> 1 - call.turn]

BusInit ==
  /\ transfer = NoTransfer
  /\ call = [op |-> "none", index |-> 0, word |-> 0, data |-> << >>, turn |-> 0]
  /\ got = 0

(* Commands without a data phase.                                          *)
Command(op, index, word) ==
  /\ transfer = NoTransfer
  /\ op \in {"WriteReg", "Exec", "WritePayloadWord"}
  /\ call' = Called(op, index, word, << >>)
  /\ UNCHANGED <<transfer, got>>

(* The device answers when the command comes; the words cross later.       *)
OpenRead(op, index, word, answer) ==
  /\ transfer = NoTransfer
  /\ \/ op = "ReadReg" /\ Len(answer) = 1
     \/ op = "ReadBlock" /\ Len(answer) = BlockWords
  /\ call' = Called(op, index, word, << >>)
  /\ transfer' = Reading(answer)
  /\ UNCHANGED got

TakeWord ==
  /\ transfer.kind = "read"
  /\ got' = transfer.rest[1]
  /\ transfer' = IF Len(transfer.rest) = 1 THEN NoTransfer ELSE Reading(Tail(transfer.rest))
  /\ UNCHANGED call

OpenWrite(index, word) ==
  /\ transfer = NoTransfer
  /\ transfer' = Writing(index, word, << >>)
  /\ UNCHANGED <<call, got>>

(* The device sees a block once all of it has crossed, with the index and  *)
(* the word of the command that opened it.                                 *)
PutWord(w) ==
  /\ transfer.kind = "write"
  /\ LET sent == Append(transfer.sent, w)
     IN IF Len(sent) < BlockWords
        THEN /\ transfer' = Writing(transfer.index, transfer.word, sent)
             /\ UNCHANGED call
        ELSE /\ transfer' = NoTransfer
             /\ call' = Called("WriteBlock", transfer.index, transfer.word, sent)
  /\ UNCHANGED got

(* A load from the FIFO outside a read finds no word.                      *)
NothingToTake ==
  /\ transfer.kind # "read"
  /\ got' = 0
  /\ UNCHANGED <<transfer, call>>

PowerUp ==
  /\ transfer' = NoTransfer
  /\ UNCHANGED <<call, got>>

BusNext ==
  \/ \E op \in {"WriteReg", "Exec", "WritePayloadWord"}, i \in Indices, w \in Values :
       Command(op, i, w)
  \/ \E op \in {"ReadReg", "ReadBlock"}, i \in Indices, w \in Values,
        n \in {1, BlockWords} :
       \E answer \in [1 .. n -> Values] : OpenRead(op, i, w, answer)
  \/ TakeWord
  \/ \E i \in Indices, w \in Values : OpenWrite(i, w)
  \/ \E w \in Values : PutWord(w)
  \/ NothingToTake
  \/ PowerUp

BusSpec == BusInit /\ [][BusNext]_busVars
=============================================================================
