---------------------------- MODULE GuestSession ----------------------------
(***************************************************************************)
(* The ARM guest (prototype/azahar-ntr/guest/gekkopak_guest_ntr.S) talking *)
(* to the device core through the register page: its whole session, one    *)
(* load or store of a card register per step, with the two busy waits.     *)
(*                                                                         *)
(* The guest runs on the emulated processor, the device within the store   *)
(* that calls it, so the guest takes no step while the core processes a    *)
(* block.  A word on the bus is a sequence: <<n>> is the number n, a word  *)
(* of the block the guest sends is <<"tx", k>>, and the first word of a    *)
(* completion record is <<"gkc", the record>>: DescriptorBytes is one word *)
(* here.                                                                   *)
(***************************************************************************)
EXTENDS GekkoDevice

CONSTANTS
  AllocSizes,  \* how many bytes the guest asks for, 4096 in the code
  BlockWords,  \* BLOCK_WORDS, the words of a 512-byte data phase
  InlineBytes  \* the inline input of its descriptor, 16 bytes in the code

(* A descriptor and its inline input fit in a block, and the input in the  *)
(* buffer the guest asks for: 64 + 16 bytes of 512, and 16 of 4096.        *)
ASSUME SessionAssumption ==
  /\ AllocSizes \subseteq Word
  /\ BlockWords \in Nat \ {0}
  /\ DescriptorBytes = 4 /\ BlockBytes = 4 * BlockWords
  /\ InlineBytes \in Nat /\ DescriptorBytes + InlineBytes <= BlockBytes
  /\ \A n \in AllocSizes : n # 0 => InlineBytes <= n

VARIABLES
  head, word, romcnt, direction, wordIndex, wordCount, index, commandWord,
  buffer, fault, faultCount, commands, got, call,
  want,      \* the size this guest was built with
  step,      \* the transaction of the session it is in
  at,        \* where in the transaction it is
  left,      \* r7 of wire_read_block and wire_write_block
  rx,        \* BLOCK_RX, or the word wire_read4 returns
  handle,    \* r7 of _start: the handle ALLOC returned
  summary    \* the first word of SUMMARY

cardVars == <<head, word, romcnt, direction, wordIndex, wordCount, index,
              commandWord, buffer, fault, faultCount, commands, got, call>>
guestVars == <<want, step, at, left, rx, handle, summary>>
sessionVars == <<vars, cardVars, guestVars>>

Number(n) == <<n>>
TxWord(k) == <<"tx", k>>
RecordWord(c) == <<"gkc", c>>

Card ==
  INSTANCE RegisterTransport WITH
    Values <- {}, Indices <- {}, CounterMod <- 2 ^ 16,
    HeadStores <- {}, RomCntStores <- {}

-----------------------------------------------------------------------------
(***************************************************************************)
(* The session: what each transaction sends, and what the guest asks of    *)
(* the answer before it goes on.                                           *)
(***************************************************************************)
RegArg0 == 0
RegResult == 5
RegOut0 == 6
RegOut1 == 7
EventDepth == 254
CapBlockTransport == 16

Wrreg(r, v) == [op |-> "WriteReg", index |-> r, word |-> v, size |-> "none", asks |-> "nothing"]
Rdreg(r, asks) == [op |-> "ReadReg", index |-> r, word |-> 0, size |-> "4", asks |-> asks]
ExecHi(c) == [op |-> "Exec", index |-> c, word |-> 0, size |-> "none", asks |-> "nothing"]
ResultOk == Rdreg(RegResult, "ok")     \* the end of exec_hi

SendDescriptor ==
  [op |-> "WriteBlock", index |-> 0, word |-> DescriptorBytes + InlineBytes,
   size |-> "512", asks |-> "nothing"]
FetchCompletion ==
  [op |-> "ReadBlock", index |-> 1, word |-> DescriptorBytes, size |-> "512",
   asks |-> "completion"]

(* A deviation for Script: the session ends without FREE.                  *)
ScriptKeepsBuffer ==
  << ExecHi(Hello), ResultOk, Rdreg(RegOut0, "nothing"),
     ExecHi(GetCaps), ResultOk, Rdreg(RegOut0, "blocks"), Rdreg(RegOut1, "nothing"),
     Wrreg(RegArg0, want), ExecHi(Alloc), ResultOk, Rdreg(RegOut0, "handle"),
     SendDescriptor, Rdreg(EventDepth, "depth"), FetchCompletion,
     ExecHi(Complete), ResultOk >>

Script ==
  << ExecHi(Hello), ResultOk, Rdreg(RegOut0, "nothing"),
     ExecHi(GetCaps), ResultOk, Rdreg(RegOut0, "blocks"), Rdreg(RegOut1, "nothing"),
     Wrreg(RegArg0, want), ExecHi(Alloc), ResultOk, Rdreg(RegOut0, "handle"),
     SendDescriptor, Rdreg(EventDepth, "depth"), FetchCompletion,
     Wrreg(RegArg0, handle), ExecHi(Free), ResultOk,
     ExecHi(Complete), ResultOk >>

Now == Script[step]

Satisfied(asks) ==
  CASE asks = "ok" -> rx[1] = Number(Ok)
    [] asks = "blocks" -> (rx[1][1] \div CapBlockTransport) % 2 = 1
    [] asks = "depth" -> rx[1][1] >= 1
    [] asks = "completion" -> rx[1][1] = "gkc" /\ rx[1][2].status = Ok
    [] OTHER -> TRUE

(* The block in BLOCK_TX: one descriptor with inline input, then padding.  *)
GuestDescriptor ==
  [magic |-> "good", inline |-> TRUE, seq |-> 1, input |-> handle, inOff |-> 0,
   inLen |-> InlineBytes, output |-> 0, outOff |-> 0, outLen |-> InlineBytes,
   data |-> 0]

(* What the device finds in the words it received.                         *)
Received(len, data) ==
  [selector |-> 0, len |-> len, supplied |-> 4 * Len(data),
   images |-> IF data = [k \in 1 .. BlockWords |-> TxWord(k)]
              THEN <<GuestDescriptor>> ELSE << >>]

-----------------------------------------------------------------------------
(***************************************************************************)
(* What the device answers; the registers left out of GekkoDevice read 0.  *)
(***************************************************************************)
ReadReg(r) ==
  CASE r = EventDepth -> Len(completions)
    [] r = RegArg0 -> stage["Arg0"]
    [] r = RegResult -> stage["Result"]
    [] r = RegOut0 -> stage["Out0"]
    [] OTHER -> 0

ReadRequestOf(w) == [selector |-> 1, offset |-> 0, len |-> w, room |-> BlockBytes]

RecordsRead(w) ==
  [k \in 1 .. BlockWords |->
     IF k <= Len(completions) /\ k * DescriptorBytes <= w
     THEN RecordWord(completions[k]) ELSE Number(0)]

RomCntOf(t) == [activate |-> TRUE, ready |-> FALSE, size |-> t.size]

-----------------------------------------------------------------------------
(***************************************************************************)
(* The guest.  stage_cmd is three stores.                                  *)
(***************************************************************************)
GuestAt(p) == at = p /\ phase = "idle"

StageHead ==
  /\ GuestAt("head")
  /\ Card!WriteCmd0([op |-> Now.op, index |-> Now.index])
  /\ at' = "word"
  /\ UNCHANGED <<vars, want, step, left, rx, handle, summary>>

StageWord ==
  /\ GuestAt("word")
  /\ Card!WriteCmd1(Now.word)
  /\ at' = "start"
  /\ UNCHANGED <<vars, want, step, left, rx, handle, summary>>

StartPlain ==
  /\ GuestAt("start")
  /\ Card!StartSimple(RomCntOf(Now))
  /\ \/ head.op = "WriteReg" /\ head.index = RegArg0 /\ WriteReg("Arg0", word)
     \/ head.op = "Exec" /\ Exec(head.index)
  /\ at' = "idle"
  /\ UNCHANGED <<want, step, left, rx, handle, summary>>

(* A deviation for FirstWait: wait for the activate bit to clear before    *)
(* the data phase is served.                                               *)
WaitIdleFirst == "idle"

FirstWait == "ready"

StartReading ==
  /\ GuestAt("start")
  /\ \/ /\ head.op = "ReadReg"
        /\ Card!StartRead(RomCntOf(Now), [k \in 1 .. 1 |-> Number(ReadReg(head.index))])
        /\ left' = 1
        /\ UNCHANGED vars
     \/ /\ head.op = "ReadBlock"
        /\ Card!StartRead(RomCntOf(Now), RecordsRead(word))
        /\ ReadBlock(ReadRequestOf(word))
        /\ left' = BlockWords
  /\ at' = FirstWait
  /\ rx' = << >>
  /\ UNCHANGED <<want, step, handle, summary>>

StartWriting ==
  /\ GuestAt("start")
  /\ Card!StartWrite(RomCntOf(Now))
  /\ left' = BlockWords
  /\ at' = FirstWait
  /\ UNCHANGED <<vars, want, step, rx, handle, summary>>

WaitReady ==
  /\ GuestAt("ready")
  /\ at' = IF romcnt.ready THEN "data" ELSE "ready"
  /\ UNCHANGED <<vars, cardVars, want, step, left, rx, handle, summary>>

AfterWord == IF left = 1 THEN "idle" ELSE "ready"

LoadWord ==
  /\ GuestAt("data")
  /\ Now.op \in {"ReadReg", "ReadBlock"}
  /\ Card!ReadFifo
  /\ rx' = Append(rx, got')
  /\ left' = left - 1
  /\ at' = AfterWord
  /\ UNCHANGED <<vars, want, step, handle, summary>>

StoreWord ==
  /\ GuestAt("data")
  /\ Now.op = "WriteBlock"
  /\ Card!WriteFifo(TxWord(BlockWords + 1 - left))
  /\ \/ call' = call /\ UNCHANGED vars
     \/ call' # call /\ WriteBlock(Received(call'.word, call'.data))
  /\ left' = left - 1
  /\ at' = AfterWord
  /\ UNCHANGED <<want, step, rx, handle, summary>>

WaitIdle ==
  /\ GuestAt("idle")
  /\ at' = IF romcnt.activate THEN "idle" ELSE "check"
  /\ UNCHANGED <<vars, cardVars, want, step, left, rx, handle, summary>>

Continue ==
  /\ GuestAt("check")
  /\ Satisfied(Now.asks)
  /\ handle' = IF Now.asks = "handle" THEN rx[1][1] ELSE handle
  /\ \/ /\ step < Len(Script)
        /\ step' = step + 1
        /\ at' = "head"
        /\ UNCHANGED summary
     \/ /\ step = Len(Script)
        /\ at' = "finished"
        /\ summary' = "PASS"
        /\ UNCHANGED step
  /\ UNCHANGED <<vars, cardVars, want, left, rx>>

Failed ==
  /\ GuestAt("check")
  /\ ~Satisfied(Now.asks)
  /\ at' = "finished"
  /\ summary' = "FAIL"
  /\ UNCHANGED <<vars, cardVars, want, step, left, rx, handle>>

Guest ==
  \/ StageHead \/ StageWord \/ StartPlain \/ StartReading \/ StartWriting
  \/ WaitReady \/ LoadWord \/ StoreWord \/ WaitIdle \/ Continue \/ Failed

DeviceStep == Process /\ UNCHANGED <<cardVars, guestVars>>

(* finished and fail_spin: an endless loop.                                *)
Finished == at = "finished" /\ UNCHANGED sessionVars

SessionInit ==
  /\ Init
  /\ Card!TransportInit
  /\ want \in AllocSizes
  /\ step = 1 /\ at = "head" /\ left = 0 /\ rx = << >>
  /\ handle = 0 /\ summary = "none"

SessionNext == Guest \/ DeviceStep \/ Finished

(* The emulated processor keeps executing the guest, and a block the core  *)
(* has taken is processed to its end within the store that delivered it.   *)
SessionSpec ==
  SessionInit /\ [][SessionNext]_sessionVars
    /\ WF_sessionVars(Guest) /\ WF_sessionVars(DeviceStep)
-----------------------------------------------------------------------------
(* The session ends: neither busy wait spins forever against a card that   *)
(* waits for the guest (.S:242-247, 278-289).                              *)
SessionEnds == <>(summary # "none")

Fits == want # 0 /\ Rounded(want) <= PoolBytes

(* The session passes exactly when the device has the memory it asks for,  *)
(* and by then it has returned everything: no allocation, no completion    *)
(* and no transfer is left behind, the core knows that the session is      *)
(* over, and the bus saw no fault (.S:68-203).                             *)
SessionIsClean ==
  /\ summary = "FAIL" => ~Fits
  /\ summary = "PASS" =>
       /\ Fits
       /\ \A h \in Handles : ~allocs[h].live
       /\ completions = << >>
       /\ completed
       /\ direction = "none"
       /\ fault = "none"
=============================================================================
