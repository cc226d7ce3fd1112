-------------------------- MODULE RegisterTransport --------------------------
(***************************************************************************)
(* The NTRCARD register page that the host model and the Azahar device     *)
(* share (include/gekkopak/ntr_register_transport.h), driven by single     *)
(* loads and stores.  A store to ROMCNT with the activate bit runs the     *)
(* staged command; loads from and stores to the FIFO move its data phase.  *)
(*                                                                         *)
(* The device below answers ReadReg and ReadBlock with any words; call     *)
(* records what it was asked.  Page bytes other than ROMCNT, CMD0 and CMD1 *)
(* are plain memory that nothing reads.                                    *)
(***************************************************************************)
EXTENDS Integers, Sequences

CONSTANTS
  Values,       \* the values of a 32-bit word
  Indices,      \* the values of command byte 3
  BlockWords,   \* kBlockBytes / 4, 128 in the code
  CounterMod,   \* the number of values of the counters, 2^32 and 2^64
  HeadStores,   \* what a client stores to CMD0
  RomCntStores  \* what a client stores to ROMCNT

(* "foreign" is a command without the discriminator; "unknown" one that    *)
(* has it, and so is valid, with an opcode that is none of the six.        *)
Opcodes == {"WriteReg", "Exec", "ReadReg", "WritePayloadWord", "WriteBlock",
            "ReadBlock", "unknown", "foreign"}
Heads == [op : Opcodes, index : Indices]
Sizes == {"none", "4", "512", "other"}
RomCnt == [activate : BOOLEAN, ready : BOOLEAN, size : Sizes]

ASSUME TransportAssumption ==
  /\ 0 \in Values
  /\ 0 \in Indices
  /\ BlockWords \in Nat \ {0}
  /\ CounterMod \in Nat \ {0, 1}
  /\ HeadStores \subseteq Heads
  /\ RomCntStores \subseteq RomCnt

VARIABLES
  head,          \* CMD0: opcode, "GK" and index
  word,          \* CMD1: the value word
  romcnt,        \* ROMCNT: activate, data ready and block size
  direction,     \* direction_
  wordIndex,     \* word_index_
  wordCount,     \* word_count_
  index,         \* index_
  commandWord,   \* command_word_
  buffer,        \* buffer_, in words
  fault,         \* fault_
  faultCount,    \* fault_count_
  commands,      \* commands_
  got,           \* the last word loaded from the FIFO
  call           \* the last call made to the device

pageRegs == <<head, word, romcnt>>
phaseVars == <<direction, wordIndex, wordCount, index, commandWord, buffer>>
counters == <<fault, faultCount, commands>>
transportVars == <<pageRegs, phaseVars, counters, got, call>>

-----------------------------------------------------------------------------
Buffers == [1 .. BlockWords -> Values]
Blank == [k \in 1 .. BlockWords |-> 0]

NoCall == [op |-> "none", index |-> 0, word |-> 0, data |-> << >>, turn |-> 0]

Called(op, i, w, data) ==
  [op |-> op, index |-> i, word |-> w, data |-> data, turn |-> 1 - call.turn]

(* PhaseForOpcode: direction, words and the block-size field of an opcode. *)
Phase(op) ==
  CASE op = "ReadReg" -> [direction |-> "read", words |-> 1, size |-> "4"]
    [] op = "ReadBlock" -> [direction |-> "read", words |-> BlockWords, size |-> "512"]
    [] op = "WriteBlock" -> [direction |-> "write", words |-> BlockWords, size |-> "512"]
    [] OTHER -> [direction |-> "none", words |-> 0, size |-> "none"]

TransportInit ==
  /\ head = [op |-> "foreign", index |-> 0] /\ word = 0
  /\ romcnt = [activate |-> FALSE, ready |-> FALSE, size |-> "none"]
  /\ direction = "none" /\ wordIndex = 0 /\ wordCount = 0
  /\ index = 0 /\ commandWord = 0 /\ buffer = Blank
  /\ fault = "none" /\ faultCount = 0 /\ commands = 0
  /\ got = 0
  /\ call = NoCall

(* Reset, with the page cleared.                                           *)
TransportReset ==
  /\ head' = [op |-> "foreign", index |-> 0] /\ word' = 0
  /\ romcnt' = [activate |-> FALSE, ready |-> FALSE, size |-> "none"]
  /\ direction' = "none" /\ wordIndex' = 0 /\ wordCount' = 0
  /\ index' = 0 /\ commandWord' = 0 /\ buffer' = Blank
  /\ fault' = "none" /\ faultCount' = 0 /\ commands' = 0
  /\ UNCHANGED <<got, call>>

Faulted(kind) ==
  /\ fault' = kind
  /\ faultCount' = (faultCount + 1) % CounterMod

(* EndTransfer, on the value r that ROMCNT has by then.                    *)
Idle(r) == [activate |-> FALSE, ready |-> FALSE, size |-> r.size]

-----------------------------------------------------------------------------
(***************************************************************************)
(* Stores.                                                                 *)
(***************************************************************************)
WriteCmd0(h) ==
  /\ head' = h
  /\ UNCHANGED <<word, romcnt, phaseVars, counters, got, call>>

WriteCmd1(w) ==
  /\ word' = w
  /\ UNCHANGED <<head, romcnt, phaseVars, counters, got, call>>

(* A ROMCNT store that starts nothing: without the activate bit, or while  *)
(* a transfer is open.                                                     *)
StoreRomCnt(r) ==
  /\ ~r.activate \/ direction # "none"
  /\ romcnt' = r
  /\ UNCHANGED <<head, word, phaseVars, counters, got, call>>

Starts(r) == r.activate /\ direction = "none"

StartForeign(r) ==
  /\ Starts(r)
  /\ head.op = "foreign"
  /\ commands' = (commands + 1) % CounterMod
  /\ romcnt' = Idle(r)
  /\ direction' = "none"
  /\ UNCHANGED <<head, word, wordIndex, wordCount, index, commandWord, buffer,
                 fault, faultCount, got, call>>

StartMismatched(r) ==
  /\ Starts(r)
  /\ head.op # "foreign"
  /\ r.size # Phase(head.op).size
  /\ commands' = (commands + 1) % CounterMod
  /\ Faulted("BlockSizeMismatch")
  /\ romcnt' = Idle(r)
  /\ direction' = "none"
  /\ UNCHANGED <<head, word, wordIndex, wordCount, index, commandWord, buffer, got, call>>

(* The command is latched: CMD0 and CMD1 may be rewritten during its data  *)
(* phase.                                                                  *)
Latch ==
  /\ commands' = (commands + 1) % CounterMod
  /\ index' = head.index
  /\ commandWord' = word

Matches(r, d) ==
  /\ Starts(r)
  /\ head.op # "foreign"
  /\ r.size = Phase(head.op).size
  /\ Phase(head.op).direction = d

(* The default of the switch: latched like any other, but nobody's call.   *)
StartUnknown(r) ==
  /\ Matches(r, "none")
  /\ head.op = "unknown"
  /\ Latch
  /\ romcnt' = Idle(r)
  /\ direction' = "none"
  /\ UNCHANGED <<head, word, wordIndex, wordCount, buffer, fault, faultCount, got, call>>

StartSimple(r) ==
  /\ Matches(r, "none")
  /\ head.op # "unknown"
  /\ Latch
  /\ call' = Called(head.op, head.index, word, << >>)
  /\ romcnt' = Idle(r)
  /\ direction' = "none"
  /\ UNCHANGED <<head, word, wordIndex, wordCount, buffer, fault, faultCount, got>>

Opened(r, d) ==
  /\ wordIndex' = 0
  /\ wordCount' = Phase(head.op).words
  /\ direction' = d
  /\ romcnt' = [activate |-> r.activate, ready |-> TRUE, size |-> r.size]

(* The device answers at once: ReadReg one word, ReadBlock a whole block   *)
(* into a buffer that was cleared.                                         *)
StartRead(r, answer) ==
  /\ Matches(r, "read")
  /\ Latch
  /\ Opened(r, "read")
  /\ buffer' = [k \in 1 .. BlockWords |->
                  IF k <= Phase(head.op).words THEN answer[k] ELSE 0]
  /\ call' = Called(head.op, head.index, word, << >>)
  /\ UNCHANGED <<head, word, fault, faultCount, got>>

StartWrite(r) ==
  /\ Matches(r, "write")
  /\ Latch
  /\ Opened(r, "write")
  /\ UNCHANGED <<head, word, buffer, fault, faultCount, got, call>>
-----------------------------------------------------------------------------
(***************************************************************************)
(* The FIFO.                                                               *)
(***************************************************************************)
(* A deviation for Advance: the end of the transfer leaves ROMCNT alone.   *)
AdvanceStaysActive ==
  /\ wordIndex' = wordIndex + 1
  /\ IF wordIndex + 1 >= wordCount
     THEN direction' = "none" /\ UNCHANGED romcnt
     ELSE UNCHANGED <<direction, romcnt>>

Advance ==
  /\ wordIndex' = wordIndex + 1
  /\ IF wordIndex + 1 >= wordCount
     THEN direction' = "none" /\ romcnt' = Idle(romcnt)
     ELSE UNCHANGED <<direction, romcnt>>

ReadFifo ==
  \/ /\ direction # "read"
     /\ Faulted("FifoOutOfPhase")
     /\ got' = 0
     /\ UNCHANGED <<pageRegs, phaseVars, commands, call>>
  \/ /\ direction = "read"
     /\ got' = buffer[wordIndex + 1]
     /\ Advance
     /\ UNCHANGED <<head, word, wordCount, index, commandWord, buffer, counters, call>>

(* A deviation for WriteFifo: the block is handed over with the command    *)
(* words as they stand in the page when its last word arrives.             *)
WriteFifoUnlatched(w) ==
  \/ /\ direction # "write"
     /\ Faulted("FifoOutOfPhase")
     /\ UNCHANGED <<pageRegs, phaseVars, commands, got, call>>
  \/ /\ direction = "write"
     /\ buffer' = [buffer EXCEPT ![wordIndex + 1] = w]
     /\ Advance
     /\ IF wordIndex + 1 >= wordCount
        THEN call' = Called("WriteBlock", head.index, word, buffer')
        ELSE UNCHANGED call
     /\ UNCHANGED <<head, word, wordCount, index, commandWord, counters, got>>

WriteFifo(w) ==
  \/ /\ direction # "write"
     /\ Faulted("FifoOutOfPhase")
     /\ UNCHANGED <<pageRegs, phaseVars, commands, got, call>>
  \/ /\ direction = "write"
     /\ buffer' = [buffer EXCEPT ![wordIndex + 1] = w]
     /\ Advance
     /\ IF wordIndex + 1 >= wordCount
        THEN call' = Called("WriteBlock", index, commandWord, buffer')
        ELSE UNCHANGED call
     /\ UNCHANGED <<head, word, wordCount, index, commandWord, counters, got>>

-----------------------------------------------------------------------------
WriteRomCnt(r) ==
  \/ StoreRomCnt(r)
  \/ StartForeign(r)
  \/ StartMismatched(r)
  \/ StartUnknown(r)
  \/ StartSimple(r)
  \/ \E answer \in Buffers : StartRead(r, answer)
  \/ StartWrite(r)

(* Everything but stores to ROMCNT.                                        *)
Access ==
  \/ \E h \in HeadStores : WriteCmd0(h)
  \/ \E w \in Values : WriteCmd1(w)
  \/ ReadFifo
  \/ \E w \in Values : WriteFifo(w)

(* A client that may store anything anywhere at any time.                  *)
AnyNext == Access \/ (\E r \in RomCntStores : WriteRomCnt(r)) \/ TransportReset

AnySpec == TransportInit /\ [][AnyNext]_transportVars
-----------------------------------------------------------------------------
(* Every field keeps its type, and an open transfer has a word left: the   *)
(* cursor never leaves the buffer (.h:244-252, 263-269).                   *)
TransportTypeOK ==
  /\ head \in Heads /\ word \in Values /\ romcnt \in RomCnt
  /\ direction \in {"none", "read", "write"}
  /\ wordIndex \in 0 .. BlockWords /\ wordCount \in 0 .. BlockWords
  /\ index \in Indices /\ commandWord \in Values /\ buffer \in Buffers
  /\ fault \in {"none", "BlockSizeMismatch", "FifoOutOfPhase"}
  /\ faultCount \in 0 .. (CounterMod - 1) /\ commands \in 0 .. (CounterMod - 1)
  /\ got \in Values
  /\ call.turn \in 0 .. 1
  /\ direction # "none" => wordIndex < wordCount
  /\ direction = "write" => wordCount = BlockWords

(* The open data phase: the words of an answer still to be loaded, or the  *)
(* words of a block stored so far.                                         *)
OpenTransfer ==
  IF direction = "none" THEN [kind |-> "none"]
  ELSE IF direction = "read"
  THEN [kind |-> "read", rest |-> SubSeq(buffer, wordIndex + 1, wordCount)]
  ELSE [kind |-> "write", index |-> index, word |-> commandWord,
        sent |-> SubSeq(buffer, 1, wordIndex)]

(* Whatever a client does to the page, also in the middle of a transfer,   *)
(* the device is called once for each command that is accepted, with that  *)
(* command's index and word, and with exactly the words sent for it; and   *)
(* the words of an answer reach the client once and in order (.h:172-271). *)
Bus == INSTANCE CardBus WITH transfer <- OpenTransfer

RefinesCardBus == Bus!BusSpec

CardStartHeld ==
  /\ direction # "none" => romcnt.activate /\ romcnt.ready
  /\ direction = "none" => ~romcnt.activate /\ ~romcnt.ready

(* A ROMCNT store that no client of the repository makes: one during a     *)
(* transfer, or one of the ready bit.                                      *)
Meddles == \E r \in RomCntStores : (direction # "none" \/ r.ready) /\ romcnt' = r

BitsKept == CardStartHeld /\ ~Meddles => CardStartHeld'

(* "CARD_START stays set until the last word crosses" (.h:219): the page   *)
(* shows a transfer as active and its next word as ready exactly while one *)
(* is open, and only a client that stores to ROMCNT during a transfer, or  *)
(* stores the ready bit itself, can break this; so a client that does      *)
(* neither and spins on one of the bits is released (.h:219-233, 247-249,  *)
(* 273-276).                                                               *)
BitsFollowTransfer == [][BitsKept]_transportVars
=============================================================================
