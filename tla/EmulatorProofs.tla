--------------------------- MODULE EmulatorProofs ---------------------------
(***************************************************************************)
(* The two ways into an emulator, which share nothing:                     *)
(*   - the register page: its types and the bound of its cursor, the bits  *)
(*     that clients spin on, that it implements CardBus, and that the log  *)
(*     of the Azahar device on top of it is exact;                         *)
(*   - the mailbox protocol, for every payload, every size of allocation   *)
(*     and of local memory and every number of frames: a frame may end     *)
(*     between any two stores of the guest.                                *)
(***************************************************************************)
EXTENDS AzaharDevice, MailboxSession, SequenceTheorems, TLAPS

(***************************************************************************)
(* The register page.                                                      *)
(***************************************************************************)
(* A wrapping counter stays in its range.                                  *)
LEMMA CounterWraps ==
  ASSUME NEW n \in 0 .. (CounterMod - 1)
  PROVE  (n + 1) % CounterMod \in 0 .. (CounterMod - 1)
  BY TransportAssumption

(* What PhaseForOpcode can answer for an opcode of the protocol.           *)
LEMMA PhaseWords ==
  ASSUME NEW op \in Opcodes
  PROVE  /\ Phase(op).words \in 0 .. BlockWords
         /\ Phase(op).direction = "read" =>
              \/ op = "ReadReg" /\ Phase(op).words = 1
              \/ op = "ReadBlock" /\ Phase(op).words = BlockWords
         /\ Phase(op).direction = "write" =>
              op = "WriteBlock" /\ Phase(op).words = BlockWords
         /\ Phase(op).direction = "none" =>
              op \in {"WriteReg", "Exec", "WritePayloadWord", "unknown", "foreign"}
  BY TransportAssumption DEF Phase, Opcodes

(* EndTransfer leaves a value of ROMCNT.                                   *)
LEMMA IdleType == ASSUME NEW r \in RomCnt PROVE Idle(r) \in RomCnt
  BY DEF Idle, RomCnt

(* The cleared buffer is a buffer.                                         *)
LEMMA BlankType == Blank \in Buffers
  BY TransportAssumption DEF Blank, Buffers

(* The page as constructed has the types.                                  *)
LEMMA TransportTypeInit == TransportInit => TransportTypeOK
  BY BlankType, TransportAssumption
  DEF TransportInit, TransportTypeOK, Heads, Opcodes, RomCnt, Sizes, NoCall

(* The parts of the type that the data phase moves.                        *)
LEMMA AdvanceTypes ==
  ASSUME TransportTypeOK, direction # "none", Advance, UNCHANGED wordCount
  PROVE  /\ romcnt' \in RomCnt
         /\ direction' \in {"none", "read", "write"}
         /\ wordIndex' \in 0 .. BlockWords
         /\ direction' # "none" => wordIndex' < wordCount'
         /\ direction' = "write" => wordCount' = BlockWords
  <1>1. Idle(romcnt) \in RomCnt
    BY IdleType DEF TransportTypeOK
  <1> QED
    BY <1>1, TransportAssumption DEF TransportTypeOK, Advance

(* No access to the page, and no reset, breaks the types.                  *)
LEMMA TransportTypeStep ==
  TransportTypeOK /\ [AnyNext]_transportVars => TransportTypeOK'
  <1> SUFFICES ASSUME TransportTypeOK, [AnyNext]_transportVars
               PROVE  TransportTypeOK'
    OBVIOUS
  <1> USE TransportAssumption
  <1>1. ASSUME NEW h \in HeadStores, WriteCmd0(h) PROVE TransportTypeOK'
    BY <1>1 DEF WriteCmd0, TransportTypeOK, phaseVars, counters
  <1>2. ASSUME NEW w \in Values, WriteCmd1(w) PROVE TransportTypeOK'
    BY <1>2 DEF WriteCmd1, TransportTypeOK, phaseVars, counters
  <1>3. CASE ReadFifo
    <2>1. CASE direction # "read"
      BY <1>3, <2>1, CounterWraps
      DEF ReadFifo, Faulted, TransportTypeOK, pageRegs, phaseVars
    <2>2. CASE direction = "read"
      <3>1. got' \in Values
        BY <1>3, <2>2 DEF ReadFifo, TransportTypeOK, Buffers
      <3>2. Advance /\ UNCHANGED <<head, word, wordCount, index, commandWord, buffer, counters, call>>
        BY <1>3, <2>2 DEF ReadFifo
      <3> QED
        BY <2>2, <3>1, <3>2, AdvanceTypes DEF TransportTypeOK, counters
    <2> QED
      BY <2>1, <2>2
  <1>4. ASSUME NEW w \in Values, WriteFifo(w) PROVE TransportTypeOK'
    <2>1. CASE direction # "write"
      BY <1>4, <2>1, CounterWraps
      DEF WriteFifo, Faulted, TransportTypeOK, pageRegs, phaseVars
    <2>2. CASE direction = "write"
      <3>1. /\ Advance
            /\ UNCHANGED <<head, word, wordCount, index, commandWord, counters, got>>
            /\ buffer' = [buffer EXCEPT ![wordIndex + 1] = w]
            /\ call'.turn \in 0 .. 1
        BY <1>4, <2>2 DEF WriteFifo, Called, TransportTypeOK
      <3>2. buffer' \in Buffers
        BY <3>1 DEF TransportTypeOK, Buffers
      <3> QED
        BY <2>2, <3>1, <3>2, AdvanceTypes DEF TransportTypeOK, counters
    <2> QED
      BY <2>1, <2>2
  <1>5. ASSUME NEW r \in RomCntStores, WriteRomCnt(r) PROVE TransportTypeOK'
    <2>1. r \in RomCnt /\ Idle(r) \in RomCnt
      BY IdleType
    <2>2. head \in Heads /\ head.op \in Opcodes /\ head.index \in Indices
      BY DEF TransportTypeOK, Heads
    <2>3. CASE StoreRomCnt(r)
      BY <2>1, <2>3 DEF StoreRomCnt, TransportTypeOK, phaseVars, counters
    <2>4. CASE StartForeign(r)
      BY <2>1, <2>4, CounterWraps DEF StartForeign, TransportTypeOK
    <2>5. CASE StartMismatched(r)
      BY <2>1, <2>5, CounterWraps DEF StartMismatched, Faulted, TransportTypeOK
    <2>6. CASE StartUnknown(r) \/ StartSimple(r)
      BY <2>1, <2>2, <2>6, CounterWraps
      DEF StartUnknown, StartSimple, Latch, Called, TransportTypeOK
    <2>7. [activate |-> r.activate, ready |-> TRUE, size |-> r.size] \in RomCnt
      BY <2>1 DEF RomCnt
    <2>8. ASSUME NEW answer \in Buffers, StartRead(r, answer) PROVE TransportTypeOK'
      <3>1. Phase(head.op).direction = "read"
        BY <2>8 DEF StartRead, Matches
      <3>2. Phase(head.op).words \in 1 .. BlockWords
        BY <2>2, <3>1, PhaseWords
      <3>3. buffer' \in Buffers
        BY <2>8 DEF StartRead, Buffers
      <3>4. call'.turn \in 0 .. 1
        BY <2>8 DEF StartRead, Called, TransportTypeOK
      <3> QED
        BY <2>2, <2>7, <2>8, <3>2, <3>3, <3>4, CounterWraps
        DEF StartRead, Latch, Opened, TransportTypeOK
    <2>9. CASE StartWrite(r)
      <3>1. Phase(head.op).direction = "write"
        BY <2>9 DEF StartWrite, Matches
      <3>2. Phase(head.op).words = BlockWords
        BY <2>2, <3>1, PhaseWords
      <3> QED
        BY <2>2, <2>7, <2>9, <3>2, CounterWraps
        DEF StartWrite, Latch, Opened, TransportTypeOK
    <2> QED
      BY <1>5, <2>3, <2>4, <2>5, <2>6, <2>8, <2>9 DEF WriteRomCnt
  <1>6. CASE TransportReset
    BY <1>6, BlankType DEF TransportReset, TransportTypeOK, Heads, Opcodes, RomCnt, Sizes
  <1>7. CASE UNCHANGED transportVars
    BY <1>7 DEF transportVars, pageRegs, phaseVars, counters, TransportTypeOK
  <1> QED
    BY <1>1, <1>2, <1>3, <1>4, <1>5, <1>6, <1>7 DEF AnyNext, Access

(* Whatever a client stores and loads, every field of the register page    *)
(* keeps its type, and the cursor of an open transfer is inside the block: *)
(* ReadFifo and WriteFifo never touch a word past the 512-byte buffer      *)
(* (ntr_register_transport.h:236-271).                                     *)
THEOREM TransportTyping == AnySpec => []TransportTypeOK
  BY TransportTypeInit, TransportTypeStep, PTL DEF AnySpec

-----------------------------------------------------------------------------
(* A step that ends a transfer, or leaves it and ROMCNT alone.             *)
LEMMA AdvanceKeepsBits ==
  ASSUME CardStartHeld, Advance
  PROVE  CardStartHeld'
  BY DEF CardStartHeld, Advance, Idle

(* No access but a meddling store parts the bits from the transfer.        *)
LEMMA BitsStep ==
  ASSUME TransportTypeOK, [AnyNext]_transportVars
  PROVE  BitsKept
  <1> SUFFICES ASSUME CardStartHeld, ~Meddles PROVE CardStartHeld'
    BY DEF BitsKept
  <1>1. ASSUME UNCHANGED <<romcnt, direction>> PROVE CardStartHeld'
    BY <1>1 DEF CardStartHeld
  <1>2. CASE \E h \in HeadStores : WriteCmd0(h)
    BY <1>1, <1>2 DEF WriteCmd0, phaseVars
  <1>3. CASE \E w \in Values : WriteCmd1(w)
    BY <1>1, <1>3 DEF WriteCmd1, phaseVars
  <1>4. CASE ReadFifo
    BY <1>1, <1>4, AdvanceKeepsBits DEF ReadFifo, pageRegs, phaseVars
  <1>5. CASE \E w \in Values : WriteFifo(w)
    BY <1>1, <1>5, AdvanceKeepsBits DEF WriteFifo, pageRegs, phaseVars
  <1>6. ASSUME NEW r \in RomCntStores, WriteRomCnt(r) PROVE CardStartHeld'
    <2>1. CASE StoreRomCnt(r)
      <3>1. direction = "none" /\ ~r.ready /\ ~r.activate
        BY <2>1 DEF StoreRomCnt, Meddles
      <3> QED
        BY <2>1, <3>1 DEF StoreRomCnt, phaseVars, CardStartHeld
    <2>2. CASE StartForeign(r) \/ StartMismatched(r) \/ StartUnknown(r) \/ StartSimple(r)
      BY <2>2
      DEF StartForeign, StartMismatched, StartUnknown, StartSimple, Idle, CardStartHeld
    <2>3. CASE (\E answer \in Buffers : StartRead(r, answer)) \/ StartWrite(r)
      BY <2>3 DEF StartRead, StartWrite, Matches, Starts, Opened, CardStartHeld
    <2> QED
      BY <1>6, <2>1, <2>2, <2>3 DEF WriteRomCnt
  <1>7. CASE TransportReset
    BY <1>7 DEF TransportReset, CardStartHeld
  <1>8. CASE UNCHANGED transportVars
    BY <1>1, <1>8 DEF transportVars, pageRegs, phaseVars
  <1> QED
    BY <1>2, <1>3, <1>4, <1>5, <1>6, <1>7, <1>8 DEF AnyNext, Access

(* Only a store to ROMCNT during a transfer, or of the ready bit, can make *)
(* the bits that clients spin on lie about the transfer                    *)
(* (ntr_register_transport.h:219-233, 247-249, 273-276).                   *)
THEOREM BitsFollow == AnySpec => BitsFollowTransfer
  <1>1. TransportTypeOK /\ [AnyNext]_transportVars => [BitsKept]_transportVars
    BY BitsStep
  <1> QED
    BY <1>1, TransportTyping, PTL DEF AnySpec, BitsFollowTransfer

-----------------------------------------------------------------------------
(***************************************************************************)
(* The words of a data phase as sequences.                                 *)
(***************************************************************************)
(* The words of a block behind the first i, up to the j-th.                *)
LEMMA WordsBehind ==
  ASSUME NEW b \in Buffers, NEW i \in 0 .. BlockWords, NEW j \in i .. BlockWords
  PROVE  /\ SubSeq(b, i + 1, j) \in Seq(Values)
         /\ Len(SubSeq(b, i + 1, j)) = j - i
         /\ \A k \in 1 .. (j - i) : SubSeq(b, i + 1, j)[k] = b[i + k]
  <1>1. i \in Int /\ j \in Int /\ i + 1 \in Int
    BY TransportAssumption
  <1>2. \A k \in (i + 1) .. j : b[k] \in Values
    BY <1>1, TransportAssumption DEF Buffers
  <1> DEFINE s == SubSeq(b, i + 1, j)
  <1>3. /\ s \in Seq(Values)
        /\ Len(s) = IF i + 1 <= j THEN j - (i + 1) + 1 ELSE 0
        /\ \A k \in 1 .. (j - (i + 1) + 1) : s[k] = b[i + 1 + k - 1]
    BY <1>1, <1>2, SubSeqProperties
  <1> HIDE DEF s
  <1>4. Len(s) = j - i
    BY <1>1, <1>3
  <1>5. ASSUME NEW k \in 1 .. (j - i) PROVE s[k] = b[i + k]
    <2>1. k \in 1 .. (j - (i + 1) + 1) /\ i + 1 + k - 1 = i + k
      BY <1>1
    <2> QED
      BY <1>3, <2>1
  <1> QED
    BY <1>3, <1>4, <1>5 DEF s

LEMMA WordsSoFar ==
  ASSUME NEW b \in Buffers, NEW j \in 0 .. BlockWords
  PROVE  /\ SubSeq(b, 1, j) \in Seq(Values) /\ Len(SubSeq(b, 1, j)) = j
         /\ \A k \in 1 .. j : SubSeq(b, 1, j)[k] = b[k]
  <1>1. 0 \in 0 .. BlockWords /\ j \in 0 .. BlockWords /\ j \in Int
    BY TransportAssumption
  <1>2. /\ SubSeq(b, 0 + 1, j) \in Seq(Values)
        /\ Len(SubSeq(b, 0 + 1, j)) = j - 0
        /\ \A k \in 1 .. (j - 0) : SubSeq(b, 0 + 1, j)[k] = b[0 + k]
    BY <1>1, WordsBehind
  <1> QED
    BY <1>1, <1>2

(* A page as constructed is a bus with no transfer open.                   *)
LEMMA BusInitially == TransportInit => Bus!BusInit
  BY DEF TransportInit, Bus!BusInit, Bus!NoTransfer, OpenTransfer, NoCall

(* A load from the FIFO during a read takes the next word of the answer.   *)
LEMMA LoadIsTakeWord ==
  ASSUME TransportTypeOK, ReadFifo, direction = "read"
  PROVE  Bus!TakeWord
  <1> USE TransportAssumption
  <1> DEFINE rest == SubSeq(buffer, wordIndex + 1, wordCount)
  <1>1. /\ got' = buffer[wordIndex + 1] /\ Advance
        /\ UNCHANGED <<wordCount, buffer, call>>
    BY DEF ReadFifo
  <1>2. /\ wordIndex \in 0 .. BlockWords /\ wordCount \in 0 .. BlockWords
        /\ wordIndex < wordCount /\ buffer \in Buffers
    BY DEF TransportTypeOK
  <1>3. /\ rest \in Seq(Values) /\ Len(rest) = wordCount - wordIndex
        /\ rest[1] = buffer[wordIndex + 1]
    <2>1. wordCount \in wordIndex .. BlockWords /\ 1 \in 1 .. (wordCount - wordIndex)
      BY <1>2
    <2> QED
      BY <1>2, <2>1, WordsBehind
  <1>4. OpenTransfer = [kind |-> "read", rest |-> rest]
    BY DEF OpenTransfer
  <1>5. CASE wordIndex + 1 >= wordCount
    <2>1. OpenTransfer' = [kind |-> "none"]
      BY <1>1, <1>5 DEF Advance, OpenTransfer
    <2>2. Len(rest) = 1
      BY <1>2, <1>3, <1>5
    <2> QED
      BY <1>1, <1>3, <1>4, <2>1, <2>2 DEF Bus!TakeWord, Bus!NoTransfer
  <1>6. CASE wordIndex + 1 < wordCount
    <2>1. OpenTransfer' = [kind |-> "read", rest |-> SubSeq(buffer, wordIndex + 1 + 1, wordCount)]
      BY <1>1, <1>2, <1>6 DEF Advance, OpenTransfer
    <2>2. Tail(rest) = SubSeq(buffer, wordIndex + 1 + 1, wordCount)
      <3> DEFINE u == SubSeq(buffer, wordIndex + 1 + 1, wordCount)
      <3>1. /\ u \in Seq(Values) /\ Len(u) = wordCount - (wordIndex + 1)
            /\ \A k \in 1 .. (wordCount - (wordIndex + 1)) : u[k] = buffer[wordIndex + 1 + k]
        <4>1. wordIndex + 1 \in 0 .. BlockWords /\ wordCount \in (wordIndex + 1) .. BlockWords
          BY <1>2, <1>6
        <4> QED
          BY <1>2, <4>1, WordsBehind
      <3>2. \A k \in 1 .. (wordCount - wordIndex) : rest[k] = buffer[wordIndex + k]
        <4>1. wordCount \in wordIndex .. BlockWords
          BY <1>2
        <4> QED
          BY <1>2, <4>1, WordsBehind
      <3>3. /\ Tail(rest) \in Seq(Values) /\ Len(Tail(rest)) = Len(rest) - 1
            /\ \A k \in 1 .. Len(Tail(rest)) : Tail(rest)[k] = rest[k + 1]
        <4> HIDE DEF rest
        <4>1. rest # << >>
          BY <1>2, <1>3, <1>6
        <4> QED
          BY <1>3, <4>1, HeadTailProperties
      <3> HIDE DEF u, rest
      <3>4. Len(Tail(rest)) = Len(u)
        BY <1>2, <1>3, <3>1, <3>3
      <3>5. ASSUME NEW k \in 1 .. Len(u) PROVE Tail(rest)[k] = u[k]
        <4>1. /\ k \in 1 .. Len(Tail(rest)) /\ k \in 1 .. (wordCount - (wordIndex + 1))
              /\ k + 1 \in 1 .. (wordCount - wordIndex)
              /\ wordIndex + (k + 1) = wordIndex + 1 + k
          BY <1>2, <1>3, <3>1, <3>4
        <4>2. Tail(rest)[k] = rest[k + 1]
          BY <3>3, <4>1
        <4>3. rest[k + 1] = buffer[wordIndex + (k + 1)]
          BY <3>2, <4>1
        <4> QED
          BY <3>1, <4>1, <4>2, <4>3
      <3>6. Tail(rest) = u
        BY <3>1, <3>3, <3>4, <3>5, SeqEqual
      <3> QED
        BY <3>6 DEF u
    <2>3. Len(rest) # 1
      BY <1>2, <1>3, <1>6
    <2> HIDE DEF rest
    <2> QED
      BY <1>1, <1>3, <1>4, <2>1, <2>2, <2>3 DEF Bus!TakeWord, Bus!Reading
  <1> QED
    BY <1>2, <1>5, <1>6

(* A store to the FIFO during a write adds one word to the block.          *)
LEMMA StoreIsPutWord ==
  ASSUME TransportTypeOK, NEW w \in Values, WriteFifo(w), direction = "write"
  PROVE  Bus!PutWord(w)
  <1> USE TransportAssumption
  <1> DEFINE sent == SubSeq(buffer, 1, wordIndex)
             more == SubSeq(buffer', 1, wordIndex + 1)
  <1>1. /\ buffer' = [buffer EXCEPT ![wordIndex + 1] = w] /\ Advance
        /\ UNCHANGED <<wordCount, index, commandWord, got>>
        /\ IF wordIndex + 1 >= wordCount
           THEN call' = Called("WriteBlock", index, commandWord, buffer')
           ELSE UNCHANGED call
    BY DEF WriteFifo
  <1>2. /\ wordIndex \in 0 .. BlockWords /\ wordCount = BlockWords
        /\ wordIndex < wordCount /\ buffer \in Buffers
    BY DEF TransportTypeOK
  <1>3. buffer' \in Buffers
    BY <1>1, <1>2 DEF Buffers
  <1>4. /\ sent \in Seq(Values) /\ Len(sent) = wordIndex
        /\ \A k \in 1 .. wordIndex : sent[k] = buffer[k]
    BY <1>2, WordsSoFar
  <1>5. /\ more \in Seq(Values) /\ Len(more) = wordIndex + 1
        /\ \A k \in 1 .. (wordIndex + 1) : more[k] = buffer'[k]
    <2> DEFINE j == wordIndex + 1
    <2>1. j \in 0 .. BlockWords
      BY <1>2
    <2> HIDE DEF j
    <2>2. /\ SubSeq(buffer', 1, j) \in Seq(Values) /\ Len(SubSeq(buffer', 1, j)) = j
          /\ \A k \in 1 .. j : SubSeq(buffer', 1, j)[k] = buffer'[k]
      BY <1>3, <2>1, WordsSoFar
    <2> QED
      BY <2>2 DEF j
  <1>6. OpenTransfer = [kind |-> "write", index |-> index, word |-> commandWord, sent |-> sent]
    BY DEF OpenTransfer
  <1>7. CASE wordIndex + 1 < wordCount
    <2>1. OpenTransfer' = [kind |-> "write", index |-> index, word |-> commandWord, sent |-> more]
      BY <1>1, <1>2, <1>7 DEF Advance, OpenTransfer
    <2> HIDE DEF sent, more
    <2>2. Append(sent, w) = more
      <3>1. /\ Append(sent, w) \in Seq(Values) /\ Len(Append(sent, w)) = wordIndex + 1
            /\ \A k \in 1 .. wordIndex : Append(sent, w)[k] = sent[k]
            /\ Append(sent, w)[wordIndex + 1] = w
        BY <1>2, <1>4, AppendProperties
      <3>2. \A k \in 1 .. (wordIndex + 1) : buffer'[k] = IF k = wordIndex + 1 THEN w ELSE buffer[k]
        BY <1>1, <1>2 DEF Buffers
      <3>3. ASSUME NEW k \in 1 .. (wordIndex + 1) PROVE Append(sent, w)[k] = more[k]
        BY <1>2, <1>4, <1>5, <3>1, <3>2
      <3> QED
        BY <1>5, <3>1, <3>3, SeqEqual
    <2>3. Len(Append(sent, w)) < BlockWords
      BY <1>2, <1>5, <1>7, <2>2
    <2>4. UNCHANGED call
      BY <1>1, <1>2, <1>7
    <2> QED
      BY <1>1, <1>6, <2>1, <2>2, <2>3, <2>4 DEF Bus!PutWord, Bus!Writing
  <1>8. CASE wordIndex + 1 = wordCount
    <2>1. OpenTransfer' = [kind |-> "none"] /\ call' = Called("WriteBlock", index, commandWord, buffer')
      BY <1>1, <1>2, <1>8 DEF Advance, OpenTransfer
    <2> HIDE DEF sent, more
    <2>2. Append(sent, w) = buffer'
      <3>1. /\ Append(sent, w) \in Seq(Values) /\ Len(Append(sent, w)) = BlockWords
            /\ \A k \in 1 .. wordIndex : Append(sent, w)[k] = sent[k]
            /\ Append(sent, w)[wordIndex + 1] = w
        BY <1>2, <1>4, <1>8, AppendProperties
      <3>2. \A k \in 1 .. BlockWords : buffer'[k] = IF k = wordIndex + 1 THEN w ELSE buffer[k]
        BY <1>1, <1>2 DEF Buffers
      <3>3. buffer' \in Seq(Values) /\ Len(buffer') = BlockWords
        BY <1>3 DEF Buffers
      <3>4. ASSUME NEW k \in 1 .. BlockWords PROVE Append(sent, w)[k] = buffer'[k]
        BY <1>2, <1>4, <1>8, <3>1, <3>2
      <3> QED
        BY <3>1, <3>3, <3>4, SeqEqual
    <2>3. ~(Len(Append(sent, w)) < BlockWords)
      BY <1>3, <2>2 DEF Buffers
    <2> QED
      BY <1>1, <1>6, <2>1, <2>2, <2>3 DEF Bus!PutWord, Bus!NoTransfer, Bus!Called, Called
  <1> QED
    BY <1>2, <1>7, <1>8

(* A command that is accepted is a command of the bus, with the opcode,    *)
(* index and word that were staged.                                        *)
LEMMA StartIsCommand ==
  ASSUME TransportTypeOK, NEW r \in RomCntStores, StartSimple(r)
  PROVE  \E op \in {"WriteReg", "Exec", "WritePayloadWord"}, i \in Indices, w \in Values :
           Bus!Command(op, i, w)
  <1>1. head.op \in Opcodes /\ head.index \in Indices /\ word \in Values
    BY DEF TransportTypeOK, Heads
  <1>2. /\ Phase(head.op).direction = "none" /\ direction = "none"
        /\ head.op # "foreign" /\ head.op # "unknown"
    BY DEF StartSimple, Matches, Starts
  <1>3. head.op \in {"WriteReg", "Exec", "WritePayloadWord"}
    BY <1>1, <1>2, PhaseWords
  <1>4. /\ OpenTransfer = [kind |-> "none"] /\ OpenTransfer' = [kind |-> "none"]
        /\ call' = Called(head.op, head.index, word, << >>) /\ UNCHANGED got
    BY <1>2 DEF StartSimple, OpenTransfer
  <1>5. Bus!Command(head.op, head.index, word)
    BY <1>3, <1>4 DEF Bus!Command, Bus!NoTransfer, Bus!Called, Called
  <1> QED
    BY <1>1, <1>3, <1>5

(* A matching read command opens a read of the words answered.             *)
LEMMA StartIsOpenRead ==
  ASSUME TransportTypeOK, NEW r \in RomCntStores, NEW answer \in Buffers,
         StartRead(r, answer)
  PROVE  \E op \in {"ReadReg", "ReadBlock"}, i \in Indices, w \in Values,
            n \in {1, BlockWords} :
           \E words \in [1 .. n -> Values] : Bus!OpenRead(op, i, w, words)
  <1> USE TransportAssumption
  <1> DEFINE n == Phase(head.op).words
             words == SubSeq(buffer', 1, n)
  <1>1. head.op \in Opcodes /\ head.index \in Indices /\ word \in Values
    BY DEF TransportTypeOK, Heads
  <1>2. Phase(head.op).direction = "read" /\ direction = "none"
    BY DEF StartRead, Matches, Starts
  <1>3. \/ head.op = "ReadReg" /\ n = 1
        \/ head.op = "ReadBlock" /\ n = BlockWords
    BY <1>1, <1>2, PhaseWords
  <1>4. buffer' \in Buffers
    BY DEF StartRead, Buffers
  <1>5. /\ OpenTransfer = [kind |-> "none"]
        /\ OpenTransfer' = [kind |-> "read", rest |-> words]
        /\ call' = Called(head.op, head.index, word, << >>) /\ UNCHANGED got
    <2>1. direction' = "read" /\ wordIndex' = 0 /\ wordCount' = n
      BY DEF StartRead, Opened
    <2>2. OpenTransfer' = [kind |-> "read", rest |-> SubSeq(buffer', 0 + 1, n)]
      BY <2>1 DEF OpenTransfer
    <2> QED
      BY <1>2, <2>2 DEF StartRead, OpenTransfer
  <1> HIDE DEF n
  <1>6. n \in 1 .. BlockWords
    BY <1>3
  <1>7. words \in Seq(Values) /\ Len(words) = n
    <2>1. 0 \in 0 .. BlockWords /\ n \in 0 .. BlockWords
      BY <1>6
    <2>2. /\ SubSeq(buffer', 0 + 1, n) \in Seq(Values)
          /\ Len(SubSeq(buffer', 0 + 1, n)) = n - 0
      BY <1>4, <2>1, WordsBehind
    <2> QED
      BY <1>6, <2>2
  <1> HIDE DEF words
  <1>8. words \in [1 .. n -> Values]
    BY <1>6, <1>7
  <1>9. Bus!OpenRead(head.op, head.index, word, words)
    BY <1>3, <1>5, <1>7 DEF Bus!OpenRead, Bus!NoTransfer, Bus!Reading, Bus!Called, Called
  <1>10. head.op \in {"ReadReg", "ReadBlock"} /\ n \in {1, BlockWords}
    BY <1>3
  <1> QED
    BY <1>1, <1>8, <1>9, <1>10

(* A matching WriteBlock opens a write with nothing sent yet.              *)
LEMMA StartIsOpenWrite ==
  ASSUME TransportTypeOK, NEW r \in RomCntStores, StartWrite(r)
  PROVE  \E i \in Indices, w \in Values : Bus!OpenWrite(i, w)
  <1>1. head.index \in Indices /\ word \in Values
    BY DEF TransportTypeOK, Heads
  <1>2. /\ direction = "none" /\ direction' = "write" /\ wordIndex' = 0
        /\ index' = head.index /\ commandWord' = word /\ UNCHANGED <<call, got>>
    BY DEF StartWrite, Matches, Starts, Opened, Latch
  <1>3. SubSeq(buffer', 1, 0) = << >>
    BY SubSeqEmpty
  <1>4. /\ OpenTransfer = [kind |-> "none"]
        /\ OpenTransfer' = [kind |-> "write", index |-> head.index, word |-> word, sent |-> << >>]
    BY <1>2, <1>3 DEF OpenTransfer
  <1>5. Bus!OpenWrite(head.index, word)
    BY <1>2, <1>4 DEF Bus!OpenWrite, Bus!NoTransfer, Bus!Writing
  <1> QED
    BY <1>1, <1>5

(* Every access to the page is a step of the bus or a stutter.             *)
LEMMA BusStep ==
  ASSUME TransportTypeOK, [AnyNext]_transportVars
  PROVE  [Bus!BusNext]_(Bus!busVars)
  <1>1. ASSUME UNCHANGED <<phaseVars, call, got>> PROVE UNCHANGED Bus!busVars
    BY <1>1 DEF Bus!busVars, OpenTransfer, phaseVars
  <1>2. CASE \E h \in HeadStores : WriteCmd0(h)
    BY <1>1, <1>2 DEF WriteCmd0
  <1>3. CASE \E w \in Values : WriteCmd1(w)
    BY <1>1, <1>3 DEF WriteCmd1
  <1>4. CASE ReadFifo /\ direction # "read"
    <2>1. OpenTransfer.kind # "read" /\ UNCHANGED OpenTransfer
      BY <1>4 DEF ReadFifo, OpenTransfer, phaseVars
    <2>2. Bus!NothingToTake
      BY <1>4, <2>1 DEF ReadFifo, Bus!NothingToTake
    <2> QED
      BY <2>2 DEF Bus!BusNext
  <1>5. CASE ReadFifo /\ direction = "read"
    BY <1>5, LoadIsTakeWord DEF Bus!BusNext
  <1>6. ASSUME NEW w \in Values, WriteFifo(w) PROVE [Bus!BusNext]_(Bus!busVars)
    <2>1. CASE direction # "write"
      BY <1>1, <1>6, <2>1 DEF WriteFifo
    <2>2. CASE direction = "write"
      BY <1>6, <2>2, StoreIsPutWord DEF Bus!BusNext
    <2> QED
      BY <2>1, <2>2
  <1>7. ASSUME NEW r \in RomCntStores, WriteRomCnt(r) PROVE [Bus!BusNext]_(Bus!busVars)
    <2>1. CASE StoreRomCnt(r)
      BY <1>1, <2>1 DEF StoreRomCnt
    <2>2. CASE StartForeign(r) \/ StartMismatched(r) \/ StartUnknown(r)
      BY <2>2
      DEF StartForeign, StartMismatched, StartUnknown, Matches, Starts, Bus!busVars,
          OpenTransfer
    <2>3. CASE StartSimple(r)
      BY <2>3, StartIsCommand DEF Bus!BusNext
    <2>4. CASE \E answer \in Buffers : StartRead(r, answer)
      BY <2>4, StartIsOpenRead DEF Bus!BusNext
    <2>5. CASE StartWrite(r)
      BY <2>5, StartIsOpenWrite DEF Bus!BusNext
    <2> QED
      BY <1>7, <2>1, <2>2, <2>3, <2>4, <2>5 DEF WriteRomCnt
  <1>8. CASE TransportReset
    <2>1. Bus!PowerUp
      BY <1>8 DEF TransportReset, Bus!PowerUp, Bus!NoTransfer, OpenTransfer
    <2> QED
      BY <2>1 DEF Bus!BusNext
  <1>9. CASE UNCHANGED transportVars
    BY <1>1, <1>9 DEF transportVars
  <1> QED
    BY <1>2, <1>3, <1>4, <1>5, <1>6, <1>7, <1>8, <1>9 DEF AnyNext, Access

(* The register page is a card bus, whatever its client does: each command *)
(* that is accepted reaches the device once, with the index and word it    *)
(* was staged with and the words stored for it, and the words of an answer *)
(* are loaded once and in order (ntr_register_transport.h:172-271).        *)
THEOREM TransportIsBus == AnySpec => RefinesCardBus
  <1>1. TransportTypeOK /\ [AnyNext]_transportVars => [Bus!BusNext]_(Bus!busVars)
    BY BusStep
  <1> QED
    BY <1>1, BusInitially, TransportTyping, PTL DEF AnySpec, RefinesCardBus, Bus!BusSpec
-----------------------------------------------------------------------------
(***************************************************************************)
(* The Azahar device.                                                      *)
(***************************************************************************)
(* A counter that counts one more, and wraps, is never where it was.       *)
LEMMA CounterMoves ==
  ASSUME NEW n \in 0 .. (CounterMod - 1)
  PROVE  (n + 1) % CounterMod # n
<1>1. CounterMod \in Int /\ CounterMod > 1 /\ n \in Int /\ 0 <= n /\ n < CounterMod
  BY TransportAssumption
<1>2. CASE n + 1 < CounterMod
  BY <1>1, <1>2
<1>3. CASE n + 1 = CounterMod
  BY <1>1, <1>3
<1> QED
  BY <1>1, <1>2, <1>3

Counted(old, new) == new = old \/ new = (old + 1) % CounterMod

(* An access raises each of the two counters by one, or not at all.        *)
LEMMA AccessCounts ==
  ASSUME Stores \/ ReadFifo
  PROVE  /\ Counted(faultCount, faultCount') /\ Counted(commands, commands')
         /\ ReadFifo => commands' = commands
<1>1. CASE \E h \in HeadStores : WriteCmd0(h)
  BY <1>1 DEF WriteCmd0, Counted, counters, ReadFifo
<1>2. CASE \E w \in Values : WriteCmd1(w)
  BY <1>2 DEF WriteCmd1, Counted, counters
<1>3. CASE \E w \in Values : WriteFifo(w)
  BY <1>3 DEF WriteFifo, Faulted, Counted, counters
<1>4. ASSUME NEW r \in RomCntStores, WriteRomCnt(r)
      PROVE  Counted(faultCount, faultCount') /\ Counted(commands, commands')
  <2>1. CASE StoreRomCnt(r)
    BY <2>1 DEF StoreRomCnt, Counted, counters
  <2>2. CASE StartForeign(r)
    BY <2>2 DEF StartForeign, Counted
  <2>3. CASE StartMismatched(r)
    BY <2>3 DEF StartMismatched, Faulted, Counted
  <2>4. CASE StartUnknown(r) \/ StartSimple(r)
    BY <2>4 DEF StartUnknown, StartSimple, Latch, Counted
  <2>5. CASE \E answer \in Buffers : StartRead(r, answer)
    BY <2>5 DEF StartRead, Latch, Counted
  <2>6. CASE StartWrite(r)
    BY <2>6 DEF StartWrite, Latch, Counted
  <2> QED
    BY <1>4, <2>1, <2>2, <2>3, <2>4, <2>5, <2>6 DEF WriteRomCnt
<1>5. ASSUME ReadFifo
      PROVE Counted(faultCount, faultCount') /\ commands' = commands
  BY <1>5 DEF ReadFifo, Faulted, Counted, counters
<1>6. CASE ReadFifo
  BY <1>5, <1>6 DEF Counted
<1> QED
  BY <1>1, <1>2, <1>3, <1>4, <1>5, <1>6 DEF Stores

(* What the device remembers is what the transport's counters say, so the  *)
(* next comparison finds exactly the next change.                          *)
LogCurrent ==
  /\ reportedFaults = faultCount
  /\ tracedCommands = IF TraceEnabled THEN commands ELSE 0
  /\ completed \in BOOLEAN /\ announced = completed

AzaharInv ==
  /\ TransportTypeOK
  /\ ~mapped => got = 0
  /\ LogCurrent /\ LogAgrees

(* A line is counted for a counter exactly when the counter moved.         *)
LEMMA LineForChange ==
  ASSUME NEW old \in 0 .. (CounterMod - 1), NEW new, Counted(old, new)
  PROVE  Plus(old, new # old) = new
  BY CounterMoves DEF Counted, Plus

(* The device as constructed.                                              *)
LEMMA AzaharInvInit == AzaharInit => AzaharInv
<1> SUFFICES ASSUME AzaharInit PROVE AzaharInv
  OBVIOUS
<1>1. TransportTypeOK
  BY TransportTypeInit DEF AzaharInit
<1>2. faultCount = 0 /\ commands = 0 /\ got = 0
  BY DEF AzaharInit, TransportInit
<1> QED
  BY <1>1, <1>2 DEF AzaharInit, AzaharInv, LogCurrent, LogAgrees, NoLines

(* Every step of the device is one that any client may make on the         *)
(* register page, or none: without a Reset a load finds nothing.           *)
LEMMA AzaharStepIsAccess ==
  ASSUME AzaharInv, [AzaharNext]_azaharVars
  PROVE  [AnyNext]_transportVars
<1>1. CASE Reset
  BY <1>1 DEF Reset, AnyNext
<1>2. CASE Read32
  BY <1>2 DEF Read32, AnyNext, Access
<1>3. CASE Write32
  BY <1>3 DEF Write32, Stores, AnyNext, Access
<1>4. CASE Unmapped
  <2>1. got' = got
    BY <1>4 DEF Unmapped, AzaharInv
  <2> QED BY <1>4, <2>1 DEF Unmapped, transportVars
<1>5. CASE UNCHANGED azaharVars
  BY <1>5 DEF azaharVars
<1> QED
  BY <1>1, <1>2, <1>3, <1>4, <1>5 DEF AzaharNext

(* The three comparisons after an access keep the log exact.               *)
LEMMA AzaharInvStep == AzaharInv /\ [AzaharNext]_azaharVars => AzaharInv'
<1> SUFFICES ASSUME AzaharInv, [AzaharNext]_azaharVars PROVE AzaharInv'
  OBVIOUS
<1>1. TransportTypeOK'
  BY AzaharStepIsAccess, TransportTypeStep DEF AzaharInv
<1>2. faultCount \in 0 .. (CounterMod - 1) /\ commands \in 0 .. (CounterMod - 1)
  BY DEF AzaharInv, TransportTypeOK
<1>3. CASE Reset
  BY <1>1, <1>3 DEF Reset, TransportReset, AzaharInv, LogCurrent, LogAgrees, NoLines
<1>4. CASE Read32
  <2>1. /\ mapped' = mapped /\ mapped /\ Counted(faultCount, faultCount')
        /\ commands' = commands /\ completed' = completed
        /\ tracedCommands' = tracedCommands /\ announced' = announced
    BY <1>4, AccessCounts DEF Read32
  <2>2. /\ lines'.trace = lines.trace /\ lines'.complete = lines.complete
        /\ lines'.fault = Plus(lines.fault, Reports)
        /\ reportedFaults' = IF Reports THEN faultCount' ELSE reportedFaults
    BY <1>4 DEF Read32, ReportFaults
  <2>3. Reports = (faultCount' # faultCount)
    BY DEF Reports, AzaharInv, LogCurrent
  <2>4. lines'.fault = faultCount'
    BY <1>2, <2>1, <2>2, <2>3, LineForChange DEF AzaharInv, LogAgrees
  <2>5. reportedFaults' = faultCount'
    BY <2>2 DEF Reports, AzaharInv, LogCurrent
  <2> QED BY <1>1, <2>1, <2>2, <2>4, <2>5 DEF AzaharInv, LogCurrent, LogAgrees
<1>5. CASE Write32
  <2>1. /\ mapped' = mapped /\ mapped
        /\ Counted(faultCount, faultCount') /\ Counted(commands, commands')
    BY <1>5, AccessCounts DEF Write32
  <2>2. /\ lines'.trace = Plus(lines.trace, Traces)
        /\ lines'.fault = Plus(lines.fault, Reports)
        /\ lines'.complete = Plus(lines.complete, Announces)
    BY <1>5 DEF Write32
  <2>3. /\ reportedFaults' = IF Reports THEN faultCount' ELSE reportedFaults
        /\ tracedCommands' = IF Traces THEN commands' ELSE tracedCommands
        /\ announced' = (announced \/ completed')
        /\ completed' \in BOOLEAN /\ (completed => completed')
    BY <1>5 DEF Write32, ReportFaults, TraceCommand, AnnounceCompletion, CoreCompletes
  <2>4. lines'.fault = faultCount' /\ reportedFaults' = faultCount'
    <3>1. Reports = (faultCount' # faultCount)
      BY DEF Reports, AzaharInv, LogCurrent
    <3>2. lines'.fault = faultCount'
      BY <1>2, <2>1, <2>2, <3>1, LineForChange DEF AzaharInv, LogAgrees
    <3> QED BY <2>3, <3>2 DEF Reports, AzaharInv, LogCurrent
  <2>5. /\ lines'.trace = IF TraceEnabled THEN commands' ELSE 0
        /\ tracedCommands' = IF TraceEnabled THEN commands' ELSE 0
    <3>1. CASE TraceEnabled
      <4>1. Traces = (commands' # commands)
        BY <3>1 DEF Traces, AzaharInv, LogCurrent
      <4>2. lines'.trace = commands'
        BY <1>2, <2>1, <2>2, <3>1, <4>1, LineForChange DEF AzaharInv, LogAgrees
      <4> QED BY <2>3, <3>1, <4>1, <4>2 DEF AzaharInv, LogCurrent
    <3>2. CASE ~TraceEnabled
      BY <2>2, <2>3, <3>2 DEF Traces, Plus, AzaharInv, LogCurrent, LogAgrees
    <3> QED BY <3>1, <3>2
  <2>6. announced' = completed' /\ lines'.complete = IF completed' THEN 1 ELSE 0
    <3>1. (0 + 1) % CounterMod = 1
      BY TransportAssumption
    <3>2. announced = completed /\ completed \in BOOLEAN
      BY DEF AzaharInv, LogCurrent
    <3>3. announced' = completed'
      BY <2>3, <3>2
    <3>4. CASE completed
      BY <2>2, <2>3, <3>2, <3>4 DEF Announces, Plus, AzaharInv, LogAgrees
    <3>5. CASE ~completed
      <4>1. lines.complete = 0
        BY <3>5 DEF AzaharInv, LogAgrees
      <4> QED BY <2>2, <2>3, <3>1, <3>2, <3>5, <4>1 DEF Announces, Plus
    <3> QED BY <3>2, <3>3, <3>4, <3>5
  <2> QED BY <1>1, <2>1, <2>3, <2>4, <2>5, <2>6 DEF AzaharInv, LogCurrent, LogAgrees
<1>6. CASE Unmapped
  BY <1>1, <1>6 DEF Unmapped, counters, AzaharInv, LogCurrent, LogAgrees
<1>7. CASE UNCHANGED azaharVars
  BY <1>1, <1>7 DEF azaharVars, transportVars, counters, AzaharInv, LogCurrent, LogAgrees
<1> QED
  BY <1>3, <1>4, <1>5, <1>6, <1>7 DEF AzaharNext

(* The device keeps the invariant.                                         *)
LEMMA AzaharInvariance == AzaharSpec => []AzaharInv
  BY AzaharInvInit, AzaharInvStep, PTL DEF AzaharSpec

(* The log tells every fault and every command once, and a completion      *)
(* once, whatever the guest does and wherever the counters wrap            *)
(* (gekkopak_ntr.cpp:56-89, 122-141).                                      *)
THEOREM LogExact == AzaharSpec => []LogAgrees
<1>1. AzaharInv => LogAgrees
  BY DEF AzaharInv
<1> QED
  BY <1>1, AzaharInvariance, PTL

(* The Azahar device forwards the accesses of a guest and adds none of its *)
(* own (gekkopak_ntr.cpp:91-141).                                          *)
LEMMA AzaharForwards == AzaharSpec => AnySpec
<1>1. AzaharInit => TransportInit
  BY DEF AzaharInit
<1>2. AzaharInv /\ [AzaharNext]_azaharVars => [AnyNext]_transportVars
  BY AzaharStepIsAccess
<1> QED
  BY <1>1, <1>2, AzaharInvariance, PTL DEF AzaharSpec, AnySpec

(* So a guest behind the Azahar device has the bus that CardBus describes, *)
(* and bits to spin on that follow its transfers.                          *)
THEOREM AzaharOnBus == AzaharSpec => RefinesCardBus /\ BitsFollowTransfer
  BY AzaharForwards, TransportIsBus, BitsFollow, PTL
-----------------------------------------------------------------------------
(***************************************************************************)
(* The mailbox.                                                            *)
(***************************************************************************)
(* The stores of a request that lead up to its announcement.               *)
Ahead == IF Command = "HELLO" THEN 2 ELSE IF Command = "UPLOAD" THEN 5 ELSE 1

(* The fields that an answer overwrites.                                   *)
Answers == {"result", "out0", "out1", "out2", "state"}

(* What Issue is: every field is stored once, the state word last.         *)
IssueShape ==
  /\ Len(Issue) = Ahead + 6
  /\ Issue[Ahead + 1] = <<"command", Command>>
  /\ Issue[Ahead + 2] = <<"arg0", Arg0>>
  /\ Issue[Ahead + 3] = <<"arg1", Arg1>>
  /\ Issue[Ahead + 4] = <<"result", Ok>>
  /\ Issue[Ahead + 5] = <<"seq", regs.seq + 1>>
  /\ Issue[Ahead + 6] = <<"state", Request>>
  /\ Command = "HELLO" => Issue[1] = <<"magic", 1>> /\ Issue[2] = <<"payload_len", 0>>
  /\ Command = "UPLOAD" => /\ \A i \in 1 .. 4 : Issue[i] = <<Payload[i], Words[i]>>
                           /\ Issue[5] = <<"payload_len", 4>>
  /\ Command \notin {"HELLO", "UPLOAD"} => Issue[1] = <<"payload_len", 0>>

IssueOnce ==
  /\ \A k \in 1 .. Len(Issue) : Issue[k][1] \in Fields
  /\ \A j, k \in 1 .. Len(Issue) : Issue[j][1] = Issue[k][1] => j = k

(* Two tuples put together.                                                *)
LEMMA Joined ==
  ASSUME NEW s, NEW t, NEW m \in Nat, NEW n \in Nat,
         s = [k \in 1 .. m |-> s[k]], t = [k \in 1 .. n |-> t[k]]
  PROVE  /\ Len(s \o t) = m + n /\ s \o t = [k \in 1 .. m + n |-> (s \o t)[k]]
         /\ \A k \in 1 .. m : (s \o t)[k] = s[k]
         /\ \A k \in 1 .. n : (s \o t)[m + k] = t[k]
<1> DEFINE S == {s[k] : k \in 1 .. m} \cup {t[k] : k \in 1 .. n}
<1>1. s \in Seq(S) /\ Len(s) = m
  <2>1. s \in [1 .. m -> S]
    OBVIOUS
  <2> QED BY <2>1
<1>2. t \in Seq(S) /\ Len(t) = n
  <2>1. t \in [1 .. n -> S]
    OBVIOUS
  <2> QED BY <2>1
<1> HIDE DEF S
<1>3. /\ s \o t \in Seq(S) /\ Len(s \o t) = m + n
      /\ \A k \in 1 .. m + n : (s \o t)[k] = IF k <= m THEN s[k] ELSE t[k - m]
  <2>1. /\ s \o t \in Seq(S) /\ Len(s \o t) = Len(s) + Len(t)
        /\ \A k \in 1 .. Len(s) + Len(t) :
             (s \o t)[k] = IF k <= Len(s) THEN s[k] ELSE t[k - Len(s)]
    BY <1>1, <1>2, ConcatProperties
  <2> QED BY <1>1, <1>2, <2>1, Zenon
<1>4. s \o t \in [1 .. m + n -> S]
  <2>1. s \o t \in [1 .. Len(s \o t) -> S]
    BY <1>3, LenProperties
  <2> QED BY <1>3, <2>1, Zenon
<1>5. ASSUME NEW k \in 1 .. n PROVE (s \o t)[m + k] = t[k]
  <2>1. m + k \in 1 .. m + n /\ ~(m + k <= m) /\ (m + k) - m = k
    OBVIOUS
  <2> QED BY <1>3, <2>1
<1>6. ASSUME NEW k \in 1 .. m PROVE (s \o t)[k] = s[k]
  <2>1. k \in 1 .. m + n /\ k <= m
    OBVIOUS
  <2> QED BY <1>3, <2>1
<1> QED
  BY <1>3, <1>4, <1>5, <1>6

(* The fields by their names.                                              *)
LEMMA FieldNames ==
  /\ Fields = {"magic", "seq", "command", "state", "result", "arg0", "arg1",
               "out0", "out1", "out2", "payload_len",
               "payload0", "payload4", "payload8", "payload12"}
  /\ Payload[1] = "payload0" /\ Payload[2] = "payload4"
  /\ Payload[3] = "payload8" /\ Payload[4] = "payload12"
<1>1. /\ Payload[1] = "payload0" /\ Payload[2] = "payload4"
      /\ Payload[3] = "payload8" /\ Payload[4] = "payload12"
      /\ DOMAIN Payload = 1 .. 4
  BY DEF Payload
<1>2. {Payload[i] : i \in DOMAIN Payload} = {"payload0", "payload4", "payload8", "payload12"}
  <2>1. \A i \in 1 .. 4 : i = 1 \/ i = 2 \/ i = 3 \/ i = 4
    OBVIOUS
  <2>2. 1 \in 1 .. 4 /\ 2 \in 1 .. 4 /\ 3 \in 1 .. 4 /\ 4 \in 1 .. 4
    OBVIOUS
  <2> HIDE DEF Payload
  <2> QED BY <1>1, <2>1, <2>2
<1> QED
  BY <1>1, <1>2 DEF Fields

(* The guest's stores for a request.                                       *)
LEMMA IssueHasShape == IssueShape
<1> USE DEF Ahead
<1>1. Announcement = [k \in 1 .. 6 |-> Announcement[k]]
  BY DEF Announcement
<1>2. /\ Announcement[1] = <<"command", Command>> /\ Announcement[2] = <<"arg0", Arg0>>
      /\ Announcement[3] = <<"arg1", Arg1>> /\ Announcement[4] = <<"result", Ok>>
      /\ Announcement[5] = <<"seq", regs.seq + 1>> /\ Announcement[6] = <<"state", Request>>
  BY DEF Announcement
<1>3. /\ Ahead \in Nat /\ Preparation = [k \in 1 .. Ahead |-> Preparation[k]]
      /\ Command = "HELLO" => Preparation[1] = <<"magic", 1>> /\ Preparation[2] = <<"payload_len", 0>>
      /\ Command = "UPLOAD" => /\ \A i \in 1 .. 4 : Preparation[i] = <<Payload[i], Words[i]>>
                               /\ Preparation[5] = <<"payload_len", 4>>
      /\ Command \notin {"HELLO", "UPLOAD"} => Preparation[1] = <<"payload_len", 0>>
  <2>1. CASE Command = "HELLO"
    <3>1. Preparation = << <<"magic", 1>>, <<"payload_len", 0>> >>
      BY <2>1 DEF Preparation
    <3> QED BY <2>1, <3>1
  <2>2. CASE Command = "UPLOAD"
    <3> DEFINE s == [i \in 1 .. 4 |-> <<Payload[i], Words[i]>>]
               t == << <<"payload_len", 4>> >>
    <3>1. Len(Words) = 4
      BY MailboxAssumption
    <3>2. Preparation = s \o t
      BY <2>2, <3>1 DEF Preparation
    <3>3. s = [i \in 1 .. 4 |-> s[i]] /\ t = [i \in 1 .. 1 |-> t[i]]
      OBVIOUS
    <3>4. \A i \in 1 .. 4 : s[i] = <<Payload[i], Words[i]>>
      OBVIOUS
    <3>5. t[1] = <<"payload_len", 4>>
      OBVIOUS
    <3> HIDE DEF s, t
    <3>6. /\ Preparation = [k \in 1 .. 4 + 1 |-> Preparation[k]]
          /\ \A k \in 1 .. 4 : Preparation[k] = s[k]
          /\ \A k \in 1 .. 1 : Preparation[4 + k] = t[k]
      BY <3>2, <3>3, Joined
    <3>7. Preparation[5] = t[1]
      BY <3>6
    <3> QED BY <2>2, <3>4, <3>5, <3>6, <3>7
  <2>3. CASE Command \notin {"HELLO", "UPLOAD"}
    <3>1. Preparation = << <<"payload_len", 0>> >>
      BY <2>3 DEF Preparation
    <3> QED BY <2>3, <3>1
  <2> QED BY <2>1, <2>2, <2>3
<1> HIDE DEF Ahead
<1>4. /\ Len(Issue) = Ahead + 6
      /\ \A k \in 1 .. Ahead : Issue[k] = Preparation[k]
      /\ \A k \in 1 .. 6 : Issue[Ahead + k] = Announcement[k]
  <2>1. Ahead \in Nat /\ Preparation = [k \in 1 .. Ahead |-> Preparation[k]]
    BY <1>3
  <2>2. 6 \in Nat
    OBVIOUS
  <2>3. Len(Preparation \o Announcement) = Ahead + 6
    BY <1>1, <2>1, <2>2, Joined
  <2>4. \A k \in 1 .. Ahead : (Preparation \o Announcement)[k] = Preparation[k]
    BY <1>1, <2>1, <2>2, Joined
  <2>5. \A k \in 1 .. 6 : (Preparation \o Announcement)[Ahead + k] = Announcement[k]
    BY <1>1, <2>1, <2>2, Joined
  <2> QED BY <2>3, <2>4, <2>5, Zenon DEF Issue
<1>5. Ahead \in {1, 2, 5} /\ (Command = "HELLO" => Ahead = 2) /\ (Command = "UPLOAD" => Ahead = 5)
  BY DEF Ahead
<1>6. /\ Issue[Ahead + 1] = Announcement[1] /\ Issue[Ahead + 2] = Announcement[2]
      /\ Issue[Ahead + 3] = Announcement[3] /\ Issue[Ahead + 4] = Announcement[4]
      /\ Issue[Ahead + 5] = Announcement[5] /\ Issue[Ahead + 6] = Announcement[6]
  BY <1>4
<1>7. /\ Command = "HELLO" => Issue[1] = Preparation[1] /\ Issue[2] = Preparation[2]
      /\ Command = "UPLOAD" => \A i \in 1 .. 5 : Issue[i] = Preparation[i]
      /\ Issue[1] = Preparation[1]
  BY <1>4, <1>5
<1>8. Command = "UPLOAD" => /\ \A i \in 1 .. 4 : Issue[i] = <<Payload[i], Words[i]>>
                           /\ Issue[5] = <<"payload_len", 4>>
  <2> SUFFICES ASSUME Command = "UPLOAD"
               PROVE  /\ \A i \in 1 .. 4 : Issue[i] = <<Payload[i], Words[i]>>
                      /\ Issue[5] = <<"payload_len", 4>>
    OBVIOUS
  <2>1. /\ \A i \in 1 .. 4 : Preparation[i] = <<Payload[i], Words[i]>>
        /\ Preparation[5] = <<"payload_len", 4>>
    BY <1>3
  <2>2. \A i \in 1 .. 5 : Issue[i] = Preparation[i]
    BY <1>7
  <2>3. \A i \in 1 .. 4 : Issue[i] = Preparation[i]
    BY <2>2
  <2>4. Issue[5] = Preparation[5]
    BY <2>2
  <2> QED BY <2>1, <2>3, <2>4, Zenon
<1> QED
  BY <1>2, <1>3, <1>4, <1>6, <1>7, <1>8, Zenon DEF IssueShape

(* Every field is stored at most once.                                     *)
LEMMA IssueStoresOnce == IssueOnce
<1>1. CASE Command = "HELLO"
  <2>1. /\ Len(Issue) = 8
        /\ Issue[1][1] = "magic" /\ Issue[2][1] = "payload_len" /\ Issue[3][1] = "command"
        /\ Issue[4][1] = "arg0" /\ Issue[5][1] = "arg1" /\ Issue[6][1] = "result"
        /\ Issue[7][1] = "seq" /\ Issue[8][1] = "state"
    BY <1>1, IssueHasShape DEF IssueShape, Ahead
  <2> QED BY <2>1, FieldNames DEF IssueOnce
<1>2. CASE Command = "UPLOAD"
  <2>1. /\ Len(Issue) = 11
        /\ Issue[1][1] = "payload0" /\ Issue[2][1] = "payload4" /\ Issue[3][1] = "payload8"
        /\ Issue[4][1] = "payload12" /\ Issue[5][1] = "payload_len" /\ Issue[6][1] = "command"
        /\ Issue[7][1] = "arg0" /\ Issue[8][1] = "arg1" /\ Issue[9][1] = "result"
        /\ Issue[10][1] = "seq" /\ Issue[11][1] = "state"
    BY <1>2, IssueHasShape, FieldNames DEF IssueShape, Ahead
  <2> QED BY <2>1, FieldNames DEF IssueOnce
<1>3. CASE Command \notin {"HELLO", "UPLOAD"}
  <2>1. /\ Len(Issue) = 7
        /\ Issue[1][1] = "payload_len" /\ Issue[2][1] = "command" /\ Issue[3][1] = "arg0"
        /\ Issue[4][1] = "arg1" /\ Issue[5][1] = "result"
        /\ Issue[6][1] = "seq" /\ Issue[7][1] = "state"
    BY <1>3, IssueHasShape DEF IssueShape, Ahead
  <2> QED BY <2>1, FieldNames DEF IssueOnce
<1> QED
  BY <1>1, <1>2, <1>3
-----------------------------------------------------------------------------
(* The request was answered, and how many requests of the script were      *)
(* answered without an error.                                              *)
Replied == Waiting /\ mb["state"] = Response
Succeeded == IF Replied /\ mb["result"] = Ok THEN step ELSE step - 1

SessionTyped ==
  /\ DOMAIN mb = Fields /\ step \in 1 .. 9 /\ at \in 0 .. Len(Issue)
  /\ regs.seq \in Nat /\ served \in Nat /\ frame \in Nat /\ stalls \in Nat
  /\ DOMAIN host = {"last_seq", "next_alloc", "next_job", "done"} /\ host.done \in BOOLEAN
  /\ DOMAIN alloc = {"handle", "size", "uploaded", "data"} /\ alloc.size \in Nat
  /\ DOMAIN job = {"handle", "checksum", "polls_remaining", "ready"}
  /\ DOMAIN summary = {"status", "checksum"}

(* The stores done are in the page, but for those an answer overwrites.    *)
Stored ==
  /\ \A k \in 1 .. at : Issue[k][1] \notin Answers => mb[Issue[k][1]] = Issue[k][2]
  /\ step > 1 \/ at > 0 => mb["magic"] = 1

(* The state word says who is to act, and both sides have counted the same *)
(* requests.                                                               *)
Handshake ==
  /\ ~Waiting => mb["state"] # Request
  /\ Waiting => mb["state"] \in {Request, Response}
  /\ served = IF Replied THEN regs.seq + 1 ELSE regs.seq
  /\ host.last_seq = served

(* Every frame that was not a stall answered a request.                    *)
FramesCounted == frame = stalls + served

(* What the session has achieved by the requests that succeeded.           *)
Achieved ==
  /\ Succeeded = 3 => alloc.uploaded = 0
  /\ Succeeded \in 4 .. 7 => Checksum = Words
  /\ Succeeded >= 5 => job.checksum = Words
  /\ Succeeded = 7 /\ step = 7 => mb["out2"] = Words
  /\ step >= 8 => summary.checksum = Words
  /\ Succeeded >= 8 => alloc = NoAlloc
  /\ step = 9 => summary.status = "PASS"
  /\ host.done <=> step = 9 /\ Replied

(* A job is ready after two polls, so one request is repeated at most once. *)
PollsCounted ==
  /\ step < 6 => regs.seq = step - 1
  /\ step >= 6 => regs.seq \in {step - 1, step}
  /\ step = 5 /\ Succeeded = 5 => job.polls_remaining = 2 /\ ~job.ready
  /\ step = 6 /\ Succeeded = 5 => job.polls_remaining = 7 - regs.seq /\ ~job.ready
  /\ step = 6 /\ Succeeded = 6 /\ mb["out0"] = 0 =>
       regs.seq = 5 /\ job.polls_remaining = 1 /\ ~job.ready

SessionInv ==
  SessionTyped /\ Stored /\ Handshake /\ FramesCounted /\ Achieved /\ PollsCounted
-----------------------------------------------------------------------------
(* The request the guest is at depends on its registers and its place.     *)
LEMMA SameRequest ==
  ASSUME UNCHANGED <<regs, step>>
  PROVE  Issue' = Issue /\ Command' = Command /\ Arg0' = Arg0 /\ Arg1' = Arg1
<1>1. Command' = Command
  BY DEF Command
<1>2. Arg0' = Arg0 /\ Arg1' = Arg1
  BY <1>1 DEF Arg0, Arg1
<1>3. Announcement' = Announcement
  BY <1>1, <1>2 DEF Announcement
<1>4. Preparation' = Preparation
  BY <1>1 DEF Preparation
<1> QED
  BY <1>1, <1>2, <1>3, <1>4 DEF Issue

(* The script, by number.                                                  *)
LEMMA Scripted ==
  ASSUME step \in 1 .. 9
  PROVE  /\ Command = "HELLO" <=> step = 1
         /\ Command = "GET_CAPS" <=> step = 2
         /\ Command = "ALLOC" <=> step = 3
         /\ Command = "UPLOAD" <=> step = 4
         /\ Command = "SUBMIT" <=> step = 5
         /\ Command = "POLL" <=> step = 6
         /\ Command = "COLLECT" <=> step = 7
         /\ Command = "FREE" <=> step = 8
         /\ Command = "COMPLETE" <=> step = 9
         /\ Len(Script) = 9
  BY DEF Command, Script

(* A request that is announced is in the page as it was meant.             *)
LEMMA AnnouncedWhole ==
  ASSUME SessionTyped, Stored, Waiting
  PROVE  /\ mb["command"] = Command /\ mb["arg0"] = Arg0 /\ mb["arg1"] = Arg1
         /\ mb["seq"] = regs.seq + 1 /\ mb["magic"] = 1
         /\ Command = "UPLOAD" => /\ mb["payload_len"] = 4
                                  /\ \A i \in 1 .. 4 : mb[Payload[i]] = Words[i]
<1>1. Ahead \in {1, 2, 5} /\ (Command = "UPLOAD" => Ahead = 5)
  BY DEF Ahead
<1>2. IssueShape
  BY IssueHasShape
<1>3. at = Ahead + 6
  BY <1>2 DEF Waiting, IssueShape
<1>4. /\ Ahead + 1 \in 1 .. at /\ Ahead + 2 \in 1 .. at /\ Ahead + 3 \in 1 .. at
      /\ Ahead + 5 \in 1 .. at /\ at > 0
  BY <1>1, <1>3
<1>5. /\ mb["command"] = Command /\ mb["arg0"] = Arg0 /\ mb["arg1"] = Arg1
      /\ mb["seq"] = regs.seq + 1 /\ mb["magic"] = 1
  BY <1>2, <1>4 DEF Stored, IssueShape, Answers
<1>6. ASSUME Command = "UPLOAD"
      PROVE  mb["payload_len"] = 4 /\ \A i \in 1 .. 4 : mb[Payload[i]] = Words[i]
  <2>1. at = 11 /\ 5 \in 1 .. at /\ \A i \in 1 .. 4 : i \in 1 .. at
    BY <1>1, <1>3, <1>6
  <2>2. \A i \in 1 .. 4 : Payload[i] \notin Answers
    BY FieldNames DEF Answers
  <2>3. \A i \in 1 .. 4 : Issue[i][1] = Payload[i] /\ Issue[i][2] = Words[i]
    BY <1>2, <1>6 DEF IssueShape
  <2>4. Issue[5][1] = "payload_len" /\ Issue[5][2] = 4
    BY <1>2, <1>6 DEF IssueShape
  <2>5. mb["payload_len"] = 4
    BY <2>1, <2>4 DEF Stored, Answers
  <2> QED BY <2>1, <2>2, <2>3, <2>5 DEF Stored
<1> QED
  BY <1>5, <1>6

(* What an answer writes, and that it writes nothing else.                 *)
LEMMA ReplyWrites ==
  ASSUME DOMAIN mb = Fields, NEW result, NEW out0, NEW out2, Reply(result, out0, out2)
  PROVE  /\ DOMAIN mb' = Fields
         /\ mb'["result"] = result /\ mb'["out0"] = out0 /\ mb'["out2"] = out2
         /\ mb'["state"] = Response
         /\ \A f \in Fields : f \notin Answers => mb'[f] = mb[f]
         /\ served' = served + 1
<1>1. mb' = [mb EXCEPT !["result"] = result, !["out0"] = out0, !["out1"] = 0,
                       !["out2"] = out2, !["state"] = Response]
      /\ served' = served + 1
  BY DEF Reply
<1>2. DOMAIN mb' = Fields
  BY <1>1
<1>3. {"result", "out0", "out1", "out2", "state"} \subseteq Fields
  BY DEF Fields
<1>4. /\ mb'["result"] = result /\ mb'["out0"] = out0 /\ mb'["out2"] = out2
      /\ mb'["state"] = Response
  BY <1>1, <1>3
<1>5. ASSUME NEW f \in Fields, f \notin Answers PROVE mb'[f] = mb[f]
  BY <1>1, <1>3, <1>5 DEF Answers
<1> QED
  BY <1>1, <1>2, <1>4, <1>5

(* A store into the page.                                                  *)
LEMMA StoreWrites ==
  ASSUME SessionTyped, Store
  PROVE  /\ at' = at + 1 /\ at + 1 \in 1 .. Len(Issue) /\ DOMAIN mb' = Fields
         /\ Issue[at + 1][1] \in Fields
         /\ mb'[Issue[at + 1][1]] = Issue[at + 1][2]
         /\ \A f \in Fields : f # Issue[at + 1][1] => mb'[f] = mb[f]
<1>1. at' = at + 1 /\ mb' = [mb EXCEPT ![Issue[at + 1][1]] = Issue[at + 1][2]] /\ at # Len(Issue)
  BY DEF Store, Waiting
<1>2. Len(Issue) \in Nat
  BY IssueHasShape DEF IssueShape, Ahead
<1>3. at + 1 \in 1 .. Len(Issue)
  BY <1>1, <1>2 DEF SessionTyped
<1>4. Issue[at + 1][1] \in Fields
  BY <1>3, IssueStoresOnce DEF IssueOnce
<1> QED
  BY <1>1, <1>3, <1>4 DEF SessionTyped
-----------------------------------------------------------------------------
(* Initially the guest is about to make its first store.                   *)
LEMMA SessionInvInit == Init => SessionInv
<1> SUFFICES ASSUME Init PROVE SessionInv
  OBVIOUS
<1>1. Len(Issue) \in Nat \ {0}
  BY IssueHasShape DEF IssueShape, Ahead
<1>2. ~Waiting /\ ~Replied /\ Succeeded = 0
  BY <1>1 DEF Init, Waiting, Replied, Succeeded
<1>3. SessionTyped
  BY <1>1 DEF Init, SessionTyped, NoAlloc, NoJob
<1>4. mb["state"] = 0
  BY DEF Init, Fields
<1>5. Stored /\ FramesCounted
  BY DEF Init, Stored, FramesCounted
<1>6. Handshake
  BY <1>2, <1>4 DEF Init, Handshake, Request
<1>7. Achieved
  BY <1>2 DEF Init, Achieved, NoAlloc
<1>8. PollsCounted
  BY <1>2 DEF Init, PollsCounted
<1> QED
  BY <1>3, <1>5, <1>6, <1>7, <1>8 DEF SessionInv

(* A step before the answer that leaves the registers, the summary and the *)
(* frontend alone achieves nothing and undoes nothing.                     *)
LEMMA Unanswered ==
  ASSUME Achieved, PollsCounted, step \in 1 .. 9, ~Replied, ~Replied',
         UNCHANGED <<regs, step, summary, alloc, job, host>>
  PROVE  Achieved' /\ PollsCounted'
<1>1. Succeeded = step - 1 /\ Succeeded' = step - 1
  BY DEF Succeeded
<1>2. Checksum' = Checksum
  BY DEF Checksum
<1>3. Achieved'
  BY <1>1, <1>2 DEF Achieved
<1>4. PollsCounted'
  BY <1>1 DEF PollsCounted
<1> QED
  BY <1>3, <1>4

(* A store puts one more field of the request into the page; the last one  *)
(* is the state word.                                                      *)
LEMMA StoreKeeps == SessionInv /\ Store => SessionInv'
<1> SUFFICES ASSUME SessionInv, Store PROVE SessionInv'
  OBVIOUS
<1>1. /\ SessionTyped /\ Stored /\ Handshake /\ FramesCounted /\ Achieved /\ PollsCounted
  BY DEF SessionInv
<1>2. ~Waiting /\ UNCHANGED <<regs, step, summary, alloc, job, host, frame, stalls, served>>
  BY DEF Store, frontend
<1>3. Issue' = Issue /\ Command' = Command
  BY <1>2, SameRequest
<1>4. /\ at' = at + 1 /\ at + 1 \in 1 .. Len(Issue) /\ DOMAIN mb' = Fields
      /\ mb'[Issue[at + 1][1]] = Issue[at + 1][2]
      /\ \A f \in Fields : f # Issue[at + 1][1] => mb'[f] = mb[f]
  BY <1>1, StoreWrites
<1>5. step \in 1 .. 9 /\ at \in Nat /\ Len(Issue) \in Nat /\ at + 1 <= Len(Issue)
  BY <1>1, <1>4, IssueHasShape DEF SessionTyped, IssueShape, Ahead
<1>6. SessionTyped'
  BY <1>1, <1>2, <1>3, <1>4, <1>5 DEF SessionTyped
<1>7. ASSUME NEW k \in 1 .. at', Issue'[k][1] \notin Answers
      PROVE  mb'[Issue'[k][1]] = Issue'[k][2]
  <2>1. CASE k = at + 1
    BY <1>3, <1>4, <2>1
  <2>2. CASE k # at + 1
    <3>1. k \in 1 .. at /\ k \in 1 .. Len(Issue) /\ at + 1 \in 1 .. Len(Issue)
      BY <1>4, <1>5, <2>2
    <3>2. mb[Issue[k][1]] = Issue[k][2]
      BY <1>1, <1>3, <1>7, <3>1 DEF Stored
    <3>3. Issue[k][1] \in Fields /\ Issue[k][1] # Issue[at + 1][1]
      BY <2>2, <3>1, IssueStoresOnce DEF IssueOnce
    <3> QED BY <1>3, <1>4, <3>2, <3>3
  <2> QED BY <2>1, <2>2
<1>8. mb'["magic"] = 1
  <2>1. "magic" \in Fields
    BY DEF Fields
  <2>2. CASE Issue[at + 1][1] = "magic"
    <3>1. Command = "HELLO" => Issue[1] = <<"magic", 1>> /\ Issue[1][1] = "magic"
      BY IssueHasShape DEF IssueShape
    <3>2. CASE Command = "HELLO"
      <4>1. 1 \in 1 .. Len(Issue)
        BY <1>4, <1>5
      <4>2. at + 1 = 1
        BY <1>4, <2>2, <3>1, <3>2, <4>1, IssueStoresOnce DEF IssueOnce
      <4> QED BY <1>4, <3>1, <3>2, <4>2
    <3>3. CASE Command # "HELLO"
      <4>1. step > 1
        BY <1>5, <3>3, Scripted
      <4>2. CASE Command = "UPLOAD"
        <5>1. /\ Len(Issue) = 11
              /\ Issue[1][1] = "payload0" /\ Issue[2][1] = "payload4" /\ Issue[3][1] = "payload8"
              /\ Issue[4][1] = "payload12" /\ Issue[5][1] = "payload_len" /\ Issue[6][1] = "command"
              /\ Issue[7][1] = "arg0" /\ Issue[8][1] = "arg1" /\ Issue[9][1] = "result"
              /\ Issue[10][1] = "seq" /\ Issue[11][1] = "state"
          BY <4>2, IssueHasShape, FieldNames DEF IssueShape, Ahead
        <5> QED BY <1>4, <2>2, <5>1
      <4>3. CASE Command # "UPLOAD"
        <5>1. /\ Len(Issue) = 7
              /\ Issue[1][1] = "payload_len" /\ Issue[2][1] = "command" /\ Issue[3][1] = "arg0"
              /\ Issue[4][1] = "arg1" /\ Issue[5][1] = "result"
              /\ Issue[6][1] = "seq" /\ Issue[7][1] = "state"
          BY <3>3, <4>3, IssueHasShape DEF IssueShape, Ahead
        <5> QED BY <1>4, <2>2, <5>1
      <4> QED BY <4>2, <4>3
    <3> QED BY <3>2, <3>3
  <2>3. CASE Issue[at + 1][1] # "magic"
    <3>1. mb'["magic"] = mb["magic"]
      BY <1>4, <2>1, <2>3
    <3>2. CASE at = 0
      <4>1. Command # "HELLO"
        BY <2>3, <3>2, IssueHasShape DEF IssueShape
      <4>2. step > 1
        BY <1>5, <4>1, Scripted
      <4> QED BY <1>1, <3>1, <4>2 DEF Stored
    <3>3. CASE at > 0
      BY <1>1, <3>1, <3>3 DEF Stored
    <3> QED BY <1>5, <3>2, <3>3
  <2> QED BY <2>2, <2>3
<1>9. Stored'
  BY <1>7, <1>8 DEF Stored
<1>10. /\ ~Waiting' => mb'["state"] # Request
       /\ Waiting' => mb'["state"] = Request
  <2>1. Issue[Len(Issue)] = <<"state", Request>> /\ Len(Issue) \in 1 .. Len(Issue)
    BY IssueHasShape DEF IssueShape, Ahead
  <2>2. CASE at + 1 = Len(Issue)
    BY <1>3, <1>4, <2>1, <2>2 DEF Waiting
  <2>3. CASE at + 1 # Len(Issue)
    <3>1. Issue[at + 1][1] # "state" /\ "state" \in Fields
      BY <1>4, <2>1, <2>3, IssueStoresOnce DEF IssueOnce, Fields
    <3>2. mb'["state"] = mb["state"] /\ ~Waiting'
      BY <1>3, <1>4, <2>3, <3>1 DEF Waiting
    <3> QED BY <1>1, <1>2, <3>2 DEF Handshake
  <2> QED BY <2>2, <2>3
<1>11. ~Replied /\ ~Replied'
  BY <1>2, <1>10 DEF Replied, Request, Response
<1>12. Handshake'
  BY <1>1, <1>2, <1>10, <1>11 DEF Handshake
<1>13. FramesCounted'
  BY <1>1, <1>2 DEF FramesCounted
<1>14. Achieved' /\ PollsCounted'
  BY <1>1, <1>2, <1>5, <1>11, Unanswered
<1> QED
  BY <1>6, <1>9, <1>12, <1>13, <1>14 DEF SessionInv

(* A failed guest stays where it is.                                       *)
LEMMA FailKeeps == SessionInv /\ Fail => SessionInv'
<1> SUFFICES ASSUME SessionInv, Fail PROVE SessionInv'
  OBVIOUS
<1>1. /\ SessionTyped /\ Stored /\ Handshake /\ FramesCounted /\ Achieved /\ PollsCounted
  BY DEF SessionInv
<1>2. /\ ~host.done /\ Waiting /\ mb["state"] = Response
      /\ UNCHANGED <<mb, regs, step, at, alloc, job, host, frame, stalls, served>>
      /\ summary' = [summary EXCEPT !.status = "FAIL"]
  BY DEF Fail, Running, Answered, frontend
<1>3. Issue' = Issue
  BY <1>2, SameRequest
<1>4. (Waiting' <=> Waiting) /\ (Replied' <=> Replied) /\ Succeeded' = Succeeded /\ Checksum' = Checksum
  BY <1>2, <1>3 DEF Waiting, Replied, Succeeded, Checksum
<1>5. DOMAIN summary' = {"status", "checksum"} /\ summary'.checksum = summary.checksum
  BY <1>1, <1>2 DEF SessionTyped
<1>6. SessionTyped'
  BY <1>1, <1>2, <1>3, <1>5 DEF SessionTyped
<1>7. Stored'
  BY <1>1, <1>2, <1>3 DEF Stored
<1>8. Handshake' /\ FramesCounted' /\ PollsCounted'
  BY <1>1, <1>2, <1>4 DEF Handshake, FramesCounted, PollsCounted
<1>9. step # 9
  BY <1>1, <1>2 DEF Achieved, Replied
<1>10. Achieved'
  BY <1>1, <1>2, <1>4, <1>5, <1>9 DEF Achieved
<1> QED
  BY <1>6, <1>7, <1>8, <1>10 DEF SessionInv

(* The guest takes down the answer and starts its next request.            *)
LEMMA ProceedKeeps == SessionInv /\ Proceed => SessionInv'
<1> SUFFICES ASSUME SessionInv, Proceed PROVE SessionInv'
  OBVIOUS
<1>1. /\ SessionTyped /\ Stored /\ Handshake /\ FramesCounted /\ Achieved /\ PollsCounted
  BY DEF SessionInv
<1>2. /\ ~host.done /\ Waiting /\ mb["state"] = Response /\ mb["result"] = Ok
      /\ step \in 1 .. 9 /\ step < Len(Script) /\ at' = 0
      /\ UNCHANGED <<alloc, job, host, frame, stalls, served>>
  BY <1>1 DEF Proceed, Running, Answered, frontend, SessionTyped
<1>3. step \in 1 .. 8 /\ Replied /\ Succeeded = step
  <2>1. Len(Script) = 9
    BY DEF Script
  <2>2. step \in 1 .. 8
    BY <1>2, <2>1
  <2> QED BY <1>2, <2>2 DEF Replied, Succeeded
<1>4. /\ regs'.seq = regs.seq + 1
      /\ DOMAIN summary' = {"status", "checksum"}
      /\ summary'.status = IF step = 8 THEN "PASS" ELSE summary.status
      /\ summary'.checksum = IF step = 7 THEN mb["out2"] ELSE summary.checksum
      /\ step' = IF step = 6 /\ mb["out0"] = 0 THEN step ELSE step + 1
  BY <1>2, Scripted DEF Proceed
<1>5. step' \in 1 .. 9
  BY <1>3, <1>4
<1>6. /\ DOMAIN mb' = Fields /\ \A f \in Fields : f # "payload_len" => mb'[f] = mb[f]
  BY <1>1 DEF Proceed, SessionTyped
<1>7. mb'["state"] = Response /\ mb'["magic"] = 1
  <2>1. mb["magic"] = 1
    BY <1>1, <1>2, AnnouncedWhole
  <2> QED BY <1>2, <1>6, <2>1 DEF Fields
<1>8. Len(Issue') \in Nat \ {0}
  <2>1. IssueShape'
    BY IssueHasShape, PTL
  <2> QED BY <2>1 DEF IssueShape, Ahead
<1>9. ~Waiting' /\ ~Replied' /\ Succeeded' = step' - 1
  BY <1>2, <1>8 DEF Waiting, Replied, Succeeded
<1>10. SessionTyped'
  BY <1>1, <1>2, <1>4, <1>5, <1>6, <1>8 DEF SessionTyped
<1>11. Stored'
  BY <1>2, <1>7 DEF Stored
<1>12. Handshake'
  BY <1>1, <1>2, <1>3, <1>4, <1>7, <1>9 DEF Handshake, Request, Response
<1>13. FramesCounted'
  BY <1>1, <1>2 DEF FramesCounted
<1>14. Checksum' = Checksum
  BY <1>2 DEF Checksum
<1>15. CASE step' = step
  <2>1. step = 6 /\ mb["out0"] = 0 /\ Succeeded = 6 /\ Succeeded' = 5
    BY <1>3, <1>4, <1>9, <1>15
  <2>2. Achieved'
    BY <1>1, <1>2, <1>4, <1>9, <1>14, <1>15, <2>1 DEF Achieved
  <2>3. PollsCounted'
    BY <1>1, <1>2, <1>4, <1>15, <2>1 DEF PollsCounted
  <2> QED BY <1>10, <1>11, <1>12, <1>13, <2>2, <2>3 DEF SessionInv
<1>16. CASE step' # step
  <2>1. step' = step + 1 /\ Succeeded' = step
    BY <1>3, <1>4, <1>9, <1>16
  <2>2. Achieved'
    BY <1>1, <1>2, <1>3, <1>4, <1>9, <1>14, <2>1 DEF Achieved
  <2>3. PollsCounted'
    <3>1. regs.seq \in Nat
      BY <1>1 DEF SessionTyped
    <3> QED BY <1>1, <1>2, <1>3, <1>4, <2>1, <3>1 DEF PollsCounted
  <2> QED BY <1>10, <1>11, <1>12, <1>13, <2>2, <2>3 DEF SessionInv
<1> QED
  BY <1>15, <1>16

(* A frame after which the frontend finds nothing to serve: the guest was  *)
(* not waiting for an answer, for an announced request is always taken.    *)
LEMMA IdleFrameKeeps ==
  ASSUME SessionInv, Frame, ~Pending
  PROVE  SessionInv'
<1>1. /\ SessionTyped /\ Stored /\ Handshake /\ FramesCounted /\ Achieved /\ PollsCounted
  BY DEF SessionInv
<1>2. /\ UNCHANGED <<mb, regs, step, at, summary, alloc, job, host, served>>
      /\ frame' = frame + 1
      /\ stalls' = IF Waiting /\ ~Answered THEN stalls ELSE stalls + 1
  BY DEF Frame, guest, frontend
<1>3. Issue' = Issue
  BY <1>2, SameRequest
<1>4. (Waiting' <=> Waiting) /\ (Replied' <=> Replied) /\ Succeeded' = Succeeded /\ Checksum' = Checksum
  BY <1>2, <1>3 DEF Waiting, Replied, Succeeded, Checksum
<1>5. stalls' = stalls + 1
  <2> SUFFICES ASSUME Waiting, ~Answered PROVE FALSE
    BY <1>2
  <2>1. mb["state"] = Request /\ ~Replied
    BY <1>1 DEF Handshake, Answered, Replied
  <2>2. mb["magic"] = 1 /\ mb["seq"] = regs.seq + 1
    BY <1>1, AnnouncedWhole
  <2>3. host.last_seq = regs.seq /\ regs.seq \in Nat
    BY <1>1, <2>1 DEF Handshake, SessionTyped
  <2> QED BY <2>1, <2>2, <2>3 DEF Pending
<1>6. SessionTyped'
  BY <1>1, <1>2, <1>3, <1>5 DEF SessionTyped
<1>7. FramesCounted'
  BY <1>1, <1>2, <1>5 DEF FramesCounted, SessionTyped
<1>8. Stored' /\ Handshake'
  BY <1>1, <1>2, <1>3, <1>4 DEF Stored, Handshake
<1>9. Achieved' /\ PollsCounted'
  BY <1>1, <1>2, <1>4 DEF Achieved, PollsCounted
<1> QED
  BY <1>6, <1>7, <1>8, <1>9 DEF SessionInv

(* A request that is served is the one the guest announced; the rest of    *)
(* the page, the guest and the count of frames follow.                     *)
LEMMA ServingFrame ==
  ASSUME SessionInv, Frame, Pending
  PROVE  /\ Service /\ Waiting /\ ~Replied /\ mb["command"] = Command /\ step \in 1 .. 9
         /\ UNCHANGED <<regs, step, at, summary>>
         /\ frame' = frame + 1 /\ stalls' = stalls
         /\ Issue' = Issue /\ Waiting'
<1>1. SessionTyped /\ Stored /\ Handshake
  BY DEF SessionInv
<1>2. mb["state"] = Request
  BY DEF Pending
<1>3. Waiting /\ ~Replied /\ ~Answered
  BY <1>1, <1>2 DEF Handshake, Replied, Answered, Request, Response
<1>4. mb["command"] = Command /\ step \in 1 .. 9
  BY <1>1, <1>3, AnnouncedWhole DEF SessionTyped
<1>5. /\ Service /\ UNCHANGED <<regs, step, at, summary>>
      /\ frame' = frame + 1 /\ stalls' = stalls
  BY <1>3 DEF Frame, guest
<1>6. Issue' = Issue
  BY <1>5, SameRequest
<1>7. Waiting'
  BY <1>3, <1>5, <1>6 DEF Waiting
<1> QED
  BY <1>3, <1>4, <1>5, <1>6, <1>7

(* Every branch of service_gekkopak ends in an answer and notes the        *)
(* sequence number it saw.                                                 *)
LEMMA ServiceAnswers ==
  ASSUME DOMAIN mb = Fields,
         DOMAIN host = {"last_seq", "next_alloc", "next_job", "done"}, Service
  PROVE  /\ DOMAIN mb' = Fields /\ mb'["state"] = Response
         /\ \A f \in Fields : f \notin Answers => mb'[f] = mb[f]
         /\ served' = served + 1
         /\ DOMAIN host' = {"last_seq", "next_alloc", "next_job", "done"}
         /\ host'.last_seq = mb["seq"]
         /\ mb["command"] # "COMPLETE" => host'.done = host.done
         /\ mb["command"] = "COMPLETE" => host'.done = TRUE
<1>1. \E result, out0, out2 : Reply(result, out0, out2)
  <2>1. CASE Hello
    BY <2>1 DEF Hello
  <2>2. CASE Alloc
    BY <2>2 DEF Alloc, Refuse
  <2>3. CASE Upload
    BY <2>3 DEF Upload, Refuse
  <2>4. CASE Submit
    BY <2>4 DEF Submit, Refuse
  <2>5. CASE Poll
    BY <2>5 DEF Poll, Refuse
  <2>6. CASE Collect
    BY <2>6 DEF Collect, Refuse
  <2>7. CASE Free
    BY <2>7 DEF Free, Refuse
  <2>8. CASE Complete
    BY <2>8 DEF Complete
  <2> QED BY <2>1, <2>2, <2>3, <2>4, <2>5, <2>6, <2>7, <2>8 DEF Service
<1>2. PICK result, out0, out2 : Reply(result, out0, out2)
  BY <1>1
<1>3. mb'["state"] = Response /\ DOMAIN mb' = Fields
  BY <1>2, ReplyWrites
<1>4. \A f \in Fields : f \notin Answers => mb'[f] = mb[f]
  BY <1>2, ReplyWrites
<1>5. served' = served + 1
  BY <1>2 DEF Reply
<1>6. \/ mb["command"] # "COMPLETE" /\ host' = Seen
      \/ mb["command"] # "COMPLETE" /\ host' = [Seen EXCEPT !.next_alloc = @ + 1]
      \/ mb["command"] # "COMPLETE" /\ host' = [Seen EXCEPT !.next_job = @ + 1]
      \/ mb["command"] = "COMPLETE" /\ host' = [Seen EXCEPT !.done = TRUE]
  BY DEF Service, Hello, Alloc, Upload, Submit, Poll, Collect, Free, Complete
<1>7. /\ DOMAIN Seen = {"last_seq", "next_alloc", "next_job", "done"}
      /\ Seen.last_seq = mb["seq"] /\ Seen.done = host.done
  BY DEF Seen
<1>8. /\ DOMAIN host' = {"last_seq", "next_alloc", "next_job", "done"}
      /\ host'.last_seq = mb["seq"]
      /\ mb["command"] # "COMPLETE" => host'.done = host.done
      /\ mb["command"] = "COMPLETE" => host'.done = TRUE
  BY <1>6, <1>7
<1> QED
  BY <1>3, <1>4, <1>5, <1>8

(* What a refusal leaves.                                                  *)
LEMMA RefuseWrites ==
  ASSUME DOMAIN mb = Fields, NEW result, result # Ok, Refuse(result)
  PROVE  mb'["result"] # Ok /\ UNCHANGED <<alloc, job>>
<1>1. Reply(result, 0, 0) /\ UNCHANGED <<alloc, job>>
  BY DEF Refuse
<1>2. mb'["result"] = result
  BY <1>1, ReplyWrites
<1> QED
  BY <1>1, <1>2

(* UPLOAD puts the guest's words at the start of the allocation.           *)
LEMMA UploadIsWords ==
  ASSUME SessionTyped, Stored, Waiting, step = 4, alloc.uploaded = 0, Upload
  PROVE  \/ mb'["result"] # Ok /\ UNCHANGED <<alloc, job>>
         \/ /\ DOMAIN alloc' = {"handle", "size", "uploaded", "data"} /\ alloc'.size \in Nat
            /\ Checksum' = Words /\ UNCHANGED job
<1>1. /\ DOMAIN alloc = {"handle", "size", "uploaded", "data"} /\ alloc.size \in Nat
      /\ DOMAIN mb = Fields /\ step \in 1 .. 9
  BY DEF SessionTyped
<1>2. Command = "UPLOAD"
  BY <1>1, Scripted
<1>3. mb["arg1"] = 0 /\ mb["payload_len"] = 4 /\ \A i \in 1 .. 4 : mb[Payload[i]] = Words[i]
  <2>1. Arg1 = 0
    BY <1>2 DEF Arg1
  <2>2. mb["arg1"] = Arg1
    BY AnnouncedWhole
  <2>3. mb["payload_len"] = 4
    BY <1>2, AnnouncedWhole
  <2>4. \A i \in 1 .. 4 : mb[Payload[i]] = Words[i]
    BY <1>2, AnnouncedWhole
  <2> QED BY <2>1, <2>2, <2>3, <2>4
<1>4. CASE ~(Owns /\ mb["arg1"] + mb["payload_len"] <= alloc.size)
  <2>1. Refuse(BadHandle)
    BY <1>4 DEF Upload
  <2> QED BY <1>1, <2>1, RefuseWrites DEF BadHandle, Ok
<1>5. CASE Owns /\ mb["arg1"] + mb["payload_len"] <= alloc.size
  <2>1. /\ 4 <= alloc.size /\ UNCHANGED job
        /\ alloc' = [alloc EXCEPT
              !.data = [i \in 1 .. alloc.size |->
                          IF i > 0 /\ i <= 0 + 4 THEN mb[Payload[i - 0]] ELSE @[i]],
              !.uploaded = IF 0 + 4 > @ THEN 0 + 4 ELSE @]
    BY <1>3, <1>5 DEF Upload
  <2>2. /\ DOMAIN alloc' = {"handle", "size", "uploaded", "data"} /\ alloc'.size \in Nat
        /\ alloc'.uploaded = 4
        /\ alloc'.data = [i \in 1 .. alloc.size |->
                            IF i > 0 /\ i <= 4 THEN mb[Payload[i]] ELSE alloc.data[i]]
    BY <1>1, <2>1
  <2>3. Checksum' = SubSeq(alloc'.data, 1, 4)
    BY <2>2 DEF Checksum
  <2> DEFINE d == alloc'.data
             S == {d[i] : i \in 1 .. alloc.size}
  <2>4. d \in Seq(S) /\ Len(d) = alloc.size
    <3>1. d \in [1 .. alloc.size -> S]
      BY <2>2
    <3> QED BY <1>1, <3>1
  <2>5. \A i \in 1 .. 4 : d[i] = Words[i]
    BY <1>1, <1>3, <2>1, <2>2
  <2> HIDE DEF d, S
  <2>6. SubSeq(d, 1, 4) = [i \in 1 .. 4 |-> d[i]]
    BY <1>1, <2>1, <2>4
  <2>7. Words = [i \in 1 .. 4 |-> Words[i]]
    BY MailboxAssumption
  <2>8. SubSeq(d, 1, 4) = Words
    BY <2>5, <2>6, <2>7
  <2> QED BY <2>1, <2>2, <2>3, <2>8 DEF d
<1> QED
  BY <1>4, <1>5

(* What the answers to the guest's requests do to the allocation and to    *)
(* the job: a refusal leaves them, and each command does its part.         *)
LEMMA ServiceAchieves ==
  ASSUME SessionInv, Frame, Pending
  PROVE  /\ DOMAIN alloc' = {"handle", "size", "uploaded", "data"} /\ alloc'.size \in Nat
         /\ DOMAIN job' = {"handle", "checksum", "polls_remaining", "ready"}
         /\ Achieved' /\ PollsCounted'
<1>1. /\ SessionTyped /\ Stored /\ Achieved /\ PollsCounted
  BY DEF SessionInv
<1>2. /\ Service /\ Waiting /\ ~Replied /\ mb["command"] = Command /\ step \in 1 .. 9
      /\ UNCHANGED <<regs, step, at, summary>> /\ Waiting'
  BY ServingFrame
<1>3. /\ DOMAIN mb = Fields /\ regs.seq \in Nat
      /\ DOMAIN host = {"last_seq", "next_alloc", "next_job", "done"}
      /\ DOMAIN alloc = {"handle", "size", "uploaded", "data"} /\ alloc.size \in Nat
      /\ DOMAIN job = {"handle", "checksum", "polls_remaining", "ready"}
  BY <1>1 DEF SessionTyped
<1>4. /\ mb'["state"] = Response
      /\ mb["command"] # "COMPLETE" => host'.done = host.done
      /\ mb["command"] = "COMPLETE" => host'.done = TRUE
  BY <1>2, <1>3, ServiceAnswers
<1>5. /\ Replied' /\ Succeeded = step - 1
      /\ Succeeded' = IF mb'["result"] = Ok THEN step ELSE step - 1
  BY <1>2, <1>4 DEF Replied, Succeeded
<1>6. ~host.done
  BY DEF Frame, Running
<1>7. host'.done <=> step = 9
  BY <1>2, <1>4, <1>6, Scripted
<1>8. CASE mb'["result"] # Ok /\ UNCHANGED <<alloc, job>> /\ step # 9
  <2>1. Checksum' = Checksum /\ Succeeded' = Succeeded
    BY <1>5, <1>8 DEF Checksum
  <2>2. Achieved'
    BY <1>1, <1>2, <1>5, <1>7, <1>8, <2>1 DEF Achieved
  <2>3. PollsCounted'
    BY <1>1, <1>2, <1>5, <1>8, <2>1 DEF PollsCounted
  <2> QED BY <1>3, <1>8, <2>2, <2>3
<1>9. CASE step \in {1, 2}
  <2>1. Hello
    BY <1>2, <1>9, Scripted DEF Service, Alloc, Upload, Submit, Poll, Collect, Free, Complete
  <2>2. UNCHANGED <<alloc, job>> /\ Succeeded' \in {0, 1, 2}
    BY <1>5, <1>9, <2>1 DEF Hello
  <2>3. Achieved'
    BY <1>1, <1>2, <1>7, <1>9, <2>2 DEF Achieved
  <2>4. PollsCounted'
    BY <1>1, <1>2, <1>9, <2>2 DEF PollsCounted
  <2> QED BY <1>3, <2>2, <2>3, <2>4
<1>10. CASE step = 3
  <2>1. Alloc
    BY <1>2, <1>10, Scripted DEF Service, Hello, Upload, Submit, Poll, Collect, Free, Complete
  <2>2. CASE Refuse(NoMemory)
    <3>1. mb'["result"] # Ok /\ UNCHANGED <<alloc, job>>
      BY <1>3, <2>2, RefuseWrites DEF NoMemory, Ok
    <3> QED BY <1>8, <1>10, <3>1
  <2>3. CASE ~Refuse(NoMemory)
    <3>1. mb["arg0"] = AllocSize
      <4>1. mb["arg0"] = Arg0
        BY <1>1, <1>2, AnnouncedWhole
      <4> QED BY <1>2, <1>10, <4>1, Scripted DEF Arg0
    <3>2. alloc' = [handle |-> host.next_alloc, size |-> mb["arg0"], uploaded |-> 0,
                    data |-> [i \in 1 .. mb["arg0"] |-> "zero"]]
          /\ UNCHANGED job
      BY <2>1, <2>3 DEF Alloc
    <3>3. DOMAIN alloc' = {"handle", "size", "uploaded", "data"} /\ alloc'.size \in Nat
          /\ alloc'.uploaded = 0
      BY <3>1, <3>2, MailboxAssumption
    <3>4. Succeeded' \in {2, 3}
      BY <1>5, <1>10
    <3>5. Achieved'
      BY <1>1, <1>2, <1>7, <1>10, <3>3, <3>4 DEF Achieved
    <3>6. PollsCounted'
      BY <1>1, <1>2, <1>10, <3>4 DEF PollsCounted
    <3> QED BY <1>3, <3>2, <3>3, <3>5, <3>6
  <2> QED BY <2>2, <2>3
<1>11. CASE step = 4
  <2>1. Upload
    BY <1>2, <1>11, Scripted DEF Service, Hello, Alloc, Submit, Poll, Collect, Free, Complete
  <2>2. alloc.uploaded = 0
    BY <1>1, <1>5, <1>11 DEF Achieved
  <2>3. CASE mb'["result"] # Ok /\ UNCHANGED <<alloc, job>>
    BY <1>8, <1>11, <2>3
  <2>4. CASE ~(mb'["result"] # Ok /\ UNCHANGED <<alloc, job>>)
    <3>1. /\ DOMAIN alloc' = {"handle", "size", "uploaded", "data"} /\ alloc'.size \in Nat
          /\ Checksum' = Words /\ UNCHANGED job
      BY <1>1, <1>2, <1>11, <2>1, <2>2, <2>4, UploadIsWords
    <3>2. CASE mb'["result"] = Ok
      <4>1. Succeeded' = 4
        BY <1>5, <1>11, <3>2
      <4>2. Achieved'
        BY <1>1, <1>2, <1>7, <1>11, <3>1, <4>1 DEF Achieved
      <4>3. PollsCounted'
        BY <1>1, <1>2, <1>11, <4>1 DEF PollsCounted
      <4> QED BY <1>3, <3>1, <4>2, <4>3
    <3>3. CASE mb'["result"] # Ok
      <4>1. Refuse(BadHandle)
        <5>1. \/ Reply(Ok, mb["payload_len"], 0)
              \/ Refuse(BadHandle)
          BY <2>1 DEF Upload
        <5>2. ~Reply(Ok, mb["payload_len"], 0)
          BY <1>3, <3>3, ReplyWrites
        <5> QED BY <5>1, <5>2
      <4> QED BY <1>8, <1>11, <3>3, <4>1 DEF Refuse
    <3> QED BY <3>2, <3>3
  <2> QED BY <2>3, <2>4
<1>12. CASE step = 5
  <2>1. Submit
    BY <1>2, <1>12, Scripted DEF Service, Hello, Alloc, Upload, Poll, Collect, Free, Complete
  <2>2. CASE ~(Owns /\ job.handle = 0)
    <3>1. Refuse(BadHandle)
      BY <2>1, <2>2 DEF Submit
    <3>2. mb'["result"] # Ok /\ UNCHANGED <<alloc, job>>
      BY <1>3, <3>1, RefuseWrites DEF BadHandle, Ok
    <3> QED BY <1>8, <1>12, <3>2
  <2>3. CASE Owns /\ job.handle = 0
    <3>1. /\ job' = [handle |-> host.next_job, checksum |-> Checksum,
                     polls_remaining |-> 2, ready |-> FALSE]
          /\ Reply(Ok, host.next_job, 0) /\ UNCHANGED alloc
      BY <2>1, <2>3 DEF Submit
    <3>2. mb'["result"] = Ok
      BY <1>3, <3>1, ReplyWrites
    <3>3. Succeeded' = 5 /\ Succeeded = 4
      BY <1>5, <1>12, <3>2
    <3>4. Checksum = Words /\ Checksum' = Words
      BY <1>1, <3>1, <3>3 DEF Achieved, Checksum
    <3>5. /\ DOMAIN job' = {"handle", "checksum", "polls_remaining", "ready"}
          /\ job'.checksum = Words /\ job'.polls_remaining = 2 /\ ~job'.ready
      BY <3>1, <3>4
    <3>6. Achieved'
      BY <1>1, <1>2, <1>7, <1>12, <3>3, <3>4, <3>5 DEF Achieved
    <3>7. PollsCounted'
      BY <1>1, <1>2, <1>12, <3>3, <3>5 DEF PollsCounted
    <3> QED BY <1>3, <3>1, <3>5, <3>6, <3>7
  <2> QED BY <2>2, <2>3
<1>13. CASE step = 6
  <2>1. Poll
    BY <1>2, <1>13, Scripted DEF Service, Hello, Alloc, Upload, Submit, Collect, Free, Complete
  <2>2. CASE ~IsJob
    <3>1. Refuse(BadHandle)
      BY <2>1, <2>2 DEF Poll
    <3>2. mb'["result"] # Ok /\ UNCHANGED <<alloc, job>>
      BY <1>3, <3>1, RefuseWrites DEF BadHandle, Ok
    <3> QED BY <1>8, <1>13, <3>2
  <2>3. CASE IsJob
    <3>1. job' = Polled /\ Reply(Ok, IF Polled.ready THEN 1 ELSE 0, 0) /\ UNCHANGED alloc
      BY <2>1, <2>3 DEF Poll
    <3>2. mb'["result"] = Ok /\ mb'["out0"] = IF Polled.ready THEN 1 ELSE 0
      <4>1. mb'["result"] = Ok
        BY <1>3, <3>1, ReplyWrites
      <4>2. mb'["out0"] = IF Polled.ready THEN 1 ELSE 0
        BY <1>3, <3>1, ReplyWrites
      <4> QED BY <4>1, <4>2
    <3>3. Succeeded' = 6 /\ Succeeded = 5
      BY <1>5, <1>13, <3>2
    <3>4. /\ regs.seq \in {5, 6} /\ job.polls_remaining = 7 - regs.seq /\ ~job.ready
          /\ Checksum = Words /\ job.checksum = Words
      BY <1>1, <1>13, <3>3 DEF PollsCounted, Achieved
    <3>5. job' = [job EXCEPT !.polls_remaining = IF @ > 0 THEN @ - 1 ELSE 0,
                             !.ready = job.polls_remaining <= 1]
      BY <3>1, <3>4 DEF Polled
    <3>6. /\ DOMAIN job' = {"handle", "checksum", "polls_remaining", "ready"}
          /\ job'.checksum = Words /\ job'.polls_remaining = 6 - regs.seq
          /\ job'.ready = (job.polls_remaining <= 1)
      <4>1. job.polls_remaining \in {1, 2} /\ job.polls_remaining - 1 = 6 - regs.seq
        BY <3>4
      <4>2. /\ DOMAIN job' = {"handle", "checksum", "polls_remaining", "ready"}
            /\ job'.checksum = job.checksum /\ job'.ready = (job.polls_remaining <= 1)
            /\ job'.polls_remaining = IF job.polls_remaining > 0 THEN job.polls_remaining - 1 ELSE 0
        BY <1>3, <3>5
      <4>3. job'.polls_remaining = 6 - regs.seq
        BY <4>1, <4>2
      <4> QED BY <3>4, <4>2, <4>3, Zenon
    <3>7. mb'["out0"] = 0 => regs.seq = 5 /\ job'.polls_remaining = 1 /\ ~job'.ready
      <4>1. CASE regs.seq = 5
        <5>1. ~(job.polls_remaining <= 1) /\ job'.polls_remaining = 1
          BY <3>4, <3>6, <4>1
        <5>2. ~job'.ready
          BY <3>6, <5>1, Zenon
        <5> QED BY <4>1, <5>1, <5>2
      <4>2. CASE regs.seq = 6
        <5>1. job.polls_remaining <= 1
          BY <3>4, <4>2
        <5>2. Polled.ready
          BY <3>1, <3>6, <5>1, Zenon
        <5> QED BY <3>2, <5>2
      <4> QED BY <3>4, <4>1, <4>2
    <3>8. Checksum' = Words
      BY <3>1, <3>4 DEF Checksum
    <3>9. Achieved'
      BY <1>1, <1>2, <1>7, <1>13, <3>3, <3>6, <3>8 DEF Achieved
    <3>10. PollsCounted'
      BY <1>1, <1>2, <1>13, <3>3, <3>7 DEF PollsCounted
    <3> QED BY <1>3, <3>1, <3>6, <3>9, <3>10
  <2> QED BY <2>2, <2>3
<1>14. CASE step = 7
  <2>1. Collect
    BY <1>2, <1>14, Scripted DEF Service, Hello, Alloc, Upload, Submit, Poll, Free, Complete
  <2>2. CASE ~(IsJob /\ job.ready)
    <3>1. Refuse(NotReady) \/ Refuse(BadHandle)
      BY <2>1, <2>2 DEF Collect
    <3>2. mb'["result"] # Ok /\ UNCHANGED <<alloc, job>>
      BY <1>3, <3>1, RefuseWrites DEF BadHandle, NotReady, Ok
    <3> QED BY <1>8, <1>14, <3>2
  <2>3. CASE IsJob /\ job.ready
    <3>1. Reply(Ok, 0, job.checksum) /\ UNCHANGED <<alloc, job>>
      BY <2>1, <2>3 DEF Collect
    <3>2. mb'["result"] = Ok /\ mb'["out2"] = job.checksum
      <4>1. mb'["result"] = Ok
        BY <1>3, <3>1, ReplyWrites
      <4>2. mb'["out2"] = job.checksum
        BY <1>3, <3>1, ReplyWrites
      <4> QED BY <4>1, <4>2
    <3>3. Succeeded' = 7 /\ Succeeded = 6 /\ Checksum' = Checksum
      BY <1>5, <1>14, <3>1, <3>2 DEF Checksum
    <3>4. Achieved'
      BY <1>1, <1>2, <1>7, <1>14, <3>1, <3>2, <3>3 DEF Achieved
    <3>5. PollsCounted'
      BY <1>1, <1>2, <1>14, <3>3 DEF PollsCounted
    <3> QED BY <1>3, <3>1, <3>4, <3>5
  <2> QED BY <2>2, <2>3
<1>15. CASE step = 8
  <2>1. Free
    BY <1>2, <1>15, Scripted DEF Service, Hello, Alloc, Upload, Submit, Poll, Collect, Complete
  <2>2. CASE ~Owns
    <3>1. Refuse(BadHandle)
      BY <2>1, <2>2 DEF Free
    <3>2. mb'["result"] # Ok /\ UNCHANGED <<alloc, job>>
      BY <1>3, <3>1, RefuseWrites DEF BadHandle, Ok
    <3> QED BY <1>8, <1>15, <3>2
  <2>3. CASE Owns
    <3>1. alloc' = NoAlloc /\ Reply(Ok, 0, 0) /\ UNCHANGED job
      BY <2>1, <2>3 DEF Free
    <3>2. mb'["result"] = Ok
      BY <1>3, <3>1, ReplyWrites
    <3>3. Succeeded' = 8 /\ Succeeded = 7
      BY <1>5, <1>15, <3>2
    <3>4. DOMAIN alloc' = {"handle", "size", "uploaded", "data"} /\ alloc'.size \in Nat
      BY <3>1 DEF NoAlloc
    <3>5. Achieved'
      BY <1>1, <1>2, <1>7, <1>15, <3>1, <3>3 DEF Achieved
    <3>6. PollsCounted'
      BY <1>1, <1>2, <1>15, <3>3 DEF PollsCounted
    <3> QED BY <1>3, <3>1, <3>4, <3>5, <3>6
  <2> QED BY <2>2, <2>3
<1>16. CASE step = 9
  <2>1. Complete
    BY <1>2, <1>16, Scripted DEF Service, Hello, Alloc, Upload, Submit, Poll, Collect, Free
  <2>2. UNCHANGED <<alloc, job>> /\ Succeeded' \in {8, 9} /\ Succeeded = 8
    BY <1>5, <1>16, <2>1 DEF Complete
  <2>3. Achieved'
    BY <1>1, <1>2, <1>5, <1>7, <1>16, <2>2 DEF Achieved
  <2>4. PollsCounted'
    BY <1>1, <1>2, <1>16, <2>2 DEF PollsCounted
  <2> QED BY <1>3, <2>2, <2>3, <2>4
<1>17. step \in {1, 2} \/ step = 3 \/ step = 4 \/ step = 5 \/ step = 6 \/ step = 7 \/ step = 8 \/ step = 9
  BY <1>2
<1> QED
  BY <1>9, <1>10, <1>11, <1>12, <1>13, <1>14, <1>15, <1>16, <1>17

(* A frame after which the frontend serves a request.                      *)
LEMMA ServingFrameKeeps ==
  ASSUME SessionInv, Frame, Pending
  PROVE  SessionInv'
<1>1. /\ SessionTyped /\ Stored /\ Handshake /\ FramesCounted
  BY DEF SessionInv
<1>2. /\ Service /\ Waiting /\ ~Replied /\ mb["command"] = Command /\ step \in 1 .. 9
      /\ UNCHANGED <<regs, step, at, summary>> /\ frame' = frame + 1 /\ stalls' = stalls
      /\ Issue' = Issue /\ Waiting'
  BY ServingFrame
<1>3. /\ DOMAIN mb' = Fields /\ mb'["state"] = Response
      /\ \A f \in Fields : f \notin Answers => mb'[f] = mb[f]
      /\ served' = served + 1
      /\ DOMAIN host' = {"last_seq", "next_alloc", "next_job", "done"}
      /\ host'.last_seq = mb["seq"]
      /\ host'.done \in BOOLEAN
  BY <1>1, <1>2, ServiceAnswers DEF SessionTyped
<1>4. /\ DOMAIN alloc' = {"handle", "size", "uploaded", "data"} /\ alloc'.size \in Nat
      /\ DOMAIN job' = {"handle", "checksum", "polls_remaining", "ready"}
      /\ Achieved' /\ PollsCounted'
  BY ServiceAchieves
<1>5. SessionTyped'
  BY <1>1, <1>2, <1>3, <1>4 DEF SessionTyped
<1>6. Stored'
  <2>1. \A k \in 1 .. at : Issue[k][1] \in Fields
    <3>1. at = Len(Issue)
      BY <1>2 DEF Waiting
    <3> QED BY <3>1, IssueStoresOnce DEF IssueOnce
  <2>2. "magic" \in Fields /\ "magic" \notin Answers
    BY DEF Fields, Answers
  <2> QED BY <1>1, <1>2, <1>3, <2>1, <2>2 DEF Stored
<1>7. Handshake'
  <2>1. mb["seq"] = regs.seq + 1 /\ served = regs.seq /\ Replied'
    BY <1>1, <1>2, <1>3, AnnouncedWhole DEF Handshake, Replied
  <2> QED BY <1>2, <1>3, <2>1 DEF Handshake
<1>8. FramesCounted'
  BY <1>1, <1>2, <1>3 DEF FramesCounted, SessionTyped
<1> QED
  BY <1>4, <1>5, <1>6, <1>7, <1>8 DEF SessionInv

(* Every step of the session keeps the invariant.                          *)
LEMMA SessionInvStep == SessionInv /\ [Next]_vars => SessionInv'
<1> SUFFICES ASSUME SessionInv, [Next]_vars PROVE SessionInv'
  OBVIOUS
<1>1. CASE Store
  BY <1>1, StoreKeeps
<1>2. CASE Proceed
  BY <1>2, ProceedKeeps
<1>3. CASE Fail
  BY <1>3, FailKeeps
<1>4. CASE Frame
  <2>1. CASE Pending
    BY <1>4, <2>1, ServingFrameKeeps
  <2>2. CASE ~Pending
    BY <1>4, <2>2, IdleFrameKeeps
  <2> QED BY <2>1, <2>2
<1>5. CASE UNCHANGED vars
  <2>1. UNCHANGED <<mb, regs, step, at, summary, alloc, job, host, frame, stalls, served>>
    BY <1>5 DEF vars, guest, frontend
  <2>2. Issue' = Issue
    BY <2>1, SameRequest
  <2>3. (Waiting' <=> Waiting) /\ (Replied' <=> Replied) /\ Succeeded' = Succeeded /\ Checksum' = Checksum
    BY <2>1, <2>2 DEF Waiting, Replied, Succeeded, Checksum
  <2>4. SessionTyped' /\ Stored' /\ FramesCounted'
    BY <2>1, <2>2 DEF SessionInv, SessionTyped, Stored, FramesCounted
  <2>5. Handshake' /\ Achieved' /\ PollsCounted'
    BY <2>1, <2>3 DEF SessionInv, Handshake, Achieved, PollsCounted
  <2> QED BY <2>4, <2>5 DEF SessionInv
<1> QED
  BY <1>1, <1>2, <1>3, <1>4, <1>5 DEF Next, Guest

(* The invariant of the mailbox session: page, guest and frontend agree on *)
(* the request in flight, and on what the answered ones achieved.          *)
LEMMA SessionInvariance == Spec => []SessionInv
<1>1. Init => SessionInv
  BY SessionInvInit
<1>2. SessionInv /\ [Next]_vars => SessionInv'
  BY SessionInvStep
<1> QED
  BY <1>1, <1>2, PTL DEF Spec
-----------------------------------------------------------------------------
(* The frontend never serves half a request: wherever among the guest's    *)
(* stores a frame ends, service_gekkopak acts on the command, arguments    *)
(* and payload of the request that was issued.                             *)
THEOREM WholeRequests == Spec => ServedWhole
<1>1. ASSUME SessionInv, Next PROVE ServesWhole
  <2> SUFFICES ASSUME served' # served
               PROVE  /\ mb["command"] = Command /\ mb["arg0"] = Arg0 /\ mb["arg1"] = Arg1
                      /\ Command = "UPLOAD" =>
                           /\ mb["payload_len"] = Len(Words)
                           /\ \A i \in 1 .. Len(Words) : mb[Payload[i]] = Words[i]
    BY DEF ServesWhole
  <2>1. Frame /\ Pending
    BY <1>1 DEF Next, Guest, Store, Proceed, Fail, Frame
  <2>2. SessionTyped /\ Stored /\ Waiting
    BY <1>1, <2>1, ServingFrame DEF SessionInv
  <2>3. Len(Words) = 4
    BY MailboxAssumption
  <2>4. mb["command"] = Command /\ mb["arg0"] = Arg0 /\ mb["arg1"] = Arg1
    BY <2>2, AnnouncedWhole
  <2>5. Command = "UPLOAD" => /\ mb["payload_len"] = 4
                              /\ \A i \in 1 .. 4 : mb[Payload[i]] = Words[i]
    BY <2>2, AnnouncedWhole
  <2> QED BY <2>3, <2>4, <2>5
<1>2. SessionInv /\ [Next]_vars => [ServesWhole]_vars
  BY <1>1
<1> QED
  BY <1>2, SessionInvariance, PTL DEF Spec, ServedWhole

(* The guest leaves wait_response only on the answer to the request it     *)
(* issued last: both sides have counted as many requests.                  *)
THEOREM OwnAnswers == Spec => AnswerIsOwn
<1>1. ASSUME SessionInv, Next PROVE TakesOwnAnswer
  <2> SUFFICES ASSUME Waiting, step' # step \/ at' # at \/ summary' # summary
               PROVE  served = regs.seq + 1 /\ host.last_seq = regs.seq + 1
    BY DEF TakesOwnAnswer
  <2>1. Answered
    BY <1>1 DEF Next, Guest, Store, Proceed, Fail, Frame, guest
  <2> QED BY <1>1, <2>1 DEF SessionInv, Handshake, Replied, Answered
<1>2. SessionInv /\ [Next]_vars => [TakesOwnAnswer]_vars
  BY <1>1
<1> QED
  BY <1>2, SessionInvariance, PTL DEF Spec, AnswerIsOwn

(* A session reported as complete has freed its allocation, passed, and    *)
(* collected the checksum of exactly the words the guest stored.           *)
THEOREM CompletionIsTrue == Spec => []CompleteIsTrue
<1>1. SessionInv => CompleteIsTrue
  <2> SUFFICES ASSUME SessionInv, host.done
               PROVE  alloc = NoAlloc /\ summary.status = "PASS" /\ summary.checksum = Words
    BY DEF CompleteIsTrue
  <2>1. step = 9 /\ Succeeded \in {8, 9}
    BY DEF SessionInv, Achieved, Succeeded
  <2> QED BY <2>1 DEF SessionInv, Achieved
<1> QED
  BY <1>1, SessionInvariance, PTL

(* Ten requests are all a session takes, and an announced request is       *)
(* answered by the frame it waits through: a frontend that ran out of      *)
(* frames was stalled in all but nine of them.                             *)
THEOREM FramesAreEnough == Spec => []FramesSuffice
<1>1. SessionInv => FramesSuffice
  <2> SUFFICES ASSUME SessionInv, frame = MaxFrames, ~host.done
               PROVE  stalls > MaxFrames - 10
    BY DEF FramesSuffice
  <2>1. /\ step \in 1 .. 9 /\ regs.seq \in Nat /\ served \in Nat /\ stalls \in Nat
        /\ frame = stalls + served
    BY DEF SessionInv, SessionTyped, FramesCounted
  <2>2. regs.seq <= step
    BY <2>1 DEF SessionInv, PollsCounted
  <2>3. served <= 9
    <3>1. CASE Replied
      <4>1. step # 9
        BY <3>1 DEF SessionInv, Achieved
      <4>2. served = regs.seq + 1
        BY <3>1 DEF SessionInv, Handshake
      <4> QED BY <2>1, <2>2, <4>1, <4>2
    <3>2. CASE ~Replied
      <4>1. served = regs.seq
        BY <3>2 DEF SessionInv, Handshake
      <4> QED BY <2>1, <2>2, <4>1
    <3> QED BY <3>1, <3>2
  <2> QED BY <2>1, <2>3
<1> QED
  BY <1>1, SessionInvariance, PTL
=============================================================================
