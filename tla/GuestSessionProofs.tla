-------------------------- MODULE GuestSessionProofs --------------------------
(***************************************************************************)
(* The session of the ARM guest is clean, for every pool, every block size *)
(* and every size of the buffer it asks for.  The session is a script, so  *)
(* the invariant says what the core and the register page look like when   *)
(* the guest has come so far (Reached, CardInv); while the core processes  *)
(* the guest's block, Working says how far it has got.                     *)
(***************************************************************************)
EXTENDS GuestSession, GekkoDeviceProofs

(* The transactions of the session, by their number.                       *)
LEMMA Scripted ==
  ASSUME step \in 1 .. 19
  PROVE  /\ Len(Script) = 19
         /\ Now.op = "Exec" <=> step \in {1, 4, 9, 16, 18}
         /\ Now.op = "WriteReg" <=> step \in {8, 15}
         /\ Now.op = "WriteBlock" <=> step = 12
         /\ Now.op = "ReadBlock" <=> step = 14
         /\ Now.op = "ReadReg" <=> step \in {2, 3, 5, 6, 7, 10, 11, 13, 17, 19}
  BY DEF Now, Script, ExecHi, ResultOk, Rdreg, Wrreg, SendDescriptor, FetchCompletion

LEMMA Indexed ==
  ASSUME step \in 1 .. 19
  PROVE  /\ Now.index \in Nat
         /\ step = 1 => Now.index = Hello
         /\ step = 4 => Now.index = GetCaps
         /\ step = 9 => Now.index = Alloc
         /\ step = 16 => Now.index = Free
         /\ step = 18 => Now.index = Complete
         /\ step \in {8, 15} => Now.index = RegArg0
         /\ step \in {2, 5, 10, 17, 19} => Now.index = RegResult
         /\ step \in {3, 6, 11} => Now.index = RegOut0
         /\ step = 7 => Now.index = RegOut1
         /\ step = 13 => Now.index = EventDepth
         /\ step = 12 => Now.index = 0
         /\ step = 14 => Now.index = 1
  BY DEF Now, Script, ExecHi, ResultOk, Rdreg, Wrreg, SendDescriptor, FetchCompletion, Hello, GetCaps, Alloc,
    Free, Complete, RegArg0, RegResult, RegOut0, RegOut1, EventDepth

(* Their words, and what the guest asks of their answers.                  *)
LEMMA Worded ==
  ASSUME step \in 1 .. 19
  PROVE  /\ step = 8 => Now.word = want
         /\ step = 15 => Now.word = handle
         /\ step = 12 => Now.word = DescriptorBytes + InlineBytes
         /\ step = 14 => Now.word = DescriptorBytes
         /\ step \notin {8, 12, 14, 15} => Now.word = 0
         /\ Now.size = IF step \in {12, 14} THEN "512"
                       ELSE IF Now.op = "ReadReg" THEN "4" ELSE "none"
  BY DEF Now, Script, ExecHi, ResultOk, Rdreg, Wrreg, SendDescriptor, FetchCompletion

LEMMA Asked ==
  ASSUME step \in 1 .. 19
  PROVE  /\ Now.asks = "ok" <=> step \in {2, 5, 10, 17, 19}
         /\ Now.asks = "blocks" <=> step = 6
         /\ Now.asks = "handle" <=> step = 11
         /\ Now.asks = "depth" <=> step = 13
         /\ Now.asks = "completion" <=> step = 14
         /\ Now.asks = "nothing" <=> step \in {1, 3, 4, 7, 8, 9, 12, 15, 16, 18}
  BY DEF Now, Script, ExecHi, ResultOk, Rdreg, Wrreg, SendDescriptor, FetchCompletion
(* A transaction is the same as long as the guest is in it.                *)
LEMMA NowKept ==
  ASSUME UNCHANGED <<want, step, handle>>
  PROVE  Now' = Now
  BY DEF Now, Script, ExecHi, ResultOk, Rdreg, Wrreg, SendDescriptor, FetchCompletion
-----------------------------------------------------------------------------
(***************************************************************************)
(* The invariant.                                                          *)
(***************************************************************************)
NothingHeld == \A h \in Handles : ~allocs[h].live

(* The guest holds one buffer of the size it asked for.                    *)
Held(h) ==
  /\ h \in Handles
  /\ allocs[h].live /\ allocs[h].size = Rounded(want)
  /\ \A g \in Handles : allocs[g].live => g = h

NoJobs == \A s \in JobSlots : ~jobs[s].live

OneAnswer == Len(completions) = 1 /\ completions[1].status = Ok

(* The core when transactions 1 .. n - 1 are behind it.                    *)
Reached(n) ==
  /\ n \in {2, 5, 17, 19} => stage["Result"] = Ok
  /\ n \in 5 .. 6 => stage["Out0"] = Capabilities
  /\ n = 9 => stage["Arg0"] = want
  /\ n <= 9 => NothingHeld
  /\ n = 10 => \/ stage["Result"] = Ok /\ Fits /\ Held(stage["Out0"])
               \/ stage["Result"] # Ok /\ ~Fits
  /\ n = 11 => Held(stage["Out0"])
  /\ n > 10 => Fits
  /\ n \in 12 .. 16 => Held(handle)
  /\ n \in 13 .. 14 => OneAnswer
  /\ n \notin 13 .. 14 => completions = << >>
  /\ n <= 12 => NoJobs
  /\ n = 16 => stage["Arg0"] = handle
  /\ n > 16 => NothingHeld
  /\ n = 19 => completed

(* The block as the core received it.                                      *)
BlockSent ==
  [selector |-> 0, len |-> DescriptorBytes + InlineBytes, supplied |-> BlockBytes,
   images |-> <<GuestDescriptor>>]

Working ==
  /\ step = 12 /\ at = "idle"
  /\ Fits /\ Held(handle)
  /\ block = BlockSent
  /\ phase = "parse" => /\ completions = << >> /\ NoJobs
                        /\ (batch = << >> /\ cursor = 0) \/ batch = <<GuestDescriptor>>
  /\ phase = "run" => /\ batch = <<GuestDescriptor>> /\ ~dropped
                      /\ done = 0 => completions = << >> /\ NoJobs
                      /\ done # 0 => OneAnswer

ReadsNow == Now.op \in {"ReadReg", "ReadBlock"}

(* A transaction counts from the step that makes the device act; the core  *)
(* takes no notice of a read of a register.                                *)
Progress ==
  IF \/ at \in {"idle", "check"} /\ Now.op # "ReadReg"
     \/ at \in {"ready", "data"} /\ Now.op = "ReadBlock"
  THEN step + 1 ELSE step

RightAnswer(a) ==
  /\ Now.op = "ReadReg" => a = Number(ReadReg(Now.index))
  /\ Now.op = "ReadBlock" => a[1] = "gkc" /\ a[2].status = Ok

Closed == direction = "none" /\ ~romcnt.activate /\ ~romcnt.ready

BusWords == {buffer[k] : k \in 1 .. BlockWords}

(* An open transfer: page and guest agree on how much of it is left.       *)
Open ==
  /\ direction = IF ReadsNow THEN "read" ELSE "write"
  /\ romcnt.activate /\ romcnt.ready
  /\ wordCount = IF Now.op = "ReadReg" THEN 1 ELSE BlockWords
  /\ wordIndex \in 0 .. (wordCount - 1)
  /\ left = wordCount - wordIndex
  /\ ReadsNow => /\ RightAnswer(buffer[1])
                 /\ rx \in Seq(BusWords) /\ Len(rx) = wordIndex
                 /\ wordIndex > 0 => rx[1] = buffer[1]
  /\ ~ReadsNow => /\ Now.op = "WriteBlock" /\ commandWord = Now.word
                  /\ \A k \in 1 .. wordIndex : buffer[k] = TxWord(k)

CardInv ==
  /\ at \in {"head", "word", "start", "ready", "data", "idle", "check", "finished"}
  /\ at \in {"word", "start"} => head = [op |-> Now.op, index |-> Now.index]
  /\ at = "start" => word = Now.word
  /\ IF at \in {"ready", "data"} THEN Open ELSE Closed
  /\ at \in {"idle", "check"} => RightAnswer(rx[1])
  /\ buffer = [k \in 1 .. BlockWords |-> buffer[k]]
  /\ call.turn \in {0, 1}
  /\ fault = "none"

GuestInv ==
  /\ step \in 1 .. 19 /\ want \in AllocSizes /\ handle \in Nat
  /\ phase # "idle" => Working
  /\ phase = "idle" /\ at # "finished" => Reached(Progress)
  /\ at # "finished" => summary = "none"
  /\ at = "finished" => phase = "idle" /\ SessionIsClean

SessionInv == IInv /\ CardInv /\ GuestInv
-----------------------------------------------------------------------------
(***************************************************************************)
(* Steps of the guest that do not reach the core.                          *)
(***************************************************************************)
LEMMA ReachedKept ==
  ASSUME UNCHANGED <<vars, want, handle>>, Progress' = Progress, Reached(Progress)
  PROVE  Reached(Progress)'
  BY DEF Reached, Fits, Held, NothingHeld, NoJobs, OneAnswer, vars, core

LEMMA StageHeadStep ==
  ASSUME SessionInv, StageHead
  PROVE  CardInv' /\ GuestInv' /\ UNCHANGED vars
  <1>1. /\ at = "head" /\ phase = "idle" /\ at' = "word"
        /\ head' = [op |-> Now.op, index |-> Now.index]
        /\ UNCHANGED <<direction, romcnt, buffer, call, fault>>
        /\ UNCHANGED vars /\ UNCHANGED <<want, step, left, rx, handle, summary>>
    BY DEF StageHead, GuestAt, Card!WriteCmd0, Card!phaseVars, Card!counters
  <1>2. Now' = Now
    BY <1>1, NowKept
  <1>3. CardInv'
    BY <1>1, <1>2, Zenon DEF SessionInv, CardInv, Closed
  <1>4. Progress' = Progress
    BY <1>1, Zenon DEF Progress
  <1>5. Reached(Progress)' /\ phase' = "idle"
    BY <1>1, <1>4, ReachedKept DEF SessionInv, GuestInv, vars, blockVars
  <1> QED
    BY <1>1, <1>3, <1>5 DEF SessionInv, GuestInv

LEMMA StageWordStep ==
  ASSUME SessionInv, StageWord
  PROVE  CardInv' /\ GuestInv' /\ UNCHANGED vars
  <1>1. /\ at = "word" /\ phase = "idle" /\ at' = "start" /\ word' = Now.word
        /\ UNCHANGED <<head, direction, romcnt, buffer, call, fault>>
        /\ UNCHANGED vars /\ UNCHANGED <<want, step, left, rx, handle, summary>>
    BY DEF StageWord, GuestAt, Card!WriteCmd1, Card!phaseVars, Card!counters
  <1>2. Now' = Now
    BY <1>1, NowKept
  <1>3. CardInv'
    BY <1>1, <1>2, Zenon DEF SessionInv, CardInv, Closed
  <1>4. Progress' = Progress
    BY <1>1, Zenon DEF Progress
  <1>5. Reached(Progress)' /\ phase' = "idle"
    BY <1>1, <1>4, ReachedKept DEF SessionInv, GuestInv, vars, blockVars
  <1> QED
    BY <1>1, <1>3, <1>5 DEF SessionInv, GuestInv

LEMMA WaitReadyStep ==
  ASSUME SessionInv, WaitReady
  PROVE  CardInv' /\ GuestInv' /\ UNCHANGED vars
  <1>1. /\ at = "ready" /\ phase = "idle" /\ at' = "data"
        /\ UNCHANGED vars /\ UNCHANGED cardVars
        /\ UNCHANGED <<want, step, left, rx, handle, summary>>
    BY DEF WaitReady, GuestAt, SessionInv, CardInv, Open
  <1>2. Now' = Now
    BY <1>1, NowKept
  <1>3. Open' <=> Open
    <2>1. BusWords' = BusWords /\ ReadsNow' = ReadsNow
      BY <1>1, <1>2 DEF BusWords, cardVars, ReadsNow
    <2>2. RightAnswer(buffer[1])' <=> RightAnswer(buffer[1])
      BY <1>1, <1>2 DEF RightAnswer, ReadReg, cardVars, vars, core
    <2> QED
      BY <1>1, <1>2, <2>1, <2>2 DEF Open, cardVars
  <1>4. CardInv'
    BY <1>1, <1>2, <1>3 DEF SessionInv, CardInv, cardVars
  <1>5. Progress' = Progress
    BY <1>1, <1>2 DEF Progress
  <1>6. Reached(Progress)' /\ phase' = "idle"
    BY <1>1, <1>5, ReachedKept DEF SessionInv, GuestInv, vars, blockVars
  <1> QED
    BY <1>1, <1>4, <1>6 DEF SessionInv, GuestInv

LEMMA WaitIdleStep ==
  ASSUME SessionInv, WaitIdle
  PROVE  CardInv' /\ GuestInv' /\ UNCHANGED vars
  <1>1. /\ at = "idle" /\ phase = "idle" /\ at' = "check"
        /\ UNCHANGED vars /\ UNCHANGED cardVars
        /\ UNCHANGED <<want, step, left, rx, handle, summary>>
    BY DEF WaitIdle, GuestAt, SessionInv, CardInv, Closed
  <1>2. Now' = Now
    BY <1>1, NowKept
  <1>3. RightAnswer(rx[1])' <=> RightAnswer(rx[1])
    BY <1>1, <1>2 DEF RightAnswer, ReadReg, vars, core
  <1>4. CardInv'
    BY <1>1, <1>2, <1>3 DEF SessionInv, CardInv, Closed, cardVars
  <1>5. Progress' = Progress
    BY <1>1, <1>2 DEF Progress
  <1>6. Reached(Progress)' /\ phase' = "idle"
    BY <1>1, <1>5, ReachedKept DEF SessionInv, GuestInv, vars, blockVars
  <1> QED
    BY <1>1, <1>4, <1>6 DEF SessionInv, GuestInv

-----------------------------------------------------------------------------
(***************************************************************************)
(* Starting a transaction.                                                 *)
(***************************************************************************)
(* A transaction is started as the page expects it.                        *)
LEMMA StartState ==
  ASSUME SessionInv, GuestAt("start")
  PROVE  /\ head.op = Now.op /\ head.index = Now.index /\ word = Now.word
         /\ step \in 1 .. 19 /\ Reached(step) /\ Progress = step
         /\ Closed /\ summary = "none" /\ phase = "idle" /\ at = "start"
  BY DEF SessionInv, CardInv, GuestInv, GuestAt, Progress

LEMMA Turned ==
  ASSUME call.turn \in {0, 1}, NEW o, NEW i, NEW w, NEW v, call' = Card!Called(o, i, w, v)
  PROVE  call'.turn \in {0, 1} /\ call' # call
  BY DEF Card!Called

LEMMA StartWritingStep ==
  ASSUME SessionInv, StartWriting
  PROVE  CardInv' /\ GuestInv' /\ UNCHANGED vars
  <1>0. /\ head.op = Now.op /\ head.index = Now.index /\ word = Now.word
        /\ step \in 1 .. 19 /\ Reached(step) /\ Progress = step
        /\ Closed /\ summary = "none" /\ phase = "idle" /\ at = "start"
    BY StartState DEF StartWriting
  <1>1. /\ Now.op = "WriteBlock"
        /\ direction' = "write" /\ wordIndex' = 0 /\ wordCount' = BlockWords
        /\ romcnt' = [activate |-> TRUE, ready |-> TRUE, size |-> Now.size]
        /\ commandWord' = Now.word
        /\ UNCHANGED <<buffer, call, fault>>
    BY <1>0, Scripted DEF StartWriting, Card!StartWrite, Card!Matches, Card!Phase, Card!Opened,
      Card!Latch, RomCntOf
  <1>2. /\ at' = "ready" /\ left' = BlockWords
        /\ UNCHANGED vars /\ UNCHANGED <<want, step, rx, handle, summary>>
    BY DEF StartWriting, FirstWait
  <1>3. Now' = Now
    BY <1>2, NowKept
  <1>4. Open'
    BY <1>1, <1>2, <1>3, SessionAssumption DEF Open, ReadsNow
  <1>5. CardInv'
    BY <1>1, <1>2, <1>4 DEF SessionInv, CardInv
  <1>6. Progress' = Progress
    BY <1>0, <1>1, <1>2, <1>3 DEF Progress
  <1>7. Reached(Progress)' /\ phase' = "idle"
    BY <1>0, <1>2, <1>6, ReachedKept DEF vars, blockVars
  <1> QED
    BY <1>0, <1>2, <1>5, <1>7 DEF SessionInv, GuestInv

(* The card's part of a read, whatever the device answers.                 *)
LEMMA ReadOpened ==
  ASSUME SessionInv, GuestAt("start"), NEW a, NEW r, Card!StartRead(r, a),
         Now.op \in {"ReadReg", "ReadBlock"}
  PROVE  /\ r.activate
         /\ direction' = "read" /\ wordIndex' = 0
         /\ wordCount' = IF Now.op = "ReadReg" THEN 1 ELSE BlockWords
         /\ romcnt' = [activate |-> r.activate, ready |-> TRUE, size |-> r.size]
         /\ buffer' = [k \in 1 .. BlockWords |-> buffer'[k]]
         /\ buffer'[1] = a[1]
         /\ call'.turn \in {0, 1} /\ UNCHANGED fault
  <1>0. head.op = Now.op
    BY StartState
  <1>1. /\ Card!Phase(head.op).words = IF Now.op = "ReadReg" THEN 1 ELSE BlockWords
        /\ 1 <= Card!Phase(head.op).words /\ 1 \in 1 .. BlockWords
    BY <1>0, SessionAssumption DEF Card!Phase
  <1>2. /\ r.activate
        /\ direction' = "read" /\ wordIndex' = 0 /\ wordCount' = Card!Phase(head.op).words
        /\ romcnt' = [activate |-> r.activate, ready |-> TRUE, size |-> r.size]
        /\ buffer' = [k \in 1 .. BlockWords |->
                        IF k <= Card!Phase(head.op).words THEN a[k] ELSE 0]
        /\ call' = Card!Called(head.op, head.index, word, << >>)
        /\ UNCHANGED fault
    BY Zenon DEF Card!StartRead, Card!Matches, Card!Starts, Card!Opened
  <1>3. call'.turn \in {0, 1}
    BY <1>2, Turned DEF SessionInv, CardInv
  <1>4. buffer'[1] = a[1]
    BY <1>1, <1>2
  <1>5. buffer' = [k \in 1 .. BlockWords |-> buffer'[k]]
    BY <1>2
  <1> QED
    BY <1>1, <1>2, <1>3, <1>4, <1>5

LEMMA StartReadRegStep ==
  ASSUME SessionInv, StartReading, head.op = "ReadReg"
  PROVE  CardInv' /\ GuestInv' /\ UNCHANGED vars
  <1>0. /\ head.op = Now.op /\ head.index = Now.index /\ word = Now.word
        /\ step \in 1 .. 19 /\ Reached(step) /\ Progress = step
        /\ Closed /\ summary = "none" /\ phase = "idle" /\ at = "start"
    BY StartState DEF StartReading
  <1> DEFINE a == [k \in 1 .. 1 |-> Number(ReadReg(head.index))]
  <1>1. /\ Card!StartRead(RomCntOf(Now), a)
        /\ left' = 1 /\ UNCHANGED vars
    BY DEF StartReading
  <1>2. at' = "ready" /\ rx' = << >> /\ UNCHANGED <<want, step, handle, summary>>
    BY DEF StartReading, FirstWait
  <1>3. a[1] = Number(ReadReg(Now.index))
    BY <1>0
  <1> HIDE DEF a
  <1>4. /\ direction' = "read" /\ wordIndex' = 0 /\ wordCount' = 1
        /\ romcnt'.activate /\ romcnt'.ready
        /\ buffer' = [k \in 1 .. BlockWords |-> buffer'[k]]
        /\ buffer'[1] = Number(ReadReg(Now.index))
        /\ call'.turn \in {0, 1} /\ UNCHANGED fault
    BY <1>0, <1>1, <1>3, ReadOpened DEF StartReading
  <1>5. Now' = Now
    BY <1>2, NowKept
  <1>6. RightAnswer(buffer[1])'
    BY <1>0, <1>1, <1>4, <1>5 DEF RightAnswer, ReadReg, vars, core
  <1>7. << >> \in Seq(BusWords') /\ Len(<< >>) = 0
    BY EmptySeq
  <1>8. Open'
    BY <1>0, <1>1, <1>2, <1>4, <1>5, <1>6, <1>7 DEF Open, ReadsNow
  <1>9. CardInv'
    BY <1>2, <1>4, <1>8 DEF SessionInv, CardInv
  <1>10. Progress' = Progress
    BY <1>0, <1>2, <1>5 DEF Progress
  <1>11. Reached(Progress)' /\ phase' = "idle"
    BY <1>0, <1>1, <1>2, <1>10, ReachedKept DEF vars, blockVars
  <1> QED
    BY <1>0, <1>1, <1>2, <1>9, <1>11 DEF SessionInv, GuestInv

(* The only ReadBlock asks for one record, and one is there.               *)
LEMMA StartReadBlockStep ==
  ASSUME SessionInv, StartReading, head.op = "ReadBlock"
  PROVE  CardInv' /\ GuestInv' /\ [AnyNext]_vars
  <1>0. /\ head.op = Now.op /\ head.index = Now.index /\ word = Now.word
        /\ step \in 1 .. 19 /\ Reached(step) /\ Progress = step
        /\ Closed /\ summary = "none" /\ phase = "idle" /\ at = "start"
    BY StartState DEF StartReading
  <1>1. step = 14 /\ word = DescriptorBytes
    BY <1>0, Scripted, Worded
  <1>2. /\ Card!StartRead(RomCntOf(Now), RecordsRead(word))
        /\ ReadBlock(ReadRequestOf(word))
        /\ left' = BlockWords
    BY DEF StartReading
  <1>3. at' = "ready" /\ rx' = << >> /\ UNCHANGED <<want, step, handle, summary>>
    BY DEF StartReading, FirstWait
  <1>4. OneAnswer /\ Fits /\ Held(handle)
    BY <1>0, <1>1 DEF Reached
  <1>5. RecordsRead(word)[1] = RecordWord(completions[1])
    BY <1>1, <1>4, SessionAssumption, DeviceAssumption DEF RecordsRead, OneAnswer
  <1>6. /\ direction' = "read" /\ wordIndex' = 0 /\ wordCount' = BlockWords
        /\ romcnt'.activate /\ romcnt'.ready
        /\ buffer' = [k \in 1 .. BlockWords |-> buffer'[k]]
        /\ buffer'[1] = RecordWord(completions[1])
        /\ call'.turn \in {0, 1} /\ UNCHANGED fault
    BY <1>0, <1>2, <1>5, ReadOpened DEF StartReading
  <1>7. Now' = Now
    BY <1>3, NowKept
  <1>8. RightAnswer(buffer[1])'
    BY <1>0, <1>4, <1>6, <1>7 DEF RightAnswer, RecordWord, OneAnswer
  <1>9. << >> \in Seq(BusWords') /\ Len(<< >>) = 0
    BY EmptySeq
  <1>10. Open'
    BY <1>0, <1>2, <1>3, <1>6, <1>7, <1>8, <1>9, SessionAssumption DEF Open, ReadsNow
  <1>11. CardInv'
    BY <1>3, <1>6, <1>10 DEF SessionInv, CardInv
  <1>12. ReadRequestOf(word) \in ReadRequest
    BY <1>1, SessionAssumption DEF ReadRequestOf, ReadRequest
  <1>13. [AnyNext]_vars
    BY <1>2, <1>12 DEF AnyNext
  <1>14. /\ completions' = SubSeq(completions, 2, Len(completions))
         /\ UNCHANGED <<allocs, jobs, phase, completed>>
    BY <1>1, <1>2, <1>4, SessionAssumption
    DEF ReadBlock, ReadRequestOf, OneAnswer, blockVars
  <1>15. completions' = << >>
    BY <1>4, <1>14 DEF OneAnswer, SessionInv, IInv, TypeOK, QueueOK
  <1>16. Progress' = 15
    BY <1>0, <1>1, <1>3, <1>7 DEF Progress
  <1>17. Reached(Progress)'
    BY <1>3, <1>4, <1>14, <1>15, <1>16 DEF Reached, Fits, Held
  <1> QED
    BY <1>0, <1>3, <1>11, <1>13, <1>14, <1>17 DEF SessionInv, GuestInv

-----------------------------------------------------------------------------
(***************************************************************************)
(* The data phase: the last word of the page is the last of the guest.     *)
(***************************************************************************)
LEMMA DataState ==
  ASSUME SessionInv, GuestAt("data")
  PROVE  /\ Open /\ step \in 1 .. 19 /\ Reached(Progress) /\ at = "data"
         /\ summary = "none" /\ phase = "idle"
         /\ wordCount \in 1 .. BlockWords /\ wordIndex \in 0 .. (wordCount - 1)
         /\ wordIndex + 1 \in 1 .. BlockWords
         /\ left = 1 <=> wordIndex + 1 >= wordCount
  <1>1. Open /\ step \in 1 .. 19 /\ Reached(Progress) /\ at = "data"
        /\ summary = "none" /\ phase = "idle"
    BY DEF SessionInv, CardInv, GuestInv, GuestAt
  <1> QED
    BY <1>1, SessionAssumption DEF Open

LEMMA LoadWordStep ==
  ASSUME SessionInv, LoadWord
  PROVE  CardInv' /\ GuestInv' /\ UNCHANGED vars
  <1>0. /\ Open /\ step \in 1 .. 19 /\ Reached(Progress) /\ at = "data"
        /\ summary = "none" /\ phase = "idle"
        /\ wordCount \in 1 .. BlockWords /\ wordIndex \in 0 .. (wordCount - 1)
        /\ wordIndex + 1 \in 1 .. BlockWords
        /\ left = 1 <=> wordIndex + 1 >= wordCount
    BY DataState DEF LoadWord
  <1>1. ReadsNow /\ direction = "read"
    BY <1>0 DEF LoadWord, ReadsNow, Open
  <1>2. /\ rx' = Append(rx, buffer[wordIndex + 1]) /\ left' = left - 1
        /\ wordIndex' = wordIndex + 1
        /\ UNCHANGED <<wordCount, buffer, call, fault>>
        /\ IF wordIndex + 1 >= wordCount
           THEN direction' = "none" /\ romcnt' = Card!Idle(romcnt)
           ELSE UNCHANGED <<direction, romcnt>>
    BY <1>1 DEF LoadWord, Card!ReadFifo, Card!Advance, Card!counters
  <1>3. /\ at' = AfterWord /\ UNCHANGED vars /\ UNCHANGED <<want, step, handle, summary>>
    BY DEF LoadWord
  <1>4. Now' = Now
    BY <1>3, NowKept
  <1>5. /\ BusWords' = BusWords /\ ReadsNow' = ReadsNow
        /\ RightAnswer(buffer[1])' <=> RightAnswer(buffer[1])
    BY <1>2, <1>3, <1>4 DEF BusWords, ReadsNow, RightAnswer, ReadReg, vars, core
  <1>6. /\ rx \in Seq(BusWords) /\ Len(rx) = wordIndex /\ RightAnswer(buffer[1])
        /\ wordIndex > 0 => rx[1] = buffer[1]
    BY <1>0, <1>1 DEF Open
  <1>7. buffer[wordIndex + 1] \in BusWords
    BY <1>0 DEF BusWords
  <1>8. /\ rx' \in Seq(BusWords) /\ Len(rx') = wordIndex + 1
        /\ rx'[wordIndex + 1] = buffer[wordIndex + 1]
        /\ \A k \in 1 .. wordIndex : rx'[k] = rx[k]
    BY <1>2, <1>6, <1>7, AppendProperties
  <1>9. rx'[1] = buffer[1]
    <2>1. CASE wordIndex = 0
      BY <1>8, <2>1
    <2>2. CASE wordIndex # 0
      BY <1>0, <1>6, <1>8, <2>2
    <2> QED
      BY <2>1, <2>2
  <1>10. ASSUME left = 1 PROVE CardInv'
    <2>1. at' = "idle" /\ Closed'
      BY <1>0, <1>2, <1>3, <1>10 DEF AfterWord, Closed, Card!Idle
    <2>2. RightAnswer(rx[1])'
      BY <1>3, <1>4, <1>6, <1>9 DEF RightAnswer, ReadReg, vars, core
    <2>3. UNCHANGED <<buffer, call, fault>>
      BY <1>2
    <2> QED
      BY <2>1, <2>2, <2>3 DEF SessionInv, CardInv
  <1>11. ASSUME left # 1 PROVE CardInv'
    <2>1. at' = "ready" /\ ~(wordIndex + 1 >= wordCount)
      BY <1>0, <1>3, <1>11 DEF AfterWord
    <2>2. UNCHANGED <<direction, romcnt>>
      BY <1>2, <2>1
    <2>3. wordIndex' \in 0 .. (wordCount - 1) /\ left' = wordCount - wordIndex'
      BY <1>0, <1>2, <2>1, SessionAssumption DEF Open
    <2>4. Open'
      BY <1>0, <1>1, <1>2, <1>4, <1>5, <1>6, <1>8, <1>9, <2>2, <2>3 DEF Open
    <2>5. UNCHANGED <<buffer, call, fault>>
      BY <1>2
    <2> QED
      BY <2>1, <2>4, <2>5 DEF SessionInv, CardInv
  <1>12. Progress' = Progress
    <2>1. at' \in {"idle", "ready"}
      BY <1>3 DEF AfterWord
    <2> QED
      BY <1>0, <1>1, <1>3, <1>4, <2>1 DEF Progress, ReadsNow
  <1>13. Reached(Progress)' /\ phase' = "idle"
    BY <1>0, <1>3, <1>12, ReachedKept DEF vars, blockVars
  <1>14. at' # "finished"
    BY <1>3 DEF AfterWord
  <1> QED
    BY <1>0, <1>3, <1>10, <1>11, <1>13, <1>14 DEF SessionInv, GuestInv

(* What the device finds is the guest's descriptor, when every word of the *)
(* block arrived.                                                          *)
LEMMA WholeBlock ==
  ASSUME GuestInv, NEW b, b = [k \in 1 .. BlockWords |-> TxWord(k)]
  PROVE  /\ Received(DescriptorBytes + InlineBytes, b) = BlockSent
         /\ BlockSent \in Block
  <1>1. Len(b) = BlockWords
    BY SessionAssumption
  <1>2. 4 * Len(b) = BlockBytes
    BY <1>1, SessionAssumption
  <1>3. Received(DescriptorBytes + InlineBytes, b) = BlockSent
    BY <1>2, Zenon DEF Received, BlockSent
  <1>4. GuestDescriptor \in Descriptor
    BY SessionAssumption, DeviceAssumption DEF GuestInv, GuestDescriptor, Descriptor
  <1>5. <<GuestDescriptor>> \in Seq(Descriptor)
    BY <1>4
  <1>6. DescriptorBytes + InlineBytes \in Nat /\ BlockBytes \in Nat /\ 0 \in Nat
    BY SessionAssumption
  <1>7. BlockSent \in Block
    BY <1>5, <1>6, Zenon DEF BlockSent, Block
  <1> QED
    BY <1>3, <1>7

LEMMA StoreWordStep ==
  ASSUME SessionInv, StoreWord
  PROVE  CardInv' /\ GuestInv' /\ [AnyNext]_vars
  <1>0. /\ Open /\ step \in 1 .. 19 /\ Reached(Progress) /\ at = "data"
        /\ summary = "none" /\ phase = "idle"
        /\ wordCount \in 1 .. BlockWords /\ wordIndex \in 0 .. (wordCount - 1)
        /\ wordIndex + 1 \in 1 .. BlockWords
        /\ left = 1 <=> wordIndex + 1 >= wordCount
    BY DataState DEF StoreWord
  <1>1. /\ Now.op = "WriteBlock" /\ step = 12 /\ Progress = 12 /\ ~ReadsNow
        /\ Now.word = DescriptorBytes + InlineBytes
    BY <1>0, Scripted, Worded DEF StoreWord, ReadsNow, Progress
  <1>2. /\ direction = "write" /\ wordCount = BlockWords
        /\ left = BlockWords - wordIndex /\ commandWord = Now.word
        /\ \A k \in 1 .. wordIndex : buffer[k] = TxWord(k)
    BY <1>0, <1>1 DEF Open
  <1>3. BlockWords + 1 - left = wordIndex + 1
    BY <1>0, <1>2, SessionAssumption
  <1>4. /\ buffer' = [buffer EXCEPT ![wordIndex + 1] = TxWord(wordIndex + 1)]
        /\ wordIndex' = wordIndex + 1
        /\ UNCHANGED <<wordCount, commandWord, fault>>
        /\ IF wordIndex + 1 >= wordCount
           THEN /\ direction' = "none" /\ romcnt' = Card!Idle(romcnt)
                /\ call' = Card!Called("WriteBlock", index, commandWord, buffer')
           ELSE UNCHANGED <<direction, romcnt, call>>
    BY <1>2, <1>3 DEF StoreWord, Card!WriteFifo, Card!Advance, Card!counters
  <1>5. /\ left' = left - 1 /\ at' = AfterWord
        /\ UNCHANGED <<want, step, rx, handle, summary>>
    BY DEF StoreWord
  <1>6. Now' = Now
    BY <1>5, NowKept
  <1>7. /\ buffer' = [k \in 1 .. BlockWords |-> buffer'[k]]
        /\ \A k \in 1 .. (wordIndex + 1) : buffer'[k] = TxWord(k)
    <2>1. buffer = [k \in 1 .. BlockWords |-> buffer[k]]
      BY DEF SessionInv, CardInv
    <2>2. \A k \in 1 .. (wordIndex + 1) : k = wordIndex + 1 \/ k \in 1 .. wordIndex
      BY <1>0
    <2>3. \A k \in 1 .. (wordIndex + 1) : k \in 1 .. BlockWords
      <3>1. wordIndex + 1 \in 1 .. BlockWords /\ wordIndex \in Nat /\ BlockWords \in Nat
        BY <1>0, SessionAssumption
      <3> QED
        BY <3>1
    <2> HIDE DEF TxWord
    <2> QED
      BY <1>0, <1>2, <1>4, <2>1, <2>2, <2>3
  <1>8. CASE left = 1
    <2>1. /\ at' = "idle" /\ Closed'
          /\ call' = Card!Called("WriteBlock", index, commandWord, buffer')
      BY <1>0, <1>4, <1>5, <1>8 DEF AfterWord, Closed, Card!Idle
    <2>2. call'.turn \in {0, 1} /\ call' # call
      BY <2>1, Turned DEF SessionInv, CardInv
    <2>3. call'.word = Now.word /\ call'.data = buffer'
      BY <1>2, <2>1 DEF Card!Called
    <2>4. wordIndex + 1 = BlockWords
      BY <1>0, <1>2, <1>8
    <2>5. buffer' = [k \in 1 .. BlockWords |-> TxWord(k)]
      BY <1>7, <2>4, Zenon
    <2>6. WriteBlock(Received(Now.word, buffer'))
      BY <2>2, <2>3 DEF StoreWord
    <2>7. Received(Now.word, buffer') = BlockSent /\ BlockSent \in Block
      BY <1>1, <2>5, WholeBlock DEF SessionInv
    <2>8. [AnyNext]_vars /\ WriteBlock(BlockSent)
      BY <2>6, <2>7 DEF AnyNext
    <2>9. /\ BlockSent.selector = 0 /\ BlockSent.len # 0
          /\ BlockSent.len <= BlockBytes /\ BlockSent.len <= BlockSent.supplied
      BY SessionAssumption DEF BlockSent
    <2>10. /\ phase' = "parse" /\ block' = BlockSent
           /\ UNCHANGED <<cursor, batch, completions, jobs, allocs>>
      <3>1. /\ UNCHANGED core
            /\ \/ \/ BlockSent.selector # 0 \/ BlockSent.len = 0
                  \/ BlockSent.len > BlockBytes \/ BlockSent.len > BlockSent.supplied
               \/ phase' = "parse" /\ block' = BlockSent /\ UNCHANGED <<cursor, batch>>
        BY <2>8 DEF WriteBlock
      <3>2. BlockSent.len \in Nat /\ BlockSent.supplied \in Nat /\ BlockBytes \in Nat
        BY SessionAssumption DEF BlockSent
      <3> QED
        BY <2>9, <3>1, <3>2 DEF core
    <2>11. batch = << >> /\ cursor = 0
      BY <1>0 DEF SessionInv, IInv, BlockInv
    <2>12. Fits /\ Held(handle) /\ completions = << >> /\ NoJobs
      BY <1>0, <1>1 DEF Reached
    <2>13. BlockSent' = BlockSent
      BY <1>5 DEF BlockSent, GuestDescriptor
    <2>14. Fits' /\ Held(handle)' /\ NoJobs'
      BY <1>5, <2>10, <2>12 DEF Fits, Held, NoJobs
    <2>15. Working'
      BY <1>1, <1>5, <2>1, <2>10, <2>11, <2>12, <2>13, <2>14 DEF Working
    <2>16. CardInv'
      BY <1>1, <1>4, <1>6, <1>7, <2>1, <2>2 DEF SessionInv, CardInv, RightAnswer
    <2> QED
      BY <1>0, <1>5, <2>1, <2>8, <2>10, <2>15, <2>16 DEF SessionInv, GuestInv
  <1>9. CASE left # 1
    <2>1. at' = "ready" /\ ~(wordIndex + 1 >= wordCount)
      BY <1>0, <1>5, <1>9 DEF AfterWord
    <2>2. UNCHANGED <<direction, romcnt, call>>
      BY <1>4, <2>1
    <2>3. UNCHANGED vars
      BY <2>2 DEF StoreWord
    <2>4. wordIndex' \in 0 .. (wordCount - 1) /\ left' = wordCount - wordIndex'
      BY <1>0, <1>2, <1>4, <1>5, <2>1, SessionAssumption
    <2>5. Open'
      BY <1>0, <1>1, <1>2, <1>4, <1>6, <1>7, <2>2, <2>4 DEF Open, ReadsNow
    <2>6. CardInv'
      BY <1>4, <1>7, <2>1, <2>2, <2>5 DEF SessionInv, CardInv
    <2>7. Progress' = Progress
      BY <1>0, <1>1, <1>5, <1>6, <2>1 DEF Progress
    <2>8. Reached(Progress)' /\ phase' = "idle"
      BY <1>0, <1>5, <2>3, <2>7, ReachedKept DEF vars, blockVars
    <2> QED
      BY <1>0, <1>5, <2>1, <2>3, <2>6, <2>8 DEF SessionInv, GuestInv
  <1> QED
    BY <1>8, <1>9

-----------------------------------------------------------------------------
(***************************************************************************)
(* What the commands of the session do to the core.                        *)
(***************************************************************************)
LEMMA Answered ==
  ASSUME RegsOK, NEW r, NEW o, NEW sum, Answer(r, o, sum)
  PROVE  stage'["Result"] = r /\ stage'["Out0"] = o /\ stage'["Arg0"] = stage["Arg0"]
  BY DEF RegsOK, Answer, StageRegs

LEMMA FailEffect ==
  ASSUME RegsOK, NEW r, Fail(r)
  PROVE  stage'["Result"] = r /\ UNCHANGED core /\ UNCHANGED completed /\ UNCHANGED blockVars
  BY Answered DEF Fail

(* ALLOC grants the first buffer exactly when it fits in the pool.         *)
LEMMA FirstAlloc ==
  ASSUME IInv, GuestInv, NothingHeld, ExecAlloc, stage["Arg0"] = want
  PROVE  /\ UNCHANGED <<jobs, completions, phase>>
         /\ \/ stage'["Result"] = Ok /\ Fits /\ stage'["Out0"] \in Handles
               /\ allocs'[stage'["Out0"]].live
               /\ allocs'[stage'["Out0"]].size = Rounded(want)
               /\ \A g \in Handles : allocs'[g].live => g = stage'["Out0"]
            \/ stage'["Result"] # Ok /\ ~Fits
  <1>0. /\ RegsOK /\ allocs \in [Handles -> Allocation] /\ want \in Nat
        /\ PoolBytes \in Nat /\ Rounded(want) \in Nat
    BY SessionAssumption, PoolAssumption
    DEF IInv, TypeOK, MemoryOK, GuestInv, Word, Rounded
  <1>1. CASE ~Grantable(allocs, want) /\ Fail(NoMemory)
    <2>1. /\ stage'["Result"] = NoMemory
          /\ UNCHANGED <<jobs, completions, phase>>
      BY <1>0, <1>1, FailEffect DEF core, blockVars
    <2>2. ASSUME Fits PROVE Grantable(allocs, want)
      <3>1. 1 \in Handles /\ 0 \in 0 .. PoolBytes
        BY PoolAssumption DEF Handles
      <3>2. FitsAt(allocs, 0, Rounded(want))
        BY <1>0, <2>2 DEF Fits, FitsAt, Overlaps, NothingHeld
      <3> QED
        BY <2>2, <3>1, <3>2 DEF Grantable, Fits, NothingHeld
    <2> QED
      BY <1>1, <2>1, <2>2 DEF NoMemory, Ok
  <1>2. CASE /\ want # 0
             /\ \E h \in Handles, c \in 0 .. PoolBytes :
                  /\ IsFirstFreeSlot(allocs, h)
                  /\ IsFirstFit(allocs, c, Rounded(want))
                  /\ allocs' = Place(allocs, h, c, want)
                  /\ Answer(Ok, h, << >>)
             /\ UNCHANGED <<payload, pool, jobs, nextJob, completions, completed, blockVars>>
    <2>1. PICK h \in Handles, c \in 0 .. PoolBytes :
            /\ IsFirstFit(allocs, c, Rounded(want))
            /\ allocs' = Place(allocs, h, c, want)
            /\ Answer(Ok, h, << >>)
      BY <1>2
    <2>2. stage'["Result"] = Ok /\ stage'["Out0"] = h
      BY <1>0, <2>1, Answered
    <2>3. Fits
      BY <1>0, <1>2, <2>1 DEF IsFirstFit, FitsAt, Fits
    <2>4. /\ allocs'[h].live /\ allocs'[h].size = Rounded(want)
          /\ \A g \in Handles : allocs'[g].live => g = h
      BY <1>0, <2>1 DEF Place, NothingHeld
    <2> QED
      BY <1>2, <2>2, <2>3, <2>4 DEF blockVars
  <1> QED
    BY <1>1, <1>2 DEF ExecAlloc

(* FREE of the one buffer that is held leaves none.                        *)
LEMMA LastFree ==
  ASSUME IInv, Held(handle), ExecFree, stage["Arg0"] = handle
  PROVE  /\ stage'["Result"] = Ok /\ NothingHeld'
         /\ UNCHANGED <<completions, phase>>
  <1>0. RegsOK /\ allocs \in [Handles -> Allocation] /\ Resolves(allocs, handle)
    BY DEF IInv, TypeOK, MemoryOK, Resolves, Held
  <1>1. /\ allocs' = Release(allocs, handle) /\ Answer(Ok, 0, << >>)
        /\ UNCHANGED <<completions, phase>>
    BY <1>0 DEF ExecFree, blockVars
  <1>2. stage'["Result"] = Ok
    BY <1>0, <1>1, Answered
  <1>3. NothingHeld'
    BY <1>0, <1>1 DEF Release, Freed, NothingHeld, Held
  <1> QED
    BY <1>1, <1>2, <1>3

LEMMA StartPlainStep ==
  ASSUME SessionInv, StartPlain
  PROVE  CardInv' /\ GuestInv' /\ [AnyNext]_vars
  <1>0. /\ head.op = Now.op /\ head.index = Now.index /\ word = Now.word
        /\ step \in 1 .. 19 /\ Reached(step) /\ Progress = step
        /\ Closed /\ summary = "none" /\ phase = "idle" /\ at = "start"
    BY StartState DEF StartPlain
  <1>1. /\ direction' = "none" /\ romcnt' = Card!Idle(RomCntOf(Now))
        /\ call' = Card!Called(head.op, head.index, word, << >>)
        /\ UNCHANGED <<buffer, fault>>
    BY DEF StartPlain, Card!StartSimple
  <1>2. at' = "idle" /\ UNCHANGED <<want, step, left, rx, handle, summary>>
    BY DEF StartPlain
  <1>3. Now' = Now
    BY <1>2, NowKept
  <1>4. \/ Now.op = "WriteReg" /\ WriteReg("Arg0", word)
        \/ Now.op = "Exec" /\ Exec(Now.index)
    BY <1>0, Zenon DEF StartPlain
  <1>5. CardInv'
    <2>1. call'.turn \in {0, 1}
      BY <1>1, Turned DEF SessionInv, CardInv
    <2>2. Closed'
      BY <1>1 DEF Closed, Card!Idle
    <2>3. RightAnswer(rx[1])'
      BY <1>3, <1>4 DEF RightAnswer
    <2> QED
      BY <1>1, <1>2, <2>1, <2>2, <2>3 DEF SessionInv, CardInv
  <1>6. Progress' = step + 1
    BY <1>2, <1>3, <1>4 DEF Progress
  <1>7. /\ RegsOK /\ want \in Nat /\ handle \in Nat /\ "Arg0" \in StageRegs
        /\ stage \in [StageRegs -> Nat]
    BY SessionAssumption, PoolAssumption
    DEF SessionInv, IInv, TypeOK, RegsOK, GuestInv, Word, StageRegs
  <1>8. Fits' = Fits
    BY <1>2 DEF Fits
  <1>9. SUFFICES Reached(Progress)' /\ phase' = "idle" /\ [AnyNext]_vars
    BY <1>0, <1>2, <1>5 DEF SessionInv, GuestInv
  <1>10. CASE Now.op = "WriteReg" /\ WriteReg("Arg0", word)
    <2>1. step \in {8, 15} /\ word = (IF step = 8 THEN want ELSE handle)
      BY <1>0, <1>10, Scripted, Worded
    <2>2. /\ stage'["Arg0"] = word
          /\ UNCHANGED core /\ UNCHANGED completed /\ UNCHANGED blockVars
      BY <1>7, <1>10 DEF WriteReg
    <2>3. [AnyNext]_vars
      BY <1>7, <1>10, <2>1 DEF AnyNext
    <2>4. UNCHANGED <<allocs, jobs, completions, phase>>
      BY <2>2 DEF core, blockVars
    <2>5. CASE step = 8
      BY <1>0, <1>2, <1>6, <2>1, <2>2, <2>3, <2>4, <2>5 DEF Reached, NothingHeld, NoJobs
    <2>6. CASE step = 15
      BY <1>0, <1>2, <1>6, <1>8, <2>1, <2>2, <2>3, <2>4, <2>6 DEF Reached, Held
    <2> QED
      BY <1>0, <2>1, <2>3, <2>4, <2>5, <2>6
  <1>11. CASE Now.op = "Exec" /\ Exec(Now.index)
    <2>1. step \in {1, 4, 9, 16, 18} /\ Now.index \in Nat
      BY <1>0, <1>11, Scripted, Indexed
    <2>2. [AnyNext]_vars
      BY <1>11, <2>1 DEF AnyNext
    <2>3. CASE step = 1
      <3>1. ExecHello
        BY <1>0, <1>11, <2>3, Indexed DEF Exec, Hello, GetCaps, Alloc, Upload, Submit,
          Poll, Collect, Free, Complete
      <3>2. stage'["Result"] = Ok /\ UNCHANGED <<allocs, jobs, completions, phase>>
        BY <1>7, <3>1, Answered DEF ExecHello, core, blockVars
      <3> QED
        BY <1>0, <1>2, <1>6, <2>2, <2>3, <3>2 DEF Reached, NothingHeld, NoJobs
    <2>4. CASE step = 4
      <3>1. ExecGetCaps
        BY <1>0, <1>11, <2>4, Indexed DEF Exec, Hello, GetCaps, Alloc, Upload, Submit,
          Poll, Collect, Free, Complete
      <3>2. /\ stage'["Result"] = Ok /\ stage'["Out0"] = Capabilities
            /\ UNCHANGED <<allocs, jobs, completions, phase>>
        BY <1>7, <3>1, Answered DEF ExecGetCaps, core, blockVars
      <3> QED
        BY <1>0, <1>2, <1>6, <2>2, <2>4, <3>2 DEF Reached, NothingHeld, NoJobs
    <2>5. CASE step = 9
      <3>1. ExecAlloc
        BY <1>0, <1>11, <2>5, Indexed DEF Exec, Hello, GetCaps, Alloc, Upload, Submit,
          Poll, Collect, Free, Complete
      <3>2. NothingHeld /\ stage["Arg0"] = want /\ completions = << >> /\ NoJobs
        BY <1>0, <2>5 DEF Reached
      <3>3. /\ UNCHANGED <<jobs, completions, phase>>
            /\ \/ stage'["Result"] = Ok /\ Fits /\ Held(stage["Out0"])'
               \/ stage'["Result"] # Ok /\ ~Fits
        BY <1>2, <3>1, <3>2, FirstAlloc DEF SessionInv, Held
      <3> QED
        BY <1>0, <1>6, <1>8, <2>2, <2>5, <3>2, <3>3 DEF Reached, NoJobs
    <2>6. CASE step = 16
      <3>1. ExecFree
        BY <1>0, <1>11, <2>6, Indexed DEF Exec, Hello, GetCaps, Alloc, Upload, Submit,
          Poll, Collect, Free, Complete
      <3>2. Fits /\ Held(handle) /\ stage["Arg0"] = handle /\ completions = << >>
        BY <1>0, <2>6 DEF Reached
      <3>3. stage'["Result"] = Ok /\ NothingHeld' /\ UNCHANGED <<completions, phase>>
        BY <3>1, <3>2, LastFree DEF SessionInv
      <3> QED
        BY <1>0, <1>6, <1>8, <2>2, <2>6, <3>2, <3>3 DEF Reached
    <2>7. CASE step = 18
      <3>1. ExecComplete
        BY <1>0, <1>11, <2>7, Indexed DEF Exec, Hello, GetCaps, Alloc, Upload, Submit,
          Poll, Collect, Free, Complete
      <3>2. /\ stage'["Result"] = Ok /\ completed'
            /\ UNCHANGED <<allocs, completions, phase>>
        BY <1>7, <3>1, Answered DEF ExecComplete, core, blockVars
      <3> QED
        BY <1>0, <1>6, <1>8, <2>2, <2>7, <3>2 DEF Reached, NothingHeld
    <2> QED
      BY <2>1, <2>3, <2>4, <2>5, <2>6, <2>7
  <1> QED
    BY <1>4, <1>10, <1>11

-----------------------------------------------------------------------------
(***************************************************************************)
(* The guest's own decisions.                                              *)
(***************************************************************************)
LEMMA CheckState ==
  ASSUME SessionInv, GuestAt("check")
  PROVE  /\ step \in 1 .. 19 /\ at = "check" /\ phase = "idle" /\ summary = "none"
         /\ Reached(Progress) /\ Closed /\ fault = "none"
         /\ Progress = IF Now.op = "ReadReg" THEN step ELSE step + 1
         /\ step \in {2, 5, 10, 17, 19} => rx[1] = Number(stage["Result"])
         /\ step \in {3, 6, 11} => rx[1] = Number(stage["Out0"])
         /\ step = 13 => rx[1] = Number(Len(completions))
         /\ step = 14 => rx[1][1] = "gkc" /\ rx[1][2].status = Ok
  <1>1. /\ step \in 1 .. 19 /\ at = "check" /\ phase = "idle" /\ summary = "none"
        /\ Reached(Progress) /\ Closed /\ RightAnswer(rx[1]) /\ fault = "none"
    BY DEF SessionInv, CardInv, GuestInv, GuestAt
  <1>2. Progress = IF Now.op = "ReadReg" THEN step ELSE step + 1
    BY <1>1 DEF Progress
  <1>3. /\ step \in {2, 5, 10, 17, 19} => rx[1] = Number(stage["Result"])
        /\ step \in {3, 6, 11} => rx[1] = Number(stage["Out0"])
        /\ step = 13 => rx[1] = Number(Len(completions))
    <2>1. step \in {2, 3, 5, 6, 10, 11, 13, 17, 19} => rx[1] = Number(ReadReg(Now.index))
      BY <1>1, Scripted DEF RightAnswer
    <2>2. /\ ReadReg(RegResult) = stage["Result"] /\ ReadReg(RegOut0) = stage["Out0"]
          /\ ReadReg(EventDepth) = Len(completions)
      BY DEF ReadReg, RegResult, RegOut0, EventDepth, RegArg0
    <2> HIDE DEF RegResult, RegOut0, EventDepth
    <2> QED
      BY <1>1, <2>1, <2>2, Indexed
  <1>4. step = 14 => rx[1][1] = "gkc" /\ rx[1][2].status = Ok
    BY <1>1, Scripted DEF RightAnswer
  <1> QED
    BY <1>1, <1>2, <1>3, <1>4

(* Every answer but the one to ALLOC is the one the guest asks for.        *)
LEMMA AlwaysSatisfied ==
  ASSUME SessionInv, GuestAt("check"), ~Satisfied(Now.asks)
  PROVE  step = 10 /\ stage["Result"] # Ok
  <1>0. /\ step \in 1 .. 19 /\ Reached(Progress)
        /\ Progress = IF Now.op = "ReadReg" THEN step ELSE step + 1
        /\ step \in {2, 5, 10, 17, 19} => rx[1] = Number(stage["Result"])
        /\ step \in {3, 6, 11} => rx[1] = Number(stage["Out0"])
        /\ step = 13 => rx[1] = Number(Len(completions))
        /\ step = 14 => rx[1][1] = "gkc" /\ rx[1][2].status = Ok
    BY CheckState
  <1>1. Now.op = "ReadReg" => Reached(step)
    BY <1>0
  <1>2. CASE step \in {2, 5, 17, 19}
    <2>1. Now.op = "ReadReg" /\ Now.asks = "ok"
      BY <1>2, <1>0, Scripted, Asked
    <2>2. stage["Result"] = Ok
      BY <1>1, <1>2, <2>1 DEF Reached
    <2> QED
      BY <1>0, <1>2, <2>1, <2>2 DEF Satisfied
  <1>3. CASE step = 10
    <2>1. Now.asks = "ok"
      BY <1>3, <1>0, Asked
    <2> QED
      BY <1>0, <1>3, <2>1 DEF Satisfied
  <1>4. CASE step = 6
    <2>1. Now.op = "ReadReg" /\ Now.asks = "blocks"
      BY <1>4, <1>0, Scripted, Asked
    <2>2. stage["Out0"] = 31
      BY <1>1, <1>4, <2>1 DEF Reached, Capabilities
    <2>3. rx[1][1] = 31
      BY <1>0, <1>4, <2>2 DEF Number
    <2> QED
      BY <2>1, <2>3 DEF Satisfied, CapBlockTransport
  <1>5. CASE step = 13
    <2>1. Now.op = "ReadReg" /\ Now.asks = "depth"
      BY <1>5, <1>0, Scripted, Asked
    <2>2. Len(completions) = 1
      BY <1>1, <1>5, <2>1 DEF Reached, OneAnswer
    <2>3. rx[1][1] = 1
      BY <1>0, <1>5, <2>2 DEF Number
    <2> QED
      BY <2>1, <2>3 DEF Satisfied
  <1>6. CASE step = 14
    BY <1>0, <1>6, Asked DEF Satisfied
  <1>7. CASE step \in {1, 3, 4, 7, 8, 9, 11, 12, 15, 16, 18}
    <2>1. Now.asks \in {"nothing", "handle"}
      BY <1>0, <1>7, Asked
    <2> QED
      BY <2>1 DEF Satisfied
  <1> QED
    BY <1>0, <1>2, <1>3, <1>4, <1>5, <1>6, <1>7

LEMMA FailedStep ==
  ASSUME SessionInv, Failed
  PROVE  CardInv' /\ GuestInv' /\ UNCHANGED vars
  <1>0. /\ step \in 1 .. 19 /\ at = "check" /\ phase = "idle" /\ summary = "none"
        /\ Reached(Progress) /\ Closed
        /\ Progress = IF Now.op = "ReadReg" THEN step ELSE step + 1
    BY CheckState DEF Failed
  <1>1. step = 10 /\ stage["Result"] # Ok
    BY AlwaysSatisfied DEF Failed
  <1>2. ~Fits
    BY <1>0, <1>1, Scripted DEF Reached
  <1>3. /\ at' = "finished" /\ summary' = "FAIL"
        /\ UNCHANGED vars /\ UNCHANGED cardVars
        /\ UNCHANGED <<want, step, left, rx, handle>>
    BY DEF Failed
  <1>4. CardInv'
    BY <1>0, <1>3 DEF SessionInv, CardInv, Closed, cardVars
  <1>5. ~Fits' /\ phase' = "idle"
    BY <1>0, <1>2, <1>3 DEF Fits, vars, blockVars
  <1> QED
    BY <1>3, <1>4, <1>5 DEF SessionInv, GuestInv, SessionIsClean

LEMMA ContinueStep ==
  ASSUME SessionInv, Continue
  PROVE  CardInv' /\ GuestInv' /\ UNCHANGED vars
  <1>0. /\ step \in 1 .. 19 /\ at = "check" /\ phase = "idle" /\ summary = "none"
        /\ Reached(Progress) /\ Closed /\ fault = "none"
        /\ Progress = IF Now.op = "ReadReg" THEN step ELSE step + 1
        /\ step \in {2, 5, 10, 17, 19} => rx[1] = Number(stage["Result"])
        /\ step \in {3, 6, 11} => rx[1] = Number(stage["Out0"])
    BY CheckState DEF Continue
  <1>1. UNCHANGED vars /\ UNCHANGED cardVars /\ UNCHANGED <<want, left, rx>>
    BY DEF Continue
  <1>2. handle' = IF step = 11 THEN stage["Out0"] ELSE handle
    BY <1>0, Asked DEF Continue, Number
  <1>3. handle' \in Nat /\ want' \in AllocSizes
    BY <1>1, <1>2 DEF SessionInv, GuestInv, IInv, TypeOK, RegsOK, StageRegs
  <1>4. step = 10 => stage["Result"] = Ok
    BY <1>0, Asked DEF Continue, Satisfied, Number
  <1>5. Fits' = Fits /\ phase' = "idle" /\ fault' = "none" /\ Closed'
    BY <1>0, <1>1 DEF Fits, vars, blockVars, cardVars, Closed
  <1>6. Len(Script) = 19
    BY <1>0, Scripted
  <1>7. \/ step < 19 /\ step' = step + 1 /\ at' = "head" /\ UNCHANGED summary
        \/ step = 19 /\ at' = "finished" /\ summary' = "PASS" /\ UNCHANGED step
    BY <1>6, Zenon DEF Continue
  <1>8. CASE step < 19
    <2>1. step' = step + 1 /\ at' = "head" /\ summary' = "none"
      BY <1>0, <1>7, <1>8
    <2>2. CardInv'
      BY <1>1, <1>5, <2>1 DEF SessionInv, CardInv, cardVars
    <2>3. Progress' = step + 1
      BY <2>1 DEF Progress
    <2>4. Reached(Progress)'
      <3>1. CASE Now.op = "ReadReg"
        <4>1. step \in {2, 3, 5, 6, 7, 10, 11, 13, 17} /\ Reached(step)
          BY <1>0, <1>8, <3>1, Scripted
        <4>2. CASE step \in {2, 3, 5, 6, 7}
          BY <1>1, <2>3, <4>1, <4>2 DEF Reached, NothingHeld, NoJobs, vars, core
        <4>3. CASE step = 10
          BY <1>1, <1>4, <1>5, <2>3, <4>1, <4>3 DEF Reached, Held, NoJobs, vars, core
        <4>4. CASE step = 11
          BY <1>1, <1>2, <1>5, <2>3, <4>1, <4>4 DEF Reached, Held, NoJobs, vars, core
        <4>5. CASE step = 13
          BY <1>1, <1>2, <1>5, <2>3, <4>1, <4>5 DEF Reached, Held, OneAnswer, vars, core
        <4>6. CASE step = 17
          BY <1>1, <1>5, <2>3, <4>1, <4>6 DEF Reached, NothingHeld, vars, core
        <4> QED
          BY <4>1, <4>2, <4>3, <4>4, <4>5, <4>6
      <3>2. CASE Now.op # "ReadReg"
        <4>1. step # 11 /\ Progress' = Progress
          BY <1>0, <2>3, <3>2, Scripted
        <4> QED
          BY <1>0, <1>1, <1>2, <4>1, ReachedKept
      <3> QED
        BY <3>1, <3>2
    <2>5. step' \in 1 .. 19
      BY <1>0, <1>8, <2>1
    <2> QED
      BY <1>1, <1>3, <1>5, <2>1, <2>2, <2>4, <2>5 DEF GuestInv
  <1>9. CASE step = 19
    <2>1. step' = step /\ at' = "finished" /\ summary' = "PASS"
      BY <1>0, <1>7, <1>9
    <2>2. CardInv'
      BY <1>1, <1>5, <2>1 DEF SessionInv, CardInv, cardVars
    <2>3. Reached(19)
      BY <1>0, <1>9, Scripted
    <2>4. Fits /\ NothingHeld /\ completions = << >> /\ completed
      BY <2>3 DEF Reached
    <2>5. SessionIsClean'
      BY <1>1, <1>5, <2>1, <2>4 DEF SessionIsClean, NothingHeld, Closed, vars, core
    <2> QED
      BY <1>0, <1>1, <1>3, <1>5, <2>1, <2>2, <2>5 DEF GuestInv
  <1> QED
    BY <1>7, <1>8, <1>9

-----------------------------------------------------------------------------
(***************************************************************************)
(* The core processes the block: one descriptor, which starts a job.       *)
(***************************************************************************)
LEMMA SentDescriptor ==
  ASSUME GuestInv
  PROVE  /\ GuestDescriptor.magic = "good" /\ GuestDescriptor.inline = TRUE
         /\ GuestDescriptor.input = handle /\ GuestDescriptor.inOff = 0
         /\ GuestDescriptor.inLen = InlineBytes /\ GuestDescriptor.output = 0
         /\ BlockSent.len = DescriptorBytes + InlineBytes
         /\ BlockSent.images = <<GuestDescriptor>>
         /\ Len(<<GuestDescriptor>>) = 1
         /\ <<GuestDescriptor>>[1] = GuestDescriptor
         /\ << >> # <<GuestDescriptor>>
         /\ Len(<< >>) = 0
         /\ InlineLen(GuestDescriptor) = InlineBytes
  BY DEF GuestDescriptor, BlockSent, InlineLen


LEMMA ParsingStep ==
  ASSUME SessionInv, Working, UNCHANGED guestVars, phase = "parse",
         ParseDescriptor \/ EndParse
  PROVE  Working' /\ phase' \in {"parse", "run"}
  <1>0. /\ step' = 12 /\ at' = "idle" /\ UNCHANGED <<want, handle>>
        /\ completions = << >> /\ NoJobs /\ Fits /\ Held(handle) /\ block = BlockSent
        /\ (batch = << >> /\ cursor = 0) \/ batch = <<GuestDescriptor>>
        /\ done = 0 /\ ~dropped
    BY DEF Working, guestVars, SessionInv, IInv, BlockInv
  <1>1. /\ GuestDescriptor.magic = "good" /\ Len(<<GuestDescriptor>>) = 1
        /\ <<GuestDescriptor>>[1] = GuestDescriptor /\ Len(<< >>) = 0
        /\ block.len = DescriptorBytes + InlineBytes
        /\ block.images = <<GuestDescriptor>>
        /\ InlineLen(GuestDescriptor) = InlineBytes
        /\ << >> # <<GuestDescriptor>>
    BY <1>0, SentDescriptor DEF SessionInv
  <1>2. MaxDescriptorsPerBlock \in Nat /\ MaxDescriptorsPerBlock >= 1
    BY SessionAssumption DEF MaxDescriptorsPerBlock
  <1>3. MoreToParse <=> batch = << >>
    <2>1. CASE batch = << >>
      BY <1>0, <1>1, <1>2, <2>1, SessionAssumption DEF MoreToParse
    <2>2. CASE batch = <<GuestDescriptor>>
      BY <1>1, <2>2 DEF MoreToParse
    <2> QED
      BY <1>0, <2>1, <2>2
  <1>4. GuestDescriptor' = GuestDescriptor /\ BlockSent' = BlockSent /\ Fits' = Fits
    BY <1>0 DEF GuestDescriptor, BlockSent, Fits
  <1>5. UNCHANGED <<completions, jobs, allocs>>
    BY DEF ParseDescriptor, EndParse, core
  <1>6. NoJobs' /\ Held(handle)'
    BY <1>0, <1>5 DEF NoJobs, Held
  <1>7. CASE ParseDescriptor
    <2>1. batch = << >> /\ cursor = 0
      BY <1>0, <1>1, <1>3, <1>7 DEF ParseDescriptor
    <2>2. block.images[Len(batch) + 1] = GuestDescriptor
      BY <1>1, <2>1
    <2>3. InlineFits(GuestDescriptor, cursor + DescriptorBytes)
      BY <1>1, <2>1, SessionAssumption DEF InlineFits
    <2>4. /\ batch' = Append(batch, GuestDescriptor)
          /\ UNCHANGED <<phase, block>>
      BY <1>1, <1>7, <2>2, <2>3 DEF ParseDescriptor
    <2>5. batch' = <<GuestDescriptor>>
      BY <2>1, <2>4
    <2> QED
      BY <1>0, <1>4, <1>5, <1>6, <2>4, <2>5 DEF Working
  <1>8. CASE EndParse
    <2>1. batch = <<GuestDescriptor>> /\ batch # << >>
      BY <1>0, <1>1, <1>3, <1>8 DEF EndParse
    <2>2. phase' = "run" /\ UNCHANGED <<block, batch, done, dropped>>
      BY <1>8, <2>1 DEF EndParse
    <2> QED
      BY <1>0, <1>4, <1>5, <1>6, <2>1, <2>2 DEF Working
  <1> QED
    BY <1>7, <1>8

LEMMA RunningStep ==
  ASSUME SessionInv, Working, UNCHANGED guestVars, phase = "run", RunDescriptor
  PROVE  Working' /\ phase' = "run"
  <1>0. /\ step' = 12 /\ at' = "idle" /\ UNCHANGED <<want, handle>>
        /\ Fits /\ Held(handle) /\ block = BlockSent
        /\ batch = <<GuestDescriptor>> /\ ~dropped
        /\ done = 0 => completions = << >> /\ NoJobs
    BY DEF Working, guestVars
  <1>1. /\ GuestDescriptor.inline = TRUE /\ GuestDescriptor.input = handle
        /\ GuestDescriptor.inOff = 0 /\ GuestDescriptor.inLen = InlineBytes
        /\ GuestDescriptor.output = 0
        /\ Len(<<GuestDescriptor>>) = 1 /\ <<GuestDescriptor>>[1] = GuestDescriptor
    BY SentDescriptor DEF SessionInv
  <1>2. done = 0 /\ done' = 1 /\ completions = << >> /\ NoJobs
    BY <1>0, <1>1 DEF RunDescriptor, SessionInv, IInv, TypeOK, BlockOK
  <1>3. batch[done + 1] = GuestDescriptor
    BY <1>0, <1>1, <1>2
  <1>4. allocs \in [Handles -> Allocation] /\ handle \in Handles
    BY <1>0 DEF SessionInv, IInv, TypeOK, MemoryOK, Held
  <1>5. InlineBytes <= allocs[handle].size /\ allocs[handle].size \in Nat
    <2>1. want \in Nat /\ InlineBytes <= want
      BY <1>0, SessionAssumption, PoolAssumption DEF SessionInv, GuestInv, Fits, Word
    <2>2. Rounded(want) \in Nat /\ want <= Rounded(want)
      BY <2>1 DEF Rounded
    <2> QED
      BY <1>0, <2>1, <2>2, SessionAssumption DEF Held
  <1>6. InputOk(GuestDescriptor) /\ InputPresent(GuestDescriptor) /\ OutputOk(GuestDescriptor)
    <2>1. Resolves(allocs, handle) /\ InRange(allocs[handle], 0, InlineBytes)
      BY <1>0, <1>4, <1>5, SessionAssumption DEF Held, Resolves, InRange
    <2> QED
      BY <1>1, <2>1 DEF InputOk, InputPresent, OutputOk
  <1>7. ~\A s \in JobSlots : jobs[s].live
    BY <1>2, DeviceAssumption DEF NoJobs, JobSlots
  <1>8. CopyInline(GuestDescriptor) /\ StartJob(GuestDescriptor)
    BY <1>3, <1>6, <1>7 DEF RunDescriptor
  <1>9. UNCHANGED <<phase, block, batch>>
    BY DEF RunDescriptor
  <1>10. allocs' = [allocs EXCEPT ![handle] = Uploaded(allocs[handle], 0 + InlineBytes)]
    BY <1>1, <1>8 DEF CopyInline
  <1>11. Held(handle)'
    BY <1>0, <1>4, <1>10 DEF Held, Uploaded
  <1> DEFINE sum == [k \in 1 .. GuestDescriptor.inLen |->
                pool'[allocs[GuestDescriptor.input].offset + GuestDescriptor.inOff + k - 1]]
             c == [status |-> Ok, seq |-> GuestDescriptor.seq, job |-> nextJob, checksum |-> sum]
  <1>12. PushCompletion(c)
    BY <1>8, Zenon DEF StartJob
  <1>13. c.status = Ok
    OBVIOUS
  <1> HIDE DEF c, sum
  <1>14. Len(completions) = 0 /\ 0 < QueueDepth /\ ~(0 >= QueueDepth)
    BY <1>2, DeviceAssumption
  <1>15. completions' = Append(completions, c) /\ dropped' = dropped
    BY <1>12, <1>14 DEF PushCompletion
  <1>16. completions' = <<c>>
    BY <1>2, <1>15
  <1>17. OneAnswer'
    BY <1>13, <1>16 DEF OneAnswer
  <1>18. GuestDescriptor' = GuestDescriptor /\ BlockSent' = BlockSent /\ Fits' = Fits
    BY <1>0 DEF GuestDescriptor, BlockSent, Fits
  <1> QED
    BY <1>0, <1>2, <1>9, <1>11, <1>15, <1>17, <1>18 DEF Working

LEMMA DeviceStepStep ==
  ASSUME SessionInv, DeviceStep
  PROVE  CardInv' /\ GuestInv' /\ [AnyNext]_vars
  <1>0. Process /\ UNCHANGED cardVars /\ UNCHANGED guestVars
    BY DEF DeviceStep
  <1>1. phase \in {"parse", "run"} /\ Working
    BY <1>0 DEF Process, ParseDescriptor, EndParse, RunDescriptor, EndRun, SessionInv, GuestInv
  <1>2. /\ step = 12 /\ at = "idle" /\ UNCHANGED <<want, step, at, left, rx, handle, summary>>
    BY <1>0, <1>1 DEF Working, guestVars
  <1>3. Now' = Now
    BY <1>2, NowKept
  <1>4. Now.op = "WriteBlock"
    BY <1>2, Scripted
  <1>5. CardInv'
    BY <1>0, <1>2, <1>3, <1>4 DEF SessionInv, CardInv, Closed, RightAnswer, cardVars
  <1>6. [AnyNext]_vars
    BY <1>0 DEF AnyNext
  <1>7. step' \in 1 .. 19 /\ want' \in AllocSizes /\ handle' \in Nat /\ summary' = "none"
    BY <1>2 DEF SessionInv, GuestInv
  <1>8. CASE Working' /\ phase' \in {"parse", "run"}
    BY <1>2, <1>5, <1>6, <1>7, <1>8 DEF GuestInv
  <1>9. CASE EndRun
    <2>1. /\ phase' = "idle" /\ UNCHANGED core /\ phase = "run" /\ done = Len(batch)
      BY <1>9 DEF EndRun, EndBlock
    <2>2. done # 0
      BY <1>1, <2>1, SentDescriptor DEF Working, SessionInv
    <2>3. OneAnswer /\ Fits /\ Held(handle)
      BY <1>1, <2>1, <2>2 DEF Working
    <2>4. OneAnswer' /\ Fits' /\ Held(handle)'
      BY <1>2, <2>1, <2>3 DEF OneAnswer, Fits, Held, core
    <2>5. Progress' = 13
      BY <1>2, <1>3, <1>4 DEF Progress
    <2>6. Reached(Progress)'
      BY <2>4, <2>5 DEF Reached
    <2> QED
      BY <1>2, <1>5, <1>6, <1>7, <2>1, <2>6 DEF GuestInv
  <1>10. CASE phase = "parse" /\ (ParseDescriptor \/ EndParse)
    BY <1>0, <1>1, <1>8, <1>10, ParsingStep
  <1>11. CASE phase = "run" /\ RunDescriptor
    BY <1>0, <1>1, <1>8, <1>11, RunningStep
  <1> QED
    BY <1>0, <1>9, <1>10, <1>11 DEF Process, ParseDescriptor, EndParse, RunDescriptor

-----------------------------------------------------------------------------
(***************************************************************************)
(* The theorems.                                                           *)
(***************************************************************************)
LEMMA SessionStart == SessionInit => SessionInv
  <1> SUFFICES ASSUME SessionInit PROVE SessionInv
    OBVIOUS
  <1>1. IInv
    BY InitIInv DEF SessionInit
  <1>2. /\ step = 1 /\ at = "head" /\ want \in AllocSizes /\ handle = 0
        /\ summary = "none"
    BY DEF SessionInit
  <1>3. CardInv
    BY <1>2 DEF SessionInit, Card!TransportInit, Card!NoCall, Card!Blank, CardInv, Closed
  <1>4. Progress = 1
    BY <1>2 DEF Progress
  <1>5. phase = "idle" /\ NothingHeld /\ NoJobs /\ completions = << >>
    <2>1. ~NoAllocation.live /\ ~NoJob.live
      BY DEF NoAllocation, NoJob
    <2> QED
      BY <2>1 DEF SessionInit, Init, NothingHeld, NoJobs
  <1>6. Reached(Progress)
    BY <1>4, <1>5 DEF Reached
  <1> QED
    BY <1>1, <1>2, <1>3, <1>5, <1>6 DEF SessionInv, GuestInv

(* Every step of the guest or of the device keeps the invariant, and is a  *)
(* step that some client of the core could make.                           *)
LEMMA SessionStep ==
  SessionInv /\ [SessionNext]_sessionVars => SessionInv' /\ [AnyNext]_vars
  <1> SUFFICES ASSUME SessionInv, [SessionNext]_sessionVars
               PROVE  SessionInv' /\ [AnyNext]_vars
    OBVIOUS
  <1>1. SUFFICES CardInv' /\ GuestInv' /\ [AnyNext]_vars
    BY NextIInv DEF SessionInv
  <1>2. CASE UNCHANGED sessionVars
    <2>1. UNCHANGED vars /\ UNCHANGED cardVars /\ UNCHANGED guestVars
      BY <1>2 DEF sessionVars
    <2>2. UNCHANGED <<want, step, at, left, rx, handle, summary>>
      BY <2>1 DEF guestVars
    <2>3. Now' = Now /\ Progress' = Progress
      BY <2>2, NowKept DEF Progress
    <2>4. UNCHANGED <<allocs, jobs, completions, completed, phase, block, batch, cursor,
                      done, dropped, stage>>
      BY <2>1 DEF vars, core, blockVars
    <2>5. Reached(Progress) => Reached(Progress)'
      BY <2>1, <2>2, <2>3, ReachedKept
    <2>6. /\ Fits' = Fits /\ GuestDescriptor' = GuestDescriptor /\ NoJobs' = NoJobs
          /\ Held(handle)' = Held(handle) /\ OneAnswer' = OneAnswer
          /\ BlockSent' = BlockSent
      BY <2>2, <2>4 DEF Fits, BlockSent, GuestDescriptor, NoJobs, Held, OneAnswer
    <2>7. Working => Working'
      BY <2>2, <2>4, <2>6 DEF Working
    <2>8. UNCHANGED <<head, word, romcnt, direction, wordIndex, wordCount, commandWord,
                      buffer, fault, call>>
      BY <2>1 DEF cardVars
    <2>9. SessionIsClean => SessionIsClean'
      BY <2>2, <2>4, <2>6, <2>8 DEF SessionIsClean
    <2>10. GuestInv'
      BY <2>2, <2>4, <2>5, <2>7, <2>9 DEF SessionInv, GuestInv
    <2>11. /\ RightAnswer(rx[1])' <=> RightAnswer(rx[1])
           /\ RightAnswer(buffer[1])' <=> RightAnswer(buffer[1])
           /\ ReadsNow' = ReadsNow /\ BusWords' = BusWords
      BY <2>2, <2>3, <2>4, <2>8 DEF RightAnswer, ReadReg, ReadsNow, BusWords
    <2>12. Open => Open'
      BY <2>2, <2>3, <2>8, <2>11 DEF Open
    <2>13. CardInv'
      BY <2>2, <2>3, <2>8, <2>11, <2>12 DEF SessionInv, CardInv, Closed
    <2> QED
      BY <2>1, <2>10, <2>13
  <1>3. CASE StageHead
    BY <1>3, StageHeadStep
  <1>4. CASE StageWord
    BY <1>4, StageWordStep
  <1>5. CASE StartPlain
    BY <1>5, StartPlainStep
  <1>6. CASE StartReading
    <2>1. head.op = "ReadReg" \/ head.op = "ReadBlock"
      BY <1>6 DEF StartReading
    <2> QED
      BY <1>6, <2>1, StartReadRegStep, StartReadBlockStep
  <1>7. CASE StartWriting
    BY <1>7, StartWritingStep
  <1>8. CASE WaitReady
    BY <1>8, WaitReadyStep
  <1>9. CASE LoadWord
    BY <1>9, LoadWordStep
  <1>10. CASE StoreWord
    BY <1>10, StoreWordStep
  <1>11. CASE WaitIdle
    BY <1>11, WaitIdleStep
  <1>12. CASE Continue
    BY <1>12, ContinueStep
  <1>13. CASE Failed
    BY <1>13, FailedStep
  <1>14. CASE DeviceStep
    BY <1>14, DeviceStepStep
  <1> QED
    BY <1>2, <1>3, <1>4, <1>5, <1>6, <1>7, <1>8, <1>9, <1>10, <1>11, <1>12, <1>13, <1>14
    DEF SessionNext, Guest, Finished

LEMMA SessionInvariance == SessionSpec => []SessionInv
  BY SessionStart, SessionStep, PTL DEF SessionSpec

(* The invariant says what SessionIsClean says, also before the end.       *)
LEMMA InvIsClean == SessionInv => SessionIsClean
  BY DEF SessionInv, GuestInv, SessionIsClean

(* The guest's session passes exactly when the pool can hold the buffer it *)
(* asks for, and leaves no buffer, no completion and no transfer behind:   *)
(* for every pool, every block and every size of that buffer.              *)
THEOREM CleanSession == SessionSpec => []SessionIsClean
  BY SessionInvariance, InvIsClean, PTL

(* The session, seen from the core, is the core under some client: all     *)
(* that is proved of the core for every client holds in it.                *)
THEOREM GuestIsClient == SessionSpec => AnySpec
  <1>1. SessionInit => Init
    BY DEF SessionInit
  <1> QED
    BY <1>1, SessionInvariance, SessionStep, PTL DEF SessionSpec, AnySpec
==============================================================================
