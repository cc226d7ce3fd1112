---------------------------- MODULE DspicoProofs ----------------------------
(***************************************************************************)
(* The DSpico card, and the DS test program against it: for every size of  *)
(* the device, every number of retries, attempts and polls, and every way  *)
(* in which transactions get lost or the cartridge falls silent.           *)
(***************************************************************************)
EXTENDS DsClient, GekkoDeviceProofs, FiniteSetTheorems

(***************************************************************************)
(* The card.                                                               *)
(***************************************************************************)
(* Whatever the adapter makes of a transfer, the core gets a transfer.     *)
LEMMA F4IsBlock ==
  ASSUME NEW w \in Block, WriteBlockCmd1(w)
  PROVE  AnyNext
<1>1. ASSUME NEW n \in Nat PROVE Supplied(w, n) \in Block
  BY DEF Supplied, Block
<1>2. BlockBytes \in Nat /\ 0 \in Nat
  BY DeviceAssumption
<1>3. WriteBlock(Supplied(w, 0)) \/ WriteBlock(Supplied(w, BlockBytes))
  BY DEF WriteBlockCmd1, RefuseF4, TakeF4
<1>4. \E u \in Block : WriteBlock(u)
  BY <1>1, <1>2, <1>3
<1> QED
  BY <1>4 DEF AnyNext

(* To the core, the card is a client.                                      *)
LEMMA CardIsClient == [CardNext]_cardVars => [AnyNext]_vars
<1> SUFFICES ASSUME [CardNext]_cardVars PROVE AnyNext \/ UNCHANGED vars
  OBVIOUS
<1>1. CASE UNCHANGED cardVars
  BY <1>1 DEF cardVars
<1>2. CASE \E w \in Blocks : WriteBlockCmd1(w)
  BY <1>2, F4IsBlock, DeviceAssumption
<1>3. CASE ForeignF4
  BY <1>3 DEF ForeignF4
<1>4. CASE CardProcess \/ CardReset
  BY <1>4 DEF CardProcess, CardReset, AnyNext
<1>5. CASE \/ \E rv \in RegWrites : WriteReg(rv[1], rv[2])
           \/ \E iv \in PayloadWrites : WritePayloadWord(iv[1], iv[2])
           \/ \E command \in Commands : Exec(command)
           \/ \E q \in Reads : ReadBlock(q)
  <2>1. Next
    BY <1>5 DEF Next
  <2> QED BY <2>1, GivenClient
<1> QED
  BY <1>1, <1>2, <1>3, <1>4, <1>5 DEF CardNext

LEMMA CardInvariance == CardSpec => []IInv
<1>1. CardInit => Init
  BY DEF CardInit
<1>2. CardSpec => AnySpec
  BY <1>1, CardIsClient, PTL DEF CardSpec, AnySpec
<1> QED
  BY <1>2, AnyInvariance, PTL

(* Behind the adapter, too, live buffers stay disjoint ranges of the pool. *)
THEOREM CardMemory == CardSpec => []MemorySound
  BY CardInvariance, PTL DEF IInv

(* Behind the adapter, too, a buffer's bytes change only when the client   *)
(* addressed it.                                                           *)
THEOREM CardIsolation == CardSpec => BuffersIsolated
  BY CardInvariance, CardIsClient, IsolationStep, PTL DEF CardSpec, BuffersIsolated

(* The counters of F4 commands.                                            *)
CountersOK ==
  DOMAIN f4 = {"enter", "accepted", "complete", "parsed"} /\ f4.accepted \in 0 .. F4Mod - 1

LEMMA Counts ==
  ASSUME NEW n \in 0 .. F4Mod - 1
  PROVE  Increment(n) \in 0 .. F4Mod - 1 /\ (F4Mod # 1 => Increment(n) # n)
<1>1. CASE n = F4Mod - 1
  <2>1. (n + 1) % F4Mod = 0
    BY <1>1, CardAssumption
  <2> QED BY <1>1, <2>1, CardAssumption DEF Increment
<1>2. CASE n # F4Mod - 1
  <2>1. (n + 1) % F4Mod = n + 1
    BY <1>2, CardAssumption
  <2> QED BY <1>2, <2>1, CardAssumption DEF Increment
<1> QED
  BY <1>1, <1>2

LEMMA CountersStep == CountersOK /\ [CardNext]_cardVars => CountersOK'
<1> SUFFICES ASSUME CountersOK, [CardNext]_cardVars PROVE CountersOK'
  OBVIOUS
<1>1. Increment(f4.accepted) \in 0 .. F4Mod - 1 /\ 0 \in 0 .. F4Mod - 1
  BY Counts, CardAssumption DEF CountersOK
<1>2. \/ f4' = f4
      \/ f4' = NoF4
      \/ f4' = [f4 EXCEPT !.enter = Increment(@)]
      \/ f4' = [f4 EXCEPT !.parsed = Increment(@)]
      \/ f4' = [f4 EXCEPT !.enter = Increment(@), !.accepted = Increment(@),
                          !.complete = Increment(@)]
  <2>1. CASE CardNext
    BY <2>1, Zenon
    DEF CardNext, CardReset, WriteBlockCmd1, RefuseF4, TakeF4, ForeignF4, CardProcess
  <2>2. CASE UNCHANGED cardVars
    BY <2>2 DEF cardVars
  <2> QED BY <2>1, <2>2
<1>3. DOMAIN f4 = {"enter", "accepted", "complete", "parsed"} /\ f4.accepted \in 0 .. F4Mod - 1
  BY DEF CountersOK
<1>4. DOMAIN f4' = {"enter", "accepted", "complete", "parsed"}
  BY <1>2, <1>3 DEF NoF4
<1>5. f4'.accepted = f4.accepted \/ f4'.accepted = 0 \/ f4'.accepted = Increment(f4.accepted)
  <2>1. CASE f4' = f4 \/ f4' = NoF4
    BY <2>1 DEF NoF4
  <2>2. CASE \/ f4' = [f4 EXCEPT !.enter = Increment(@)]
             \/ f4' = [f4 EXCEPT !.parsed = Increment(@)]
    BY <1>3, <2>2
  <2>3. CASE f4' = [f4 EXCEPT !.enter = Increment(@), !.accepted = Increment(@),
                              !.complete = Increment(@)]
    BY <1>3, <2>3
  <2> QED BY <1>2, <2>1, <2>2, <2>3
<1> QED
  BY <1>1, <1>3, <1>4, <1>5 DEF CountersOK

(* The adapter and the core agree on every F4 command: what the adapter    *)
(* turns away the core refuses, and what it accepts the core parses.  A    *)
(* counter of one value would not show what was accepted.                  *)
THEOREM F4Agreement == ASSUME F4Mod # 1 PROVE CardSpec => F4Agrees
<1>1. CardSpec => []CountersOK
  <2>1. CardInit => CountersOK
    BY CardAssumption DEF CardInit, NoF4, CountersOK
  <2> QED BY <2>1, CountersStep, PTL DEF CardSpec
<1>2. ASSUME IInv, CountersOK PROVE EveryF4Decided
  <2> SUFFICES ASSUME NEW w \in Blocks, WriteBlockCmd1(w) PROVE Decided(w)
    BY DEF EveryF4Decided
  <2>1. /\ w.selector \in Nat /\ w.len \in Nat /\ BlockBytes \in Nat
        /\ stage \in [StageRegs -> Nat]
    BY <1>2, DeviceAssumption DEF Block, IInv, TypeOK, RegsOK
  <2>2. CASE RefuseF4(w)
    <3>1. f4'.accepted = f4.accepted
      BY <1>2, <2>2 DEF RefuseF4, CountersOK
    <3>2. Supplied(w, 0).selector = w.selector /\ Supplied(w, 0).len = w.len
          /\ Supplied(w, 0).supplied = 0
      BY DEF Supplied
    <3>3. stage' = [stage EXCEPT !["Result"] = BadBlock] /\ UNCHANGED core
      BY <2>1, <2>2, <3>2 DEF RefuseF4, Acceptable, WriteBlock
    <3>4. stage'["Result"] = BadBlock /\ CoreNow' = CoreNow
      BY <2>1, <3>3 DEF StageRegs, core, CoreNow
    <3> QED BY <3>1, <3>4 DEF Decided
  <2>3. CASE TakeF4(w)
    <3>1. f4'.accepted # f4.accepted
      BY <1>2, <2>3, Counts DEF TakeF4, CountersOK
    <3>2. Supplied(w, BlockBytes).selector = w.selector /\ Supplied(w, BlockBytes).len = w.len
          /\ Supplied(w, BlockBytes).supplied = BlockBytes
      BY DEF Supplied
    <3>3. phase' = "parse"
      BY <2>1, <2>3, <3>2 DEF TakeF4, Acceptable, WriteBlock
    <3> QED BY <3>1, <3>3 DEF Decided
  <2> QED BY <2>2, <2>3 DEF WriteBlockCmd1
<1>3. IInv /\ CountersOK /\ [CardNext]_cardVars => [EveryF4Decided]_cardVars
  BY <1>2
<1> QED
  BY <1>1, <1>3, CardInvariance, PTL DEF CardSpec, F4Agrees
-----------------------------------------------------------------------------
(***************************************************************************)
(* The test program.                                                       *)
(***************************************************************************)
(* Where the program is, or goes on after the register it reads.           *)
Spot == IF at = "read" THEN vote.then ELSE at

LocalNames == {"legacy", "prime", "guard", "attempt", "polls", "handle", "f4Attempts",
               "record", "outcome", "firstJob"}

(* The places of one kind of stage only.                                   *)
LegacySpots == {"probe", "probed", "payload", "uploadArgs", "uploadExec", "uploadDone",
                "uploadResult", "uploaded"}
TripSpots == {"drain", "drained", "drainRead", "drainPrimed", "prime", "block", "poll",
              "polled", "fetch", "fetchPrimed"}

(* Where gpk_read_reg returns to.                                          *)
Returns == {"allocDone", "allocResult", "allocated", "uploadDone", "uploadResult", "uploaded",
            "end", "probed", "drained", "polled"}

(* The locals, as far as the transactions depend on them.                  *)
ClientTyped ==
  /\ DOMAIN my = LocalNames /\ DOMAIN vote = {"reg", "then", "prev", "reads"}
  /\ my.attempt \in Nat /\ my.guard \in Nat /\ my.handle \in Nat /\ my.firstJob \in Nat
  /\ my.polls \in Nat
  /\ my.legacy \in BOOLEAN /\ my.prime \in BOOLEAN
  /\ vote.reads \in Nat /\ vote.then # "read"
  /\ at = "read" => vote.then \in Returns
  /\ at = "read" /\ vote.then = "allocResult" => vote.reg = "Result"
  /\ at = "read" /\ vote.then = "allocated" => vote.reg = "Out0"
  /\ at = "read" /\ vote.then \in {"polled", "drained"} => vote.reg = "Depth"
  /\ at = "allocated" => Value[1] \in Nat
  /\ Spot \in {"probe", "probed"} => my.guard \in {0, 1}
  /\ at = "payload" => my.guard = 1
  /\ at = "uploadArgs" => my.guard \in {1, 2, 3}
  /\ Spot \in LegacySpots => my.legacy
  /\ Spot \in TripSpots => ~my.legacy

(* Two transactions are at risk only behind a block; of two reads in a row *)
(* the second is lost only there, and the third never.                     *)
VoteInv ==
  /\ risk \in {0, 1, 2}
  /\ risk = 2 => at = "block" \/ (Spot \in {"poll", "polled"} /\ my.polls = 0)
  /\ at = "read" /\ vote.reads > 0 => risk = 0 \/ (risk = 1 /\ vote.reads = 1 /\ BehindBlock)

(* The block in the cartridge may still run its job.                       *)
MayRun == phase # "idle" /\ block.images # << >> /\ done = 0

(* Where the program may be while the cartridge that is heard still works  *)
(* on a block: waiting for it, or past a first poll that was lost.         *)
Busy == {"block", "poll", "polled", "fetch", "fetchPrimed", "free"}

(* A block has one descriptor.                                             *)
BlockKnown ==
  /\ Len(block.images) <= 1
  /\ Heard => phase = "idle" \/ (~my.legacy /\ Spot \in Busy)
  /\ Heard /\ at = "polled" /\ my.polls # 0 => phase = "idle"
  /\ Heard /\ Spot = "block" => ~MayRun

(* One record at most waits in the queue, and none when a job may run.     *)
FewRecords == Len(completions) <= 1 /\ (MayRun => completions = << >>)

OwnRecord(c) == c.seq = my.attempt + 1 /\ (c.status = Ok => c.job = my.firstJob)

Draining == {"drain", "drained", "drainRead", "drainPrimed"}
Preparing == {"alloc", "allocExec", "allocDone", "allocResult", "allocated", "prime", "block"}
Fetching == {"fetch", "fetchPrimed"}
Ending == {"free", "freeExec", "end", "rest"}

(* A round trip, whether or not the cartridge is heard.                    *)
TripInv ==
  /\ nextJob <= my.firstJob + 1
  /\ MayRun => nextJob = my.firstJob
  /\ at \in {"drained", "drainRead", "drainPrimed", "free"} => risk = 0
  /\ Spot \notin Ending => my.record = NoRecord
  /\ at = "rest" /\ my.outcome = "pass" => my.record # NoRecord /\ my.record.status = Ok
  /\ my.record # NoRecord => /\ phase = "idle" /\ completions = << >>
                             /\ my.record.seq = my.f4Attempts
                             /\ my.record.status = Ok => my.record.job = my.firstJob

(* A round trip of which the cartridge has heard everything so far that    *)
(* was not lost to a pause.                                                *)
HeardInv ==
  /\ Spot \in Draining \cup Preparing => nextJob = my.firstJob /\ ~MayRun
  /\ Spot \in Draining /\ my.guard > 0 => completions = << >>
  /\ Spot \in Preparing => completions = << >>
  /\ at = "drained" => Value = Number(Len(completions))
  /\ at = "polled" /\ my.polls # 0 => Value = Number(Len(completions))
  /\ Spot \in {"poll", "polled"} \cup Fetching =>
       /\ MayRun => block.images[1].seq = my.attempt + 1
       /\ ~MayRun => \/ completions = << >> /\ nextJob = my.firstJob
                     \/ completions # << >> /\ OwnRecord(completions[1])
  /\ Spot \in Fetching => my.f4Attempts = my.attempt + 1

ClientInv ==
  /\ IInv /\ ClientTyped /\ VoteInv /\ BlockKnown /\ FewRecords
  /\ my.legacy \/ TripInv
  /\ my.legacy \/ ~Heard \/ HeardInv
-----------------------------------------------------------------------------
(***************************************************************************)
(* What a transaction does to the card, lost or not.                       *)
(***************************************************************************)
Steady == UNCHANGED <<nextJob, completions, phase, block, done>>

LEMMA CardSame ==
  ASSUME UNCHANGED cardVars
  PROVE  UNCHANGED vars /\ Steady
  BY DEF cardVars, vars, core, blockVars, Steady

LEMMA LostRisk ==
  ASSUME risk \in {0, 1, 2}, Lost
  PROVE  UNCHANGED cardVars /\ risk' = IF risk = 2 THEN 1 ELSE 0
  BY DEF Lost, Missed

LEMMA DoesF0 ==
  ASSUME NEW r \in StageRegs, NEW v \in Nat, F0(r, v), risk \in {0, 1}
  PROVE  /\ [AnyNext]_vars /\ Steady /\ risk' = 0
         /\ risk = 0 /\ Heard => phase = "idle"
<1>1. CASE Heard /\ WriteReg(r, v) /\ risk' = 0
  <2>1. AnyNext
    BY <1>1 DEF AnyNext
  <2>2. Steady
    BY <1>1 DEF WriteReg, core, blockVars, Steady
  <2>3. phase = "idle"
    BY <1>1 DEF WriteReg
  <2> QED BY <1>1, <2>1, <2>2, <2>3
<1>2. CASE Lost
  BY <1>2, CardSame, LostRisk DEF Lost, Missed
<1> QED
  BY <1>1, <1>2 DEF F0

LEMMA DoesF1 ==
  ASSUME NEW c \in {Alloc, Upload, Free}, F1(c)
  PROVE  [AnyNext]_vars /\ Steady /\ risk' = 1
<1>1. CASE Exec(c)
  <2>1. AnyNext
    BY <1>1 DEF AnyNext, Alloc, Upload, Free
  <2>2. ExecAlloc \/ ExecUpload \/ ExecFree
    BY <1>1 DEF Exec, Hello, GetCaps, Alloc, Upload, Submit, Poll, Collect, Free, Complete
  <2>3. Steady
    BY <2>2 DEF ExecAlloc, ExecUpload, ExecFree, Fail, core, blockVars, Steady
  <2> QED BY <2>1, <2>3 DEF F1
<1>2. CASE Missed
  BY <1>2, CardSame DEF F1, Missed
<1> QED
  BY <1>1, <1>2 DEF F1

LEMMA DoesF3 ==
  ASSUME NEW i \in Nat, NEW v \in Bytes, F3(i, v), risk \in {0, 1}
  PROVE  [AnyNext]_vars /\ Steady /\ risk' = 0
<1>1. CASE WritePayloadWord(i, v) /\ risk' = 0
  <2>1. AnyNext
    BY <1>1 DEF AnyNext
  <2>2. Steady
    BY <1>1 DEF WritePayloadWord, core, blockVars, Steady
  <2> QED BY <1>1, <2>1, <2>2
<1>2. CASE Lost
  BY <1>2, CardSame, LostRisk
<1> QED
  BY <1>1, <1>2 DEF F3

(* A block is lost, is refused, or goes to the parser.                     *)
LEMMA DoesF4 ==
  ASSUME NEW w \in Block, F4(w), risk \in {0, 1, 2}
  PROVE  /\ [AnyNext]_vars /\ UNCHANGED <<nextJob, completions, done>> /\ risk' \in {0, 1, 2}
         /\ \/ UNCHANGED <<phase, block>>
            \/ /\ Heard /\ phase = "idle" /\ phase' = "parse"
               /\ block'.images = w.images
<1>1. CASE Heard /\ WriteBlockCmd1(w) /\ risk' = 2
  <2>1. AnyNext
    BY <1>1, F4IsBlock
  <2>2. ASSUME NEW n, WriteBlock(Supplied(w, n))
        PROVE  /\ UNCHANGED <<nextJob, completions, done>>
               /\ \/ UNCHANGED <<phase, block>>
                  \/ phase = "idle" /\ phase' = "parse" /\ block'.images = w.images
    BY <2>2 DEF WriteBlock, Supplied, core, blockVars
  <2>3. \E n : WriteBlock(Supplied(w, n))
    BY <1>1 DEF WriteBlockCmd1, RefuseF4, TakeF4
  <2>4. PICK n : WriteBlock(Supplied(w, n))
    BY <2>3
  <2>5. /\ UNCHANGED <<nextJob, completions, done>>
        /\ \/ UNCHANGED <<phase, block>>
           \/ phase = "idle" /\ phase' = "parse" /\ block'.images = w.images
    BY <2>2, <2>4
  <2> QED BY <1>1, <2>1, <2>5
<1>2. CASE Lost
  BY <1>2, CardSame, LostRisk DEF Steady
<1> QED
  BY <1>1, <1>2 DEF F4

(* A read of the queue that is not lost takes the record that waits.       *)
LEMMA DoesF5 ==
  ASSUME TypeOK, Len(completions) <= 1, NEW record,
         NEW n \in {0, DescriptorBytes, BlockBytes}, F5(n, record), risk \in {0, 1}
  PROVE  /\ [AnyNext]_vars /\ UNCHANGED <<nextJob, phase, block, done>> /\ risk' = 0
         /\ n = 0 => UNCHANGED completions
         /\ n # 0 => \/ Heard /\ phase = "idle" /\ completions' = << >>
                     \/ Lost /\ record = NoRecord /\ UNCHANGED completions
         /\ record # NoRecord => n # 0 /\ completions # << >> /\ record = completions[1]
<1> DEFINE q == [selector |-> 1, offset |-> 0, len |-> n, room |-> BlockBytes]
<1>1. /\ n \in Nat /\ BlockBytes \in Nat /\ DescriptorBytes \in Nat /\ DescriptorBytes > 0
      /\ DescriptorBytes <= BlockBytes
  BY DeviceAssumption, ClientAssumption
<1>2. q \in ReadRequest /\ q.selector = 1 /\ q.offset = 0 /\ q.len = n /\ q.room = BlockBytes
  BY <1>1 DEF ReadRequest
<1>3. completions \in Seq(Completion) /\ Len(completions) \in {0, 1}
  <2>1. completions \in Seq(Completion) /\ Len(completions) \in Nat
    BY DEF TypeOK, QueueOK
  <2>2. \A l \in Nat : l <= 1 => l \in {0, 1}
    OBVIOUS
  <2> QED BY <2>1, <2>2, Zenon
<1>4. CASE Lost /\ record = NoRecord
  BY <1>4, CardSame, LostRisk DEF Steady
<1>5. CASE /\ Heard /\ ReadBlock(q) /\ risk' = 0
           /\ record \in {NoRecord} \cup IF n < DescriptorBytes \/ completions = << >>
                                        THEN {} ELSE {completions[1]}
  <2> HIDE DEF q
  <2>1. AnyNext
    BY <1>2, <1>5 DEF AnyNext
  <2>2. UNCHANGED <<nextJob, phase, block, done>> /\ phase = "idle"
    BY <1>5 DEF ReadBlock, blockVars
  <2>3. CASE n = 0
    <3>1. UNCHANGED completions
      BY <1>2, <1>5, <2>3 DEF ReadBlock
    <3>2. record = NoRecord
      BY <1>1, <1>5, <2>3
    <3> QED BY <1>5, <2>1, <2>2, <2>3, <3>1, <3>2
  <2>4. CASE n # 0
    <3>1. n >= DescriptorBytes /\ n <= BlockBytes
      BY <1>1, <2>4
    <3> DEFINE limit == IF q.len < q.room THEN q.len ELSE q.room
               fit == limit \div DescriptorBytes
               k == IF fit < Len(completions) THEN fit ELSE Len(completions)
    <3>2. limit = n
      BY <1>1, <1>2, <3>1
    <3>3. fit \in Nat /\ fit >= 1
      BY <1>1, <3>1, <3>2
    <3>4. completions' = SubSeq(completions, k + 1, Len(completions))
      <4>1. ~(q.room = 0 \/ q.selector # 1 \/ q.offset # 0 \/ q.len = 0 \/ q.len > BlockBytes)
        BY <1>1, <1>2, <2>4, <3>1
      <4> QED BY <1>5, <4>1, Zenon DEF ReadBlock
    <3>5. k = Len(completions)
      BY <1>3, <3>3
    <3>6. completions' = << >>
      <4> HIDE DEF k
      <4>1. SubSeq(completions, Len(completions) + 1, Len(completions)) = << >>
        BY <1>3
      <4> QED BY <3>4, <3>5, <4>1
    <3> QED BY <1>5, <2>1, <2>2, <2>4, <3>6
  <2> QED BY <2>3, <2>4
<1> QED
  BY <1>4, <1>5 DEF F5
-----------------------------------------------------------------------------
(***************************************************************************)
(* The invariant holds at first, and is kept by a step of the program that *)
(* changes neither its locals nor the queue nor the block.                 *)
(***************************************************************************)
LEMMA ClientStarts == ClientInit => ClientInv
<1> SUFFICES ASSUME ClientInit PROVE ClientInv
  OBVIOUS
<1>1. IInv
  BY InitIInv DEF ClientInit, CardInit
<1>2. /\ at = "rest" /\ my.legacy /\ my.legacy \in BOOLEAN /\ my.prime \in BOOLEAN
      /\ DOMAIN my = LocalNames /\ my.attempt = 0 /\ my.guard = 0 /\ my.handle = 0
      /\ my.polls = 0 /\ my.firstJob = nextJob /\ risk = 1
  BY DEF ClientInit, Locals, LocalNames
<1>3. /\ vote.reads = 0 /\ vote.then = "rest" /\ DOMAIN vote = {"reg", "then", "prev", "reads"}
  BY DEF ClientInit
<1>4. ClientTyped
  BY <1>1, <1>2, <1>3 DEF ClientTyped, Spot, LegacySpots, TripSpots, IInv, TypeOK, JobsOK
<1>5. VoteInv
  BY <1>2 DEF VoteInv
<1>6. phase = "idle" /\ completions = << >> /\ block.images = << >>
  BY DEF ClientInit, CardInit, Init, NoBlock
<1>7. BlockKnown /\ FewRecords
  BY <1>2, <1>6 DEF BlockKnown, FewRecords, MayRun, Spot
<1> QED
  BY <1>1, <1>2, <1>4, <1>5, <1>7 DEF ClientInv

Moves ==
  { <<"alloc", "allocExec">>, <<"allocExec", "allocDone">>, <<"allocDone", "allocResult">>,
    <<"allocResult", "allocated">>, <<"payload", "uploadArgs">>, <<"uploadExec", "uploadDone">>,
    <<"uploadDone", "uploadResult">>, <<"uploadResult", "uploaded">>, <<"uploadResult", "free">>,
    <<"free", "freeExec">>, <<"freeExec", "end">>, <<"probe", "probed">>, <<"drain", "drained">>,
    <<"drain", "alloc">>, <<"drained", "alloc">>, <<"drained", "drainRead">>,
    <<"poll", "polled">>, <<"fetch", "fetchPrimed">>, <<"drainRead", "drainPrimed">> }

(* A call of gpk_read_reg: where it returns to, and what it reads.         *)
Calls ==
  at' = "read" =>
    /\ vote'.reads = 0 /\ vote'.then \in Returns
    /\ vote'.then = "allocResult" => vote'.reg = "Result"
    /\ vote'.then = "allocated" => vote'.reg = "Out0"
    /\ vote'.then \in {"polled", "drained"} => vote'.reg = "Depth"

LEMMA MoveStep ==
  ASSUME ClientInv, [AnyNext]_vars, Steady, UNCHANGED <<my, silence>>,
         DOMAIN vote' = {"reg", "then", "prev", "reads"}, vote'.then # "read",
         vote'.reads \in Nat, Calls,
         <<at, Spot'>> \in Moves, at # "read", at' # "read" => at' \notin Returns,
         at = "drain" /\ Spot' = "alloc" => my.guard > 0,
         at = "drained" /\ Spot' = "alloc" => Value = Number(0),
         at = "free" /\ Heard => phase = "idle",
         risk' \in {0, 1} \/ (risk' = 2 /\ at = "poll" /\ my.polls = 0),
         at' \in {"drainRead", "drainPrimed", "free"} /\ ~my.legacy => risk' = 0
  PROVE  ClientInv'
<1>1. /\ IInv /\ ClientTyped /\ VoteInv /\ BlockKnown /\ FewRecords
      /\ my.legacy \/ TripInv
      /\ my.legacy \/ ~Heard \/ HeardInv
  BY DEF ClientInv
<1>2. IInv'
  BY <1>1, NextIInv
<1>3. /\ my' = my /\ Heard' = Heard /\ MayRun' = MayRun
      /\ nextJob' = nextJob /\ completions' = completions /\ phase' = phase
      /\ block' = block /\ done' = done
  BY DEF Steady, Heard, MayRun
<1>4. Spot = at /\ (at' # "read" => Spot' = at') /\ (at' = "read" => Spot' = vote'.then)
  BY DEF Spot
<1>5. ClientTyped'
  BY <1>1, <1>3, <1>4 DEF ClientTyped, Moves, Calls, Returns, LegacySpots, TripSpots
<1>6. VoteInv'
  BY <1>3, <1>4 DEF VoteInv, Calls, Moves
<1>7. BlockKnown'
  BY <1>1, <1>3, <1>4 DEF BlockKnown, Moves, Returns, Busy
<1>8. FewRecords'
  BY <1>1, <1>3 DEF FewRecords
<1>9. my.legacy \/ TripInv'
  BY <1>1, <1>3, <1>4 DEF TripInv, Moves, Returns, Ending
<1>10. ASSUME ~my.legacy, Heard PROVE HeardInv'
  <2>1. HeardInv /\ completions \in Seq(Completion)
    BY <1>1, <1>10 DEF IInv, TypeOK, QueueOK
  <2>2. Spot' \in Draining \cup Preparing => at \in Draining \cup Preparing
    BY <1>4 DEF Moves, Draining, Preparing
  <2>3. Spot' \in Draining => at \in Draining
    BY <1>4 DEF Moves, Draining, Preparing
  <2>4. Spot' \in Preparing => completions = << >>
    <3>1. CASE at = "drained" /\ Spot' = "alloc"
      <4>1. Number(Len(completions)) = Number(0)
        BY <2>1, <3>1 DEF HeardInv
      <4>2. Len(completions) = 0
        BY <4>1 DEF Number
      <4> QED BY <2>1, <4>2
    <3>2. CASE ~(at = "drained" /\ Spot' = "alloc")
      BY <1>4, <2>1, <3>2 DEF Moves, Preparing, Draining, HeardInv
    <3> QED BY <3>1, <3>2
  <2>5. Spot' \in {"poll", "polled"} \cup Fetching => at \in {"poll", "fetch"}
    BY <1>4 DEF Moves, Fetching
  <2>6. Spot' \in Fetching => at = "fetch"
    BY <1>4 DEF Moves, Fetching
  <2>7. at' \notin {"drained", "polled"}
    BY <1>4 DEF Returns
  <2>8. \A c : OwnRecord(c)' = OwnRecord(c)
    BY <1>3 DEF OwnRecord
  <2> QED
    BY <1>3, <1>4, <2>1, <2>2, <2>3, <2>4, <2>5, <2>6, <2>7, <2>8 DEF HeardInv, Fetching, OwnRecord
<1> QED
  BY <1>2, <1>3, <1>5, <1>6, <1>7, <1>8, <1>9, <1>10 DEF ClientInv

(* What gpk_read_reg returns was heard, unless the cartridge is silent or  *)
(* the call follows a block; and after it nothing is at risk.              *)
LEMMA Heeded ==
  ASSUME ClientTyped, VoteInv, NEW v, at = "read", Agrees(v) \/ vote.reads = Retries,
         \/ Heard /\ phase = "idle" /\ v = RegValue(vote.reg) /\ risk' = 0
         \/ Lost /\ v \in IF Heard THEN Garbage ELSE Dead
  PROVE  /\ risk' = 0
         /\ \/ Heard /\ phase = "idle" /\ v = RegValue(vote.reg)
            \/ v \in Garbage /\ (~Heard \/ BehindBlock)
<1>1. vote.reads > 0
  BY ClientAssumption DEF Agrees, ClientTyped
<1>2. risk \in {0, 1} /\ (risk = 0 \/ BehindBlock)
  BY <1>1 DEF VoteInv
<1>3. Lost => risk' = 0
  BY <1>2, LostRisk
<1> QED
  BY <1>2, <1>3 DEF Lost, Missed, Garbage, Dead

LEMMA ReadStep ==
  ASSUME ClientInv, ReadReg, UNCHANGED silence
  PROVE  ClientInv'
<1>1. /\ IInv /\ ClientTyped /\ VoteInv /\ BlockKnown /\ FewRecords
      /\ my.legacy \/ TripInv
      /\ my.legacy \/ ~Heard \/ HeardInv
  BY DEF ClientInv
<1>2. /\ at = "read" /\ UNCHANGED vars /\ Steady /\ my' = my
  BY CardSame DEF ReadReg
<1>3. IInv'
  BY <1>1, <1>2, NextIInv
<1>4. /\ Heard' = Heard /\ MayRun' = MayRun
      /\ nextJob' = nextJob /\ completions' = completions /\ phase' = phase
      /\ block' = block /\ done' = done
  BY <1>2 DEF Steady, Heard, MayRun
<1>5. Spot = vote.then
  BY <1>2 DEF Spot
<1>6. PICK v \in Garbage \cup {RegValue(vote.reg)} :
       /\ \/ Heard /\ phase = "idle" /\ v = RegValue(vote.reg) /\ risk' = 0
          \/ Lost /\ v \in IF Heard THEN Garbage ELSE Dead
       /\ IF Agrees(v) \/ vote.reads = Retries
          THEN /\ at' = vote.then
               /\ vote' = [vote EXCEPT !.prev = v, !.reads = 0]
          ELSE /\ vote' = [vote EXCEPT !.prev = v, !.reads = @ + 1]
               /\ UNCHANGED at
  BY Zenon DEF ReadReg
<1>7. CASE Agrees(v) \/ vote.reads = Retries
  <2>1. at' = vote.then /\ vote' = [vote EXCEPT !.prev = v, !.reads = 0]
    BY <1>6, <1>7
  <2>2. /\ risk' = 0
        /\ \/ Heard /\ phase = "idle" /\ v = RegValue(vote.reg)
           \/ v \in Garbage /\ (~Heard \/ BehindBlock)
    BY <1>1, <1>2, <1>6, <1>7, Heeded
  <2>3. at' # "read" /\ Spot' = Spot /\ at' = Spot
    BY <1>1, <1>5, <2>1 DEF Spot, ClientTyped
  <2>4. /\ DOMAIN vote' = DOMAIN vote /\ vote'.then = vote.then /\ vote'.reg = vote.reg
        /\ vote'.reads = 0 /\ vote'.prev = v /\ Value' = v
    BY <1>1, <2>1 DEF ClientTyped, Value
  <2>5. vote.then = "allocated" => v[1] \in Nat
    <3>1. SUFFICES ASSUME vote.then = "allocated" PROVE v[1] \in Nat
      OBVIOUS
    <3>2. vote.reg = "Out0"
      BY <1>1, <1>2, <3>1 DEF ClientTyped
    <3>3. RegValue("Out0") = <<stage["Out0"]>> /\ stage["Out0"] \in Nat
      BY <1>1 DEF RegValue, Number, IInv, TypeOK, RegsOK, StageRegs
    <3>4. ~BehindBlock
      BY <3>1 DEF BehindBlock
    <3>5. ASSUME v \in Garbage PROVE v[1] \in Nat
      <4>1. WordMod - 1 \in Nat /\ WordMod \div 4 - 1 \in Nat /\ 0 \in Nat
        <5>1. WordMod \in Nat /\ WordMod >= 4
          BY PoolAssumption
        <5>2. \A n \in Nat : n >= 4 => n - 1 \in Nat /\ n \div 4 - 1 \in Nat
          OBVIOUS
        <5> QED BY <5>1, <5>2
      <4>2. v \in {<<WordMod - 1>>, <<WordMod \div 4 - 1>>, <<0>>}
        BY <3>5 DEF Garbage, AllOnes, PartlyDriven, Number
      <4> QED BY <4>1, <4>2
    <3> QED BY <2>2, <3>2, <3>3, <3>5
  <2>6. ClientTyped'
    BY <1>1, <1>2, <2>1, <2>3, <2>4, <2>5 DEF ClientTyped, LegacySpots, TripSpots, Returns
  <2>7. VoteInv'
    BY <2>2, <2>3 DEF VoteInv
  <2>8. BlockKnown'
    BY <1>1, <1>2, <1>4, <1>5, <2>1, <2>2, <2>3 DEF BlockKnown, BehindBlock
  <2>9. FewRecords'
    BY <1>1, <1>4 DEF FewRecords
  <2>10. my'.legacy \/ TripInv'
    BY <1>1, <1>2, <1>4, <2>1, <2>2, <2>3 DEF TripInv, Ending, ClientTyped, Returns
  <2>11. ASSUME ~my.legacy, Heard PROVE HeardInv'
    <3>1. at' = "drained" \/ (at' = "polled" /\ my.polls # 0) => v = Number(Len(completions))
      BY <1>1, <1>2, <2>1, <2>2, <2>11 DEF ClientTyped, RegValue, BehindBlock
    <3>2. \A c : OwnRecord(c)' = OwnRecord(c)
      BY <1>2 DEF OwnRecord
    <3> QED
      BY <1>1, <1>2, <1>4, <2>3, <2>4, <2>11, <3>1, <3>2 DEF HeardInv
  <2> QED
    BY <1>2, <1>3, <1>4, <2>6, <2>7, <2>8, <2>9, <2>10, <2>11 DEF ClientInv
<1>8. CASE ~(Agrees(v) \/ vote.reads = Retries)
  <2>1. vote' = [vote EXCEPT !.prev = v, !.reads = @ + 1] /\ at' = at
    BY <1>6, <1>8
  <2>2. /\ DOMAIN vote' = DOMAIN vote /\ vote'.then = vote.then /\ vote'.reg = vote.reg
        /\ vote'.reads = vote.reads + 1
    BY <1>1, <2>1 DEF ClientTyped
  <2>3. Spot' = Spot /\ BehindBlock' = BehindBlock
    BY <1>2, <2>1, <2>2 DEF Spot, BehindBlock
  <2>4. ClientTyped'
    BY <1>1, <1>2, <2>1, <2>2, <2>3 DEF ClientTyped
  <2>5. VoteInv'
    <3>1. risk' = 0 \/ (risk' = 1 /\ vote.reads = 0 /\ BehindBlock)
      <4>1. CASE Lost
        <5>1. risk \in {0, 1, 2} /\ risk' = IF risk = 2 THEN 1 ELSE 0
          BY <1>1, <4>1, LostRisk DEF VoteInv
        <5>2. risk = 2 => vote.reads = 0 /\ BehindBlock
          BY <1>1, <1>2, <1>5 DEF VoteInv, ClientTyped, Returns, BehindBlock
        <5> QED BY <5>1, <5>2
      <4> QED BY <1>6, <4>1
    <3>2. vote.reads \in Nat
      BY <1>1 DEF ClientTyped
    <3> QED BY <1>2, <2>1, <2>2, <2>3, <3>1, <3>2 DEF VoteInv
  <2>6. BlockKnown' /\ FewRecords'
    BY <1>1, <1>2, <1>4, <2>1, <2>3 DEF BlockKnown, FewRecords
  <2>7. my'.legacy \/ TripInv'
    BY <1>1, <1>2, <1>4, <2>1, <2>3 DEF TripInv
  <2>8. my'.legacy \/ ~Heard' \/ HeardInv'
    BY <1>1, <1>2, <1>4, <2>1, <2>3 DEF HeardInv, OwnRecord
  <2> QED
    BY <1>3, <2>4, <2>5, <2>6, <2>7, <2>8 DEF ClientInv
<1> QED
  BY <1>7, <1>8

(* A stage returns; a round trip that passes has a record.                 *)
LEMMA ReturnStep ==
  ASSUME ClientInv, UNCHANGED silence, NEW outcome, NEW abandoned, Return(outcome, abandoned),
         at \notin Busy \cup {"read"} \/ (at = "polled" /\ my.polls # 0),
         outcome = "pass" /\ ~my.legacy => my.record # NoRecord /\ my.record.status = Ok
  PROVE  ClientInv'
<1>1. /\ IInv /\ ClientTyped /\ VoteInv /\ BlockKnown /\ FewRecords
      /\ my.legacy \/ TripInv
      /\ my.legacy \/ ~Heard \/ HeardInv
  BY DEF ClientInv
<1>2. UNCHANGED vars /\ Steady
  BY CardSame DEF Return
<1>3. IInv'
  BY <1>1, <1>2, NextIInv
<1>4. /\ Heard' = Heard /\ MayRun' = MayRun
      /\ nextJob' = nextJob /\ completions' = completions /\ phase' = phase
      /\ block' = block /\ done' = done
  BY <1>2 DEF Steady, Heard, MayRun
<1>5. /\ at' = "rest" /\ vote' = vote /\ my' = [my EXCEPT !.outcome = outcome]
      /\ risk' = risk
  BY DEF Return, GoTo
<1>6. Spot' = "rest" /\ Spot = at
  BY <1>5 DEF Spot
<1>7. /\ DOMAIN my' = LocalNames /\ my'.attempt = my.attempt
      /\ my'.guard = my.guard /\ my'.handle = my.handle /\ my'.firstJob = my.firstJob
      /\ my'.legacy = my.legacy /\ my'.prime = my.prime /\ my'.record = my.record
      /\ my'.outcome = outcome /\ my'.f4Attempts = my.f4Attempts /\ my'.polls = my.polls
  BY <1>1, <1>5 DEF ClientTyped, LocalNames
<1>8. ClientTyped'
  BY <1>1, <1>5, <1>6, <1>7 DEF ClientTyped, LegacySpots, TripSpots
<1>9. VoteInv'
  <2>1. risk # 2
    BY <1>1, <1>6 DEF VoteInv, Busy
  <2> QED BY <1>1, <1>5, <2>1 DEF VoteInv
<1>10. BlockKnown' /\ FewRecords'
  BY <1>1, <1>4, <1>5, <1>6 DEF BlockKnown, FewRecords
<1>11. my'.legacy \/ TripInv'
  BY <1>1, <1>4, <1>5, <1>6, <1>7 DEF TripInv, Ending
<1>12. HeardInv'
  BY <1>5, <1>6 DEF HeardInv, Draining, Preparing, Fetching
<1> QED
  BY <1>3, <1>8, <1>9, <1>10, <1>11, <1>12 DEF ClientInv

LEMMA CallStep ==
  ASSUME ClientInv, [AnyNext]_vars, Steady, UNCHANGED <<my, silence>>,
         NEW r, NEW label \in Returns, Call(r, label), <<at, label>> \in Moves,
         label = "allocResult" => r = "Result", label = "allocated" => r = "Out0",
         label \in {"polled", "drained"} => r = "Depth", at # "free",
         risk' \in {0, 1} \/ (risk' = 2 /\ at = "poll" /\ my.polls = 0)
  PROVE  ClientInv'
<1>1. /\ at' = "read" /\ DOMAIN vote' = {"reg", "then", "prev", "reads"}
      /\ vote'.then = label /\ vote'.reg = r /\ vote'.reads = 0
  BY DEF Call
<1>2. Spot' = label
  BY <1>1 DEF Spot
<1>3. label # "read" /\ label # "alloc" /\ at # "read" /\ 0 \in Nat
  BY DEF Returns, Moves
<1>4. Calls
  BY <1>1 DEF Calls
<1>5. at' \notin {"drainRead", "drainPrimed", "free"}
  BY <1>1
<1> QED
  BY <1>1, <1>2, <1>3, <1>4, <1>5, MoveStep

LEMMA GoStep ==
  ASSUME ClientInv, [AnyNext]_vars, Steady, UNCHANGED <<my, silence>>,
         NEW label, GoTo(label), <<at, label>> \in Moves, label \notin Returns, label # "read",
         at = "drain" /\ label = "alloc" => my.guard > 0,
         at = "drained" /\ label = "alloc" => Value = Number(0),
         at = "free" /\ Heard => phase = "idle", risk' \in {0, 1},
         label \in {"drainRead", "drainPrimed", "free"} /\ ~my.legacy => risk' = 0
  PROVE  ClientInv'
<1>1. at' = label /\ vote' = vote
  BY DEF GoTo
<1>2. Spot' = label
  BY <1>1 DEF Spot
<1>3. /\ DOMAIN vote' = {"reg", "then", "prev", "reads"} /\ vote'.then # "read"
      /\ vote'.reads \in Nat
  BY <1>1 DEF ClientInv, ClientTyped
<1>4. Calls /\ at # "read"
  BY <1>1 DEF Calls, Moves
<1> QED
  BY <1>1, <1>2, <1>3, <1>4, MoveStep

(* The steps that leave the locals, the queue and the block as they are.   *)
LEMMA PlainStep ==
  ASSUME ClientInv, UNCHANGED silence,
         \/ AllocArg \/ AllocExec \/ AllocDone
         \/ UploadPayload \/ UploadExec \/ UploadDone \/ UploadResult
         \/ FreeArg \/ FreeExec \/ Probe \/ Drain \/ Drained \/ PollDepth \/ PrimeF5
  PROVE  ClientInv'
<1>0. ClientTyped /\ TypeOK /\ Len(completions) <= 1
  BY DEF ClientInv, IInv, FewRecords
<1>1. NoTransaction => [AnyNext]_vars /\ Steady /\ risk' = risk
  BY CardSame DEF NoTransaction
<1>r. /\ at \notin {"read", "block", "poll", "polled"} => risk \in {0, 1}
      /\ at = "poll" => risk \in {0, 1} \/ (risk = 2 /\ my.polls = 0)
  BY DEF ClientInv, VoteInv, Spot
<1>2. CASE AllocArg
  <2>1. [AnyNext]_vars /\ Steady /\ risk' = 0
    <3>1. "Arg0" \in StageRegs /\ PatternBytes \in Nat
      BY ClientAssumption, DeviceAssumption DEF StageRegs
    <3> QED BY <1>r, <1>2, <3>1, DoesF0 DEF AllocArg
  <2> QED BY <1>2, <2>1, GoStep DEF AllocArg, Moves, Returns
<1>3. CASE AllocExec
  <2>1. [AnyNext]_vars /\ Steady /\ risk' = 1
    BY <1>3, DoesF1 DEF AllocExec
  <2> QED BY <1>3, <2>1, CallStep DEF AllocExec, Moves, Returns
<1>4. CASE AllocDone
  BY <1>r, <1>1, <1>4, CallStep DEF AllocDone, Moves, Returns
<1>5. CASE UploadPayload
  <2>1. [AnyNext]_vars /\ Steady /\ risk' = 0
    <3>1. PatternByte \in Bytes /\ 0 \in Nat
      BY ClientAssumption DEF PatternByte
    <3> QED BY <1>r, <1>5, <3>1, DoesF3 DEF UploadPayload
  <2> QED BY <1>5, <2>1, GoStep DEF UploadPayload, Moves, Returns
<1>6. CASE UploadExec
  <2>1. [AnyNext]_vars /\ Steady /\ risk' = 1
    BY <1>6, DoesF1 DEF UploadExec
  <2> QED BY <1>6, <2>1, CallStep DEF UploadExec, Moves, Returns
<1>7. CASE UploadDone
  BY <1>r, <1>1, <1>7, CallStep DEF UploadDone, Moves, Returns
<1>8. CASE UploadResult
  <2>1. /\ at = "uploadResult" /\ [AnyNext]_vars /\ Steady /\ UNCHANGED my
        /\ risk' \in {0, 1} /\ my.legacy
        /\ Call("Out1", "uploaded") \/ GoTo("free")
    BY <1>r, <1>0, <1>1, <1>8 DEF UploadResult, ClientTyped, Spot, LegacySpots
  <2>2. CASE Call("Out1", "uploaded")
    BY <2>1, <2>2, CallStep DEF Moves, Returns
  <2>3. CASE GoTo("free")
    BY <2>1, <2>3, GoStep DEF Moves, Returns
  <2> QED BY <2>1, <2>2, <2>3
<1>9. CASE FreeArg
  <2>1. [AnyNext]_vars /\ Steady /\ risk' = 0 /\ (risk = 0 /\ Heard => phase = "idle")
    <3>1. "Arg0" \in StageRegs /\ my.handle \in Nat
      BY <1>0 DEF StageRegs, ClientTyped
    <3> QED BY <1>r, <1>9, <3>1, DoesF0 DEF FreeArg
  <2>2. Heard => phase = "idle"
    <3>1. ~my.legacy => risk = 0
      BY <1>9 DEF FreeArg, ClientInv, TripInv
    <3>2. my.legacy /\ Heard => phase = "idle"
      BY DEF ClientInv, BlockKnown
    <3> QED BY <2>1, <3>1, <3>2
  <2> QED BY <1>9, <2>1, <2>2, GoStep DEF FreeArg, Moves, Returns
<1>10. CASE FreeExec
  <2>1. [AnyNext]_vars /\ Steady /\ risk' = 1
    BY <1>10, DoesF1 DEF FreeExec
  <2> QED BY <1>10, <2>1, CallStep DEF FreeExec, Moves, Returns
<1>11. CASE Probe
  <2>1. [AnyNext]_vars /\ Steady /\ risk' = 0
    <3>1. my.guard \in {0, 1}
      BY <1>0, <1>11 DEF Probe, ClientTyped, Spot
    <3>2. "Arg0" \in StageRegs /\ ProbeValues[my.guard + 1] \in Nat
      BY <3>1 DEF StageRegs, ProbeValues
    <3> QED BY <1>r, <1>11, <3>2, DoesF0 DEF Probe
  <2> QED BY <1>11, <2>1, CallStep DEF Probe, Moves, Returns
<1>12. CASE Drain
  <2>1. at = "drain" /\ [AnyNext]_vars /\ Steady /\ UNCHANGED my /\ risk' \in {0, 1}
    BY <1>r, <1>1, <1>12 DEF Drain
  <2>2. CASE my.guard < DrainRounds
    <3>1. Call("Depth", "drained")
      BY <1>12, <2>2 DEF Drain
    <3> QED BY <2>1, <3>1, CallStep DEF Moves, Returns
  <2>3. CASE ~(my.guard < DrainRounds)
    <3>1. GoTo("alloc") /\ my.guard > 0
      BY <1>0, <1>12, <2>3, ClientAssumption DEF Drain, ClientTyped
    <3> QED BY <2>1, <3>1, GoStep DEF Moves, Returns
  <2> QED BY <2>2, <2>3
<1>13. CASE Drained
  <2>1. /\ at = "drained" /\ [AnyNext]_vars /\ Steady /\ UNCHANGED my /\ risk' = risk
        /\ risk' \in {0, 1}
    BY <1>r, <1>1, <1>13 DEF Drained
  <2>2. CASE Value = Number(0)
    <3>1. GoTo("alloc")
      BY <1>13, <2>2 DEF Drained
    <3> QED BY <2>1, <2>2, <3>1, GoStep DEF Moves, Returns
  <2>3. CASE Value # Number(0)
    <3>1. GoTo("drainRead")
      BY <1>13, <2>3 DEF Drained
    <3>2. risk' = 0
      BY <1>0, <2>1 DEF ClientInv, TripInv, ClientTyped, Spot, TripSpots
    <3> QED BY <2>1, <3>1, <3>2, GoStep DEF Moves, Returns
  <2> QED BY <2>2, <2>3
<1>14. CASE PollDepth
  BY <1>r, <1>1, <1>14, CallStep DEF PollDepth, Moves, Returns
<1>15. CASE PrimeF5
  <2>1. at \in {"fetch", "drainRead"} /\ F5(0, NoRecord) /\ UNCHANGED my /\ GoTo(Primed)
    BY <1>15 DEF PrimeF5
  <2>2. [AnyNext]_vars /\ UNCHANGED <<nextJob, phase, block, done>> /\ risk' = 0
    BY <1>r, <1>0, <2>1, DoesF5
  <2>3. UNCHANGED completions
    BY <1>r, <1>0, <2>1, DoesF5
  <2>4. Steady
    BY <2>2, <2>3 DEF Steady
  <2> QED BY <2>1, <2>2, <2>4, GoStep DEF Primed, Moves, Returns
<1> QED
  BY <1>2, <1>3, <1>4, <1>5, <1>6, <1>7, <1>8, <1>9, <1>10, <1>11, <1>12, <1>13, <1>14, <1>15

(* A step of the legacy stage, whatever it does to the locals.             *)
LEMMA LegacyStep ==
  ASSUME ClientInv, [AnyNext]_vars, Steady, UNCHANGED silence, my'.legacy, ClientTyped',
         my.legacy, at' # "read", risk' \in {0, 1}
  PROVE  ClientInv'
<1>1. IInv /\ BlockKnown /\ FewRecords
  BY DEF ClientInv
<1>2. IInv'
  BY <1>1, NextIInv
<1>3. /\ Heard' = Heard /\ MayRun' = MayRun /\ completions' = completions
      /\ phase' = phase /\ block' = block
  BY DEF Steady, Heard, MayRun
<1>4. BlockKnown' /\ FewRecords'
  BY <1>1, <1>3 DEF BlockKnown, FewRecords, MayRun
<1>5. VoteInv'
  BY DEF VoteInv
<1> QED
  BY <1>2, <1>4, <1>5 DEF ClientInv

(* The steps of a stage that fill its locals from registers it has read.   *)
LEMMA LocalStep ==
  ASSUME ClientInv, UNCHANGED silence,
         AllocResult \/ Allocated \/ UploadArgs \/ ReadChecksum \/ Report \/ Probed \/ GiveUp
  PROVE  ClientInv'
<1>1. /\ IInv /\ ClientTyped /\ VoteInv /\ BlockKnown /\ FewRecords
      /\ my.legacy \/ TripInv
      /\ my.legacy \/ ~Heard \/ HeardInv
  BY DEF ClientInv
<1>2. UNCHANGED cardVars => [AnyNext]_vars /\ Steady
  BY CardSame
<1>r. at \notin {"read", "block", "poll", "polled"} => risk \in {0, 1}
  BY <1>1 DEF VoteInv, Spot
<1>3. CASE AllocResult
  <2>1. CASE Value = Number(Ok)
    BY <1>r, <1>2, <1>3, <2>1, CallStep DEF AllocResult, NoTransaction, Moves, Returns
  <2>2. CASE Value # Number(Ok)
    BY <1>3, <2>2, ReturnStep DEF AllocResult, Busy
  <2> QED BY <2>1, <2>2
<1>4. CASE Allocated /\ Value = Number(0)
  <2>1. at = "allocated" /\ Return("fail", FALSE)
    BY <1>4 DEF Allocated
  <2> QED BY <2>1, ReturnStep DEF Busy
<1>5. CASE Allocated /\ Value # Number(0)
  <2>1. /\ at = "allocated" /\ my' = [my EXCEPT !.handle = Value[1], !.guard = 1]
        /\ at' = (IF my.legacy THEN "payload" ELSE "prime") /\ vote' = vote
        /\ risk' \in {0, 1} /\ UNCHANGED cardVars
    BY <1>r, <1>5 DEF Allocated, GoTo
  <2>2. Value[1] \in Nat
    BY <1>1, <2>1 DEF ClientTyped
  <2>3. /\ DOMAIN my' = LocalNames /\ my'.handle = Value[1] /\ my'.guard = 1
        /\ my'.attempt = my.attempt /\ my'.firstJob = my.firstJob
        /\ my'.legacy = my.legacy /\ my'.prime = my.prime /\ my'.record = my.record
        /\ my'.outcome = my.outcome /\ my'.f4Attempts = my.f4Attempts
        /\ my'.polls = my.polls
    BY <1>1, <2>1 DEF ClientTyped, LocalNames
  <2>4. at' # "read" /\ Spot' = at' /\ Spot = at /\ 1 \in Nat
    BY <2>1 DEF Spot
  <2>5. ClientTyped'
    BY <1>1, <2>1, <2>2, <2>3, <2>4 DEF ClientTyped, LegacySpots, TripSpots
  <2>6. CASE my.legacy
    BY <1>2, <2>1, <2>3, <2>4, <2>5, <2>6, LegacyStep
  <2>7. CASE ~my.legacy
    <3>1. at' = "prime"
      BY <2>1, <2>7
    <3>2. IInv'
      BY <1>1, <1>2, <2>1, NextIInv
    <3>3. /\ Heard' = Heard /\ MayRun' = MayRun /\ completions' = completions
          /\ phase' = phase /\ block' = block /\ nextJob' = nextJob
      BY <1>2, <2>1 DEF Steady, Heard, MayRun
    <3>4. BlockKnown' /\ FewRecords' /\ VoteInv'
      BY <1>1, <2>1, <2>4, <3>1, <3>3 DEF BlockKnown, FewRecords, VoteInv, Busy
    <3>5. TripInv'
      BY <1>1, <2>1, <2>3, <2>4, <2>7, <3>1, <3>3 DEF TripInv, Ending
    <3>6. ASSUME Heard PROVE HeardInv'
      BY <1>1, <2>1, <2>3, <2>4, <2>7, <3>1, <3>3, <3>6
      DEF HeardInv, Draining, Preparing, Fetching
    <3> QED BY <2>5, <3>2, <3>3, <3>4, <3>5, <3>6 DEF ClientInv
  <2> QED BY <2>6, <2>7
<1>6. CASE UploadArgs
  <2> DEFINE regs == << <<"Arg0", my.handle>>, <<"Arg1", 0>>, <<"PayloadLen", PatternBytes>> >>
  <2>1. /\ at = "uploadArgs" /\ F0(regs[my.guard][1], regs[my.guard][2])
        /\ at' = (IF my.guard = Len(regs) THEN "uploadExec" ELSE at) /\ vote' = vote
        /\ my' = [my EXCEPT !.guard = @ + 1]
    BY <1>6, Zenon DEF UploadArgs, GoTo
  <2>2. my.guard \in {1, 2, 3} /\ my.legacy /\ my.handle \in Nat
    BY <1>1, <2>1 DEF ClientTyped, Spot, LegacySpots
  <2>3. PatternBytes \in Nat /\ 0 \in Nat
    BY ClientAssumption, DeviceAssumption
  <2>4. regs[my.guard][1] \in StageRegs /\ regs[my.guard][2] \in Nat
    BY <2>2, <2>3 DEF StageRegs
  <2>5. Len(regs) = 3
    OBVIOUS
  <2> HIDE DEF regs
  <2>6. [AnyNext]_vars /\ Steady /\ risk' = 0
    BY <1>r, <2>1, <2>4, DoesF0
  <2>7. /\ DOMAIN my' = LocalNames /\ my'.guard = my.guard + 1
        /\ my'.attempt = my.attempt /\ my'.firstJob = my.firstJob /\ my'.handle = my.handle
        /\ my'.legacy = my.legacy /\ my'.prime = my.prime /\ my'.polls = my.polls
    BY <1>1, <2>1 DEF ClientTyped, LocalNames
  <2>8. at' \in {"uploadExec", "uploadArgs"} /\ (at' = "uploadArgs" => my.guard # 3)
    BY <2>1, <2>5
  <2>9. Spot' = at'
    BY <2>8 DEF Spot
  <2>10. /\ vote' = vote /\ my'.guard \in Nat
         /\ at' = "uploadArgs" => my'.guard \in {1, 2, 3}
    BY <2>1, <2>2, <2>7, <2>8
  <2>11. /\ my'.attempt \in Nat /\ my'.firstJob \in Nat /\ my'.handle \in Nat
         /\ my'.polls \in Nat /\ my'.legacy \in BOOLEAN /\ my'.prime \in BOOLEAN /\ my'.legacy
    BY <1>1, <2>2, <2>7 DEF ClientTyped
  <2>12. ClientTyped'
    BY <1>1, <2>7, <2>8, <2>9, <2>10, <2>11 DEF ClientTyped, LegacySpots, TripSpots
  <2> QED BY <2>1, <2>2, <2>6, <2>8, <2>11, <2>12, LegacyStep
<1>7. CASE ReadChecksum
  <2> DEFINE sum == [status |-> Ok, seq |-> 0, job |-> 0,
                     checksum |-> IF Len(Value) = 2 THEN Value[2] ELSE << >>]
  <2>1. /\ at = "uploaded" /\ at' = "free" /\ vote' = vote /\ my' = [my EXCEPT !.record = sum]
        /\ UNCHANGED <<cardVars, risk>>
    BY <1>7, Zenon DEF ReadChecksum, GoTo, NoTransaction
  <2> HIDE DEF sum
  <2>2. my.legacy
    BY <1>1, <2>1 DEF ClientTyped, Spot, LegacySpots
  <2>3. /\ DOMAIN my' = LocalNames /\ my'.guard = my.guard
        /\ my'.attempt = my.attempt /\ my'.firstJob = my.firstJob /\ my'.handle = my.handle
        /\ my'.legacy = my.legacy /\ my'.prime = my.prime /\ my'.polls = my.polls
    BY <1>1, <2>1 DEF ClientTyped, LocalNames
  <2>4. ClientTyped'
    BY <1>1, <2>1, <2>3 DEF ClientTyped, Spot, LegacySpots, TripSpots
  <2> QED BY <1>r, <1>2, <2>1, <2>2, <2>3, <2>4, LegacyStep
<1>8. CASE Report
  <2> DEFINE verdict == IF RecordOk /\ my.record.checksum = Pattern THEN "pass" ELSE "fail"
  <2>1. at = "end" /\ Return(verdict, FALSE)
    BY <1>8 DEF Report
  <2>2. verdict = "pass" /\ ~my.legacy => my.record # NoRecord /\ my.record.status = Ok
    BY DEF RecordOk, NoRecord, Ok, BadBlock
  <2> HIDE DEF verdict
  <2> QED BY <2>1, <2>2, ReturnStep DEF Busy
<1>9. CASE Probed /\ Value # Number(ProbeValues[my.guard + 1])
  <2>1. at = "probed" /\ Return("fail", FALSE)
    BY <1>9 DEF Probed
  <2> QED BY <2>1, ReturnStep DEF Busy
<1>10. CASE Probed /\ Value = Number(ProbeValues[my.guard + 1])
  <2>1. /\ at = "probed" /\ my' = [my EXCEPT !.guard = @ + 1]
        /\ at' = (IF my.guard + 1 = Len(ProbeValues) THEN "alloc" ELSE "probe") /\ vote' = vote
        /\ UNCHANGED <<cardVars, risk>>
    BY <1>10 DEF Probed, GoTo, NoTransaction
  <2>2. my.legacy /\ my.guard \in {0, 1} /\ Len(ProbeValues) = 2
    BY <1>1, <2>1 DEF ClientTyped, Spot, LegacySpots, ProbeValues
  <2>3. /\ DOMAIN my' = LocalNames /\ my'.guard = my.guard + 1
        /\ my'.attempt = my.attempt /\ my'.firstJob = my.firstJob /\ my'.handle = my.handle
        /\ my'.legacy = my.legacy /\ my'.prime = my.prime /\ my'.polls = my.polls
    BY <1>1, <2>1 DEF ClientTyped, LocalNames
  <2>4. at' \in {"alloc", "probe"} /\ (at' = "probe" => my.guard = 0) /\ Spot' = at'
    BY <2>1, <2>2 DEF Spot
  <2>5. /\ vote' = vote /\ my'.guard \in Nat
        /\ at' = "probe" => my'.guard \in {0, 1}
    BY <2>1, <2>2, <2>3, <2>4
  <2>6. /\ my'.attempt \in Nat /\ my'.firstJob \in Nat /\ my'.handle \in Nat
        /\ my'.polls \in Nat /\ my'.legacy \in BOOLEAN /\ my'.prime \in BOOLEAN /\ my'.legacy
    BY <1>1, <2>2, <2>3 DEF ClientTyped
  <2>7. ClientTyped'
    BY <1>1, <2>3, <2>4, <2>5, <2>6 DEF ClientTyped, LegacySpots, TripSpots
  <2> QED BY <1>r, <1>2, <2>1, <2>2, <2>4, <2>6, <2>7, LegacyStep
<1>11. CASE GiveUp
  <2>1. at = "polled" /\ Return("fail", TRUE) /\ my.polls # 0
    <3>1. at = "polled" /\ Return("fail", TRUE) /\ my.polls + 1 = MaxPolls
      BY <1>11 DEF GiveUp
    <3>2. MaxPolls # 1 /\ 0 + 1 = 1
      BY ClientAssumption
    <3> QED BY <3>1, <3>2
  <2> QED BY <2>1, ReturnStep DEF Busy
<1> QED
  BY <1>3, <1>4, <1>5, <1>6, <1>7, <1>8, <1>9, <1>10, <1>11
-----------------------------------------------------------------------------
(***************************************************************************)
(* The block round trip.                                                   *)
(***************************************************************************)
LEMMA JobIsBlock ==
  ASSUME ClientTyped
  PROVE  /\ ZeroBlock \in Block /\ ZeroBlock.images = << >>
         /\ JobBlock \in Block /\ Len(JobBlock.images) = 1
         /\ JobBlock.images[1].seq = my.attempt + 1
<1> DEFINE d == [magic |-> "good", inline |-> TRUE, seq |-> 1 + my.attempt,
                 input |-> my.handle, inOff |-> 0, inLen |-> PatternBytes,
                 output |-> 0, outOff |-> 0, outLen |-> PatternBytes, data |-> PatternByte]
<1>1. /\ 1 + my.attempt \in Nat /\ my.attempt + 1 = 1 + my.attempt
      /\ my.handle \in Nat /\ PatternBytes \in Nat /\ PatternByte \in Bytes
      /\ BlockBytes \in Nat /\ DescriptorBytes + PatternBytes \in Nat /\ 0 \in Nat
  BY ClientAssumption, DeviceAssumption DEF ClientTyped, PatternByte
<1>2. d \in Descriptor /\ d.seq = 1 + my.attempt
  BY <1>1 DEF Descriptor
<1> HIDE DEF d
<1>3. <<d>> \in Seq(Descriptor) /\ Len(<<d>>) = 1 /\ <<d>>[1] = d /\ << >> \in Seq(Descriptor)
  BY <1>2
<1>4. JobBlock = [selector |-> 0, len |-> DescriptorBytes + PatternBytes, supplied |-> 0,
                  images |-> <<d>>]
  BY Zenon DEF JobBlock, d
<1>5. JobBlock.images = <<d>> /\ JobBlock \in Block
  BY <1>1, <1>3, <1>4 DEF Block
<1>6. ZeroBlock \in Block /\ ZeroBlock.images = << >>
  BY <1>1, <1>3 DEF ZeroBlock, Block
<1> QED
  BY <1>1, <1>2, <1>3, <1>5, <1>6

(* The block that clears the cartridge's buffer has no job.                *)
LEMMA PrimeF4Step ==
  ASSUME ClientInv, UNCHANGED silence, PrimeF4
  PROVE  ClientInv'
<1>1. /\ IInv /\ ClientTyped /\ VoteInv /\ BlockKnown /\ FewRecords
      /\ my.legacy \/ TripInv
      /\ my.legacy \/ ~Heard \/ HeardInv
  BY DEF ClientInv
<1>2. at = "prime" /\ at' = "block" /\ vote' = vote /\ my' = my /\ F4(ZeroBlock)
  BY DEF PrimeF4, GoTo
<1>3. Spot = "prime" /\ Spot' = "block" /\ Heard' = Heard
  BY <1>2 DEF Spot, Heard
<1>4. ~my.legacy
  BY <1>1, <1>3 DEF ClientTyped, TripSpots
<1>5. /\ [AnyNext]_vars /\ UNCHANGED <<nextJob, completions, done>> /\ risk' \in {0, 1, 2}
      /\ \/ UNCHANGED <<phase, block>>
         \/ /\ Heard /\ phase = "idle" /\ phase' = "parse" /\ block'.images = << >>
  <2>1. ZeroBlock \in Block /\ ZeroBlock.images = << >>
    BY <1>1, JobIsBlock
  <2>2. [AnyNext]_vars /\ UNCHANGED <<nextJob, completions, done>> /\ risk' \in {0, 1, 2}
    BY <1>1, <1>2, <2>1, DoesF4 DEF VoteInv
  <2>3. \/ UNCHANGED <<phase, block>>
        \/ Heard /\ phase = "idle" /\ phase' = "parse" /\ block'.images = ZeroBlock.images
    BY <1>1, <1>2, <2>1, DoesF4 DEF VoteInv
  <2> QED BY <2>1, <2>2, <2>3
<1>6. IInv'
  BY <1>1, <1>5, NextIInv
<1>7. MayRun' => MayRun
  BY <1>5 DEF MayRun
<1>8. Heard => phase = "idle" /\ ~MayRun
  BY <1>1, <1>3 DEF BlockKnown, MayRun, Busy
<1>9. ClientTyped' /\ VoteInv'
  BY <1>1, <1>2, <1>3, <1>5 DEF ClientTyped, VoteInv, LegacySpots, TripSpots
<1>10. Len(block'.images) <= 1
  <2>1. Len(<< >>) <= 1
    OBVIOUS
  <2> QED BY <1>1, <1>5, <2>1 DEF BlockKnown
<1>11. BlockKnown' /\ FewRecords'
  BY <1>1, <1>2, <1>3, <1>5, <1>7, <1>8, <1>4, <1>10 DEF BlockKnown, FewRecords, Busy
<1>12. TripInv'
  <2>1. my.record = NoRecord /\ TripInv
    BY <1>1, <1>3, <1>4 DEF TripInv, Ending
  <2> QED BY <1>2, <1>3, <1>5, <1>7, <2>1 DEF TripInv
<1>13. ASSUME Heard PROVE HeardInv'
  <2>1. nextJob = my.firstJob /\ completions = << >>
    BY <1>1, <1>3, <1>4, <1>13 DEF HeardInv, Draining, Preparing
  <2> QED BY <1>2, <1>3, <1>5, <1>7, <1>8, <1>13, <2>1
          DEF HeardInv, Draining, Preparing, Fetching
<1> QED
  BY <1>3, <1>6, <1>9, <1>11, <1>12, <1>13 DEF ClientInv

(* The block with the job goes out when no record waits and no other block *)
(* can still run.                                                          *)
LEMMA SendF4Step ==
  ASSUME ClientInv, UNCHANGED silence, SendF4
  PROVE  ClientInv'
<1>1. /\ IInv /\ ClientTyped /\ VoteInv /\ BlockKnown /\ FewRecords
      /\ my.legacy \/ TripInv
      /\ my.legacy \/ ~Heard \/ HeardInv
  BY DEF ClientInv
<1>2. /\ at = "block" /\ at' = "poll" /\ vote' = vote /\ my' = [my EXCEPT !.polls = 0]
      /\ F4(JobBlock)
  BY DEF SendF4, GoTo
<1>3. Spot = "block" /\ Spot' = "poll" /\ Heard' = Heard
  BY <1>2 DEF Spot, Heard
<1>4. ~my.legacy
  BY <1>1, <1>3 DEF ClientTyped, TripSpots
<1>5. /\ [AnyNext]_vars /\ UNCHANGED <<nextJob, completions, done>> /\ risk' \in {0, 1, 2}
      /\ \/ UNCHANGED <<phase, block>>
         \/ /\ Heard /\ phase = "idle" /\ phase' = "parse" /\ block'.images = JobBlock.images
  <2>1. JobBlock \in Block
    BY <1>1, JobIsBlock
  <2>2. [AnyNext]_vars /\ UNCHANGED <<nextJob, completions, done>> /\ risk' \in {0, 1, 2}
    BY <1>1, <1>2, <2>1, DoesF4 DEF VoteInv
  <2>3. \/ UNCHANGED <<phase, block>>
        \/ Heard /\ phase = "idle" /\ phase' = "parse" /\ block'.images = JobBlock.images
    BY <1>1, <1>2, <2>1, DoesF4 DEF VoteInv
  <2> QED BY <2>2, <2>3
<1>6. IInv'
  BY <1>1, <1>5, NextIInv
<1>7. /\ DOMAIN my' = LocalNames /\ my'.attempt = my.attempt
      /\ my'.guard = my.guard /\ my'.handle = my.handle /\ my'.firstJob = my.firstJob
      /\ my'.legacy = my.legacy /\ my'.prime = my.prime /\ my'.record = my.record
      /\ my'.outcome = my.outcome /\ my'.f4Attempts = my.f4Attempts
      /\ my'.polls = 0 /\ 0 \in Nat
  BY <1>1, <1>2 DEF ClientTyped, LocalNames
<1>8. Len(JobBlock.images) = 1 /\ JobBlock.images[1].seq = my.attempt + 1
  BY <1>1, JobIsBlock
<1>9. Heard => ~MayRun /\ nextJob = my.firstJob /\ completions = << >>
  BY <1>1, <1>3, <1>4 DEF BlockKnown, HeardInv, Preparing
<1>10. ClientTyped' /\ VoteInv'
  BY <1>1, <1>2, <1>3, <1>4, <1>5, <1>7 DEF ClientTyped, VoteInv, LegacySpots, TripSpots
<1>11. Len(block'.images) <= 1
  <2>1. CASE UNCHANGED <<phase, block>>
    BY <1>1, <2>1 DEF BlockKnown
  <2>2. CASE block'.images = JobBlock.images
    <3>1. Len(block'.images) = 1
      BY <1>8, <2>2, Zenon
    <3> QED BY <3>1
  <2> QED BY <1>5, <2>1, <2>2
<1>12. MayRun' => MayRun \/ (Heard /\ block'.images = JobBlock.images)
  BY <1>5 DEF MayRun
<1>13. BlockKnown' /\ FewRecords'
  BY <1>1, <1>2, <1>3, <1>5, <1>9, <1>4, <1>7, <1>11, <1>12 DEF BlockKnown, FewRecords, Busy
<1>14. TripInv'
  <2>1. my.record = NoRecord /\ TripInv
    BY <1>1, <1>3, <1>4 DEF TripInv, Ending
  <2> QED BY <1>2, <1>3, <1>5, <1>7, <1>9, <1>12, <2>1 DEF TripInv
<1>15. ASSUME Heard PROVE HeardInv'
  <2>1. MayRun' => block'.images[1].seq = my.attempt + 1
    BY <1>8, <1>9, <1>12, <1>15
  <2> QED BY <1>2, <1>3, <1>5, <1>7, <1>9, <1>15, <2>1
          DEF HeardInv, Draining, Preparing, Fetching
<1> QED
  BY <1>3, <1>6, <1>10, <1>13, <1>14, <1>15 DEF ClientInv

(* What the program makes of the event depth.                              *)
LEMMA PolledStep ==
  ASSUME ClientInv, UNCHANGED silence, Answered \/ PollAgain \/ Resend
  PROVE  ClientInv'
<1>1. /\ IInv /\ ClientTyped /\ VoteInv /\ BlockKnown /\ FewRecords
      /\ my.legacy \/ TripInv
      /\ my.legacy \/ ~Heard \/ HeardInv
  BY DEF ClientInv
<1>2. at = "polled" /\ UNCHANGED cardVars /\ vote' = vote
  BY DEF Answered, PollAgain, Resend, GoTo
<1>3. Spot = "polled" /\ Heard' = Heard
  BY <1>2 DEF Spot, Heard
<1>4. ~my.legacy /\ TripInv
  BY <1>1, <1>3 DEF ClientTyped, TripSpots
<1>5. IInv'
  BY <1>1, <1>2, CardSame, NextIInv
<1>6. /\ MayRun' = MayRun /\ nextJob' = nextJob /\ completions' = completions
      /\ phase' = phase /\ block' = block
  BY <1>2, CardSame DEF Steady, MayRun
<1>7. /\ Heard => HeardInv
      /\ Heard /\ my.polls # 0 => /\ phase = "idle" /\ ~MayRun
                                 /\ Value = Number(Len(completions))
  BY <1>1, <1>2, <1>3, <1>4 DEF BlockKnown, MayRun, HeardInv
<1>8. Heard /\ my.polls # 0 => (completions = << >> <=> Value = Number(0))
  <2>1. completions \in Seq(Completion)
    BY <1>1 DEF IInv, TypeOK, QueueOK
  <2>2. completions = << >> <=> Len(completions) = 0
    BY <2>1
  <2>3. Number(Len(completions)) = Number(0) <=> Len(completions) = 0
    BY DEF Number
  <2> QED BY <1>7, <2>2, <2>3
<1>p. my.polls \in Nat /\ risk' = 1 /\ \A c : my'.attempt = my.attempt /\ my'.firstJob = my.firstJob
                                          => OwnRecord(c)' = OwnRecord(c)
  BY <1>1 DEF ClientTyped, Answered, PollAgain, Resend, OwnRecord
<1>9. my.record = NoRecord
  BY <1>3, <1>4 DEF TripInv, Ending
<1>10. CASE Answered
  <2>1. /\ at' = "fetch" /\ Value # Number(0)
        /\ my' = [my EXCEPT !.f4Attempts = my.attempt + 1]
    BY <1>10 DEF Answered, GoTo
  <2>2. /\ DOMAIN my' = LocalNames /\ my'.attempt = my.attempt
        /\ my'.guard = my.guard /\ my'.handle = my.handle /\ my'.firstJob = my.firstJob
        /\ my'.legacy = my.legacy /\ my'.prime = my.prime /\ my'.record = my.record
        /\ my'.f4Attempts = my.attempt + 1 /\ my'.polls = my.polls
    BY <1>1, <2>1 DEF ClientTyped, LocalNames
  <2>3. Spot' = "fetch" /\ at' # "read"
    BY <2>1 DEF Spot
  <2>4. ClientTyped' /\ VoteInv'
    BY <1>p, <1>1, <1>2, <1>4, <2>1, <2>2, <2>3 DEF ClientTyped, VoteInv, LegacySpots, TripSpots
  <2>5. BlockKnown' /\ FewRecords'
    BY <1>1, <1>3, <1>4, <1>6, <1>7, <2>1, <2>2, <2>3 DEF BlockKnown, FewRecords, Busy
  <2>6. TripInv'
    BY <1>4, <1>6, <1>9, <2>1, <2>2, <2>3 DEF TripInv
  <2>7. ASSUME Heard PROVE HeardInv'
    BY <1>p, <1>3, <1>6, <1>7, <2>1, <2>2, <2>3, <2>7
    DEF HeardInv, Draining, Preparing, Fetching
  <2> QED BY <1>3, <1>5, <2>4, <2>5, <2>6, <2>7 DEF ClientInv
<1>11. CASE PollAgain
  <2>1. at' = "poll" /\ my' = [my EXCEPT !.polls = @ + 1]
    BY <1>11 DEF PollAgain, GoTo
  <2>2. /\ DOMAIN my' = LocalNames /\ my'.attempt = my.attempt
        /\ my'.guard = my.guard /\ my'.handle = my.handle /\ my'.firstJob = my.firstJob
        /\ my'.legacy = my.legacy /\ my'.prime = my.prime /\ my'.record = my.record
        /\ my'.f4Attempts = my.f4Attempts /\ my'.polls = my.polls + 1
    BY <1>1, <2>1 DEF ClientTyped, LocalNames
  <2>3. Spot' = "poll" /\ at' # "read" /\ my.polls + 1 \in Nat
    BY <1>p, <2>1 DEF Spot
  <2>4. ClientTyped' /\ VoteInv'
    BY <1>p, <1>1, <1>2, <1>4, <2>1, <2>2, <2>3 DEF ClientTyped, VoteInv, LegacySpots, TripSpots
  <2>5. BlockKnown' /\ FewRecords'
    BY <1>1, <1>3, <1>4, <1>6, <1>7, <2>1, <2>2, <2>3 DEF BlockKnown, FewRecords, Busy
  <2>6. TripInv'
    BY <1>4, <1>6, <1>9, <2>1, <2>2, <2>3 DEF TripInv
  <2>7. ASSUME Heard PROVE HeardInv'
    BY <1>p, <1>3, <1>6, <1>7, <2>1, <2>2, <2>3, <2>7
    DEF HeardInv, Draining, Preparing, Fetching
  <2> QED BY <1>3, <1>5, <2>4, <2>5, <2>6, <2>7 DEF ClientInv
<1>12. CASE Resend
  <2>1. /\ at' = "prime" /\ my' = [my EXCEPT !.attempt = @ + 1] /\ Value = Number(0)
        /\ my.polls # 0
    BY <1>12, ClientAssumption DEF Resend, GoTo
  <2>2. /\ DOMAIN my' = LocalNames /\ my'.attempt = my.attempt + 1
        /\ my'.guard = my.guard /\ my'.handle = my.handle /\ my'.firstJob = my.firstJob
        /\ my'.legacy = my.legacy /\ my'.prime = my.prime /\ my'.record = my.record
        /\ my'.f4Attempts = my.f4Attempts /\ my'.polls = my.polls
    BY <1>1, <2>1 DEF ClientTyped, LocalNames
  <2>3. Spot' = "prime" /\ at' # "read" /\ my.attempt + 1 \in Nat
    BY <1>1, <2>1 DEF Spot, ClientTyped
  <2>4. ClientTyped' /\ VoteInv'
    BY <1>p, <1>1, <1>2, <1>4, <2>1, <2>2, <2>3 DEF ClientTyped, VoteInv, LegacySpots, TripSpots
  <2>5. BlockKnown' /\ FewRecords'
    BY <1>1, <1>3, <1>4, <1>6, <1>7, <2>1, <2>2, <2>3 DEF BlockKnown, FewRecords, Busy
  <2>6. TripInv'
    BY <1>4, <1>6, <1>9, <2>1, <2>2, <2>3 DEF TripInv
  <2>7. ASSUME Heard PROVE HeardInv'
    BY <1>3, <1>6, <1>7, <1>8, <2>1, <2>2, <2>3, <2>7
    DEF HeardInv, Draining, Preparing, Fetching
  <2> QED BY <1>3, <1>5, <2>4, <2>5, <2>6, <2>7 DEF ClientInv
<1> QED
  BY <1>10, <1>11, <1>12

(* The transaction after a read of the event depth is not lost, so the     *)
(* drain leaves the queue empty.                                           *)
LEMMA DrainReadStep ==
  ASSUME ClientInv, UNCHANGED silence, DrainRead
  PROVE  ClientInv'
<1>1. /\ IInv /\ ClientTyped /\ VoteInv /\ BlockKnown /\ FewRecords
      /\ my.legacy \/ TripInv
      /\ my.legacy \/ ~Heard \/ HeardInv
  BY DEF ClientInv
<1>2. /\ at \in {"drainRead", "drainPrimed"} /\ at' = "drain" /\ vote' = vote
      /\ my' = [my EXCEPT !.guard = @ + 1]
  BY DEF DrainRead, GoTo
<1>3. PICK record \in Records : F5(BlockBytes, record)
  BY DEF DrainRead
<1>4. Spot = at /\ Spot' = "drain" /\ Heard' = Heard /\ at' # "read"
  BY <1>2 DEF Spot, Heard
<1>5. ~my.legacy /\ TripInv
  BY <1>1, <1>2, <1>4 DEF ClientTyped, TripSpots
<1>r. risk = 0
  BY <1>2, <1>5 DEF TripInv
<1>6. /\ [AnyNext]_vars /\ UNCHANGED <<nextJob, phase, block, done>> /\ risk' = 0
      /\ \/ Heard /\ phase = "idle" /\ completions' = << >>
         \/ Lost /\ completions' = completions
  <2>1. /\ TypeOK /\ Len(completions) <= 1 /\ BlockBytes # 0
        /\ BlockBytes \in {0, DescriptorBytes, BlockBytes}
    BY <1>1, DeviceAssumption, ClientAssumption DEF IInv, FewRecords
  <2>2. [AnyNext]_vars /\ UNCHANGED <<nextJob, phase, block, done>> /\ risk' = 0
    BY <1>r, <1>3, <2>1, DoesF5
  <2>3. \/ Heard /\ phase = "idle" /\ completions' = << >>
        \/ Lost /\ record = NoRecord /\ UNCHANGED completions
    BY <1>r, <1>3, <2>1, DoesF5
  <2> QED BY <2>2, <2>3
<1>7. Heard => completions' = << >>
  BY <1>r, <1>6 DEF Lost, Missed
<1>8. IInv'
  BY <1>1, <1>6, NextIInv
<1>9. /\ DOMAIN my' = LocalNames /\ my'.attempt = my.attempt
      /\ my'.guard = my.guard + 1 /\ my'.handle = my.handle /\ my'.firstJob = my.firstJob
      /\ my'.legacy = my.legacy /\ my'.prime = my.prime /\ my'.record = my.record
      /\ my'.f4Attempts = my.f4Attempts /\ my'.polls = my.polls
  BY <1>1, <1>2 DEF ClientTyped, LocalNames
<1>10. my'.guard \in Nat
  BY <1>1, <1>9 DEF ClientTyped
<1>11. ClientTyped' /\ VoteInv'
  BY <1>1, <1>2, <1>4, <1>5, <1>6, <1>9, <1>10 DEF ClientTyped, VoteInv, LegacySpots, TripSpots
<1>12. MayRun' = MayRun /\ (Heard => ~MayRun)
  BY <1>1, <1>2, <1>4, <1>6 DEF MayRun, BlockKnown, Busy
<1>13. Len(completions') <= 1 /\ (completions = << >> => completions' = << >>)
  <2>1. Len(<< >>) <= 1
    OBVIOUS
  <2> QED BY <1>1, <1>6, <2>1 DEF FewRecords
<1>14. BlockKnown' /\ FewRecords'
  BY <1>1, <1>2, <1>4, <1>6, <1>12, <1>13 DEF BlockKnown, FewRecords, Busy
<1>15. TripInv'
  <2>1. my.record = NoRecord
    BY <1>2, <1>4, <1>5 DEF TripInv, Ending
  <2> QED BY <1>2, <1>4, <1>5, <1>6, <1>9, <1>12, <2>1 DEF TripInv
<1>16. ASSUME Heard PROVE HeardInv'
  <2>1. nextJob = my.firstJob
    BY <1>1, <1>2, <1>4, <1>5, <1>16 DEF HeardInv, Draining
  <2> QED BY <1>2, <1>4, <1>6, <1>7, <1>9, <1>12, <1>16, <2>1
          DEF HeardInv, Draining, Preparing, Fetching
<1> QED
  BY <1>4, <1>8, <1>11, <1>14, <1>15, <1>16 DEF ClientInv

(* The record a round trip fetches is its own.                             *)
LEMMA FetchF5Step ==
  ASSUME ClientInv, UNCHANGED silence, FetchF5
  PROVE  ClientInv'
<1>1. /\ IInv /\ ClientTyped /\ VoteInv /\ BlockKnown /\ FewRecords
      /\ my.legacy \/ TripInv
      /\ my.legacy \/ ~Heard \/ HeardInv
  BY DEF ClientInv
<1>2. at \in {"fetch", "fetchPrimed"} /\ at' = "free" /\ vote' = vote
  BY DEF FetchF5, GoTo
<1>3. PICK record \in Records :
        F5(DescriptorBytes, record) /\ my' = [my EXCEPT !.record = record]
  BY DEF FetchF5
<1>4. Spot = at /\ Spot' = "free" /\ Heard' = Heard /\ at' # "read"
  BY <1>2 DEF Spot, Heard
<1>5. ~my.legacy /\ TripInv
  BY <1>1, <1>2, <1>4 DEF ClientTyped, TripSpots
<1>r. risk \in {0, 1}
  BY <1>1, <1>2, <1>4 DEF VoteInv
<1>6. /\ [AnyNext]_vars /\ UNCHANGED <<nextJob, phase, block, done>> /\ risk' = 0
      /\ \/ Heard /\ phase = "idle" /\ completions' = << >>
         \/ record = NoRecord /\ completions' = completions
      /\ record # NoRecord => completions # << >> /\ record = completions[1]
  <2>1. /\ TypeOK /\ Len(completions) <= 1 /\ DescriptorBytes # 0
        /\ DescriptorBytes \in {0, DescriptorBytes, BlockBytes}
    BY <1>1, DeviceAssumption DEF IInv, FewRecords
  <2>2. [AnyNext]_vars /\ UNCHANGED <<nextJob, phase, block, done>> /\ risk' = 0
    BY <1>r, <1>3, <2>1, DoesF5
  <2>3. \/ Heard /\ phase = "idle" /\ completions' = << >>
        \/ Lost /\ record = NoRecord /\ UNCHANGED completions
    BY <1>r, <1>3, <2>1, DoesF5
  <2>4. record # NoRecord => completions # << >> /\ record = completions[1]
    BY <1>r, <1>3, <2>1, DoesF5
  <2> QED BY <2>2, <2>3, <2>4
<1>7. IInv'
  BY <1>1, <1>6, NextIInv
<1>8. /\ DOMAIN my' = LocalNames /\ my'.attempt = my.attempt
      /\ my'.guard = my.guard /\ my'.handle = my.handle /\ my'.firstJob = my.firstJob
      /\ my'.legacy = my.legacy /\ my'.prime = my.prime /\ my'.record = record
      /\ my'.f4Attempts = my.f4Attempts /\ my'.polls = my.polls
  BY <1>1, <1>3 DEF ClientTyped, LocalNames
<1>9. ClientTyped' /\ VoteInv'
  BY <1>1, <1>2, <1>4, <1>5, <1>6, <1>8 DEF ClientTyped, VoteInv, LegacySpots, TripSpots
<1>10. MayRun' = MayRun
  BY <1>6 DEF MayRun
<1>11. Len(completions') <= 1 /\ (completions = << >> => completions' = << >>)
  <2>1. Len(<< >>) <= 1
    OBVIOUS
  <2> QED BY <1>1, <1>6, <2>1 DEF FewRecords
<1>12. BlockKnown' /\ FewRecords'
  BY <1>1, <1>2, <1>4, <1>6, <1>5, <1>8, <1>10, <1>11 DEF BlockKnown, FewRecords, Busy
<1>13. record # NoRecord => /\ phase' = "idle" /\ completions' = << >>
                            /\ record.seq = my.f4Attempts
                            /\ record.status = Ok => record.job = my.firstJob
  <2>1. SUFFICES ASSUME record # NoRecord
                 PROVE  /\ phase' = "idle" /\ completions' = << >>
                        /\ record.seq = my.f4Attempts
                        /\ record.status = Ok => record.job = my.firstJob
    OBVIOUS
  <2>2. /\ Heard /\ phase' = "idle" /\ completions' = << >> /\ record = completions[1]
        /\ ~MayRun /\ completions # << >>
    BY <1>6, <2>1 DEF MayRun
  <2>3. OwnRecord(record) /\ my.f4Attempts = my.attempt + 1
    BY <1>1, <1>2, <1>4, <1>5, <2>2 DEF HeardInv, Fetching
  <2> QED BY <2>2, <2>3 DEF OwnRecord
<1>14. TripInv'
  BY <1>2, <1>4, <1>5, <1>6, <1>8, <1>10, <1>13 DEF TripInv, Ending
<1>15. HeardInv'
  BY <1>2, <1>4 DEF HeardInv, Draining, Preparing, Fetching
<1> QED
  BY <1>7, <1>9, <1>12, <1>14, <1>15 DEF ClientInv
-----------------------------------------------------------------------------
(***************************************************************************)
(* The cartridge works on its block: it runs the one descriptor at most    *)
(* once, and adds one record to an empty queue.                            *)
(***************************************************************************)
LEMMA CartridgeRuns ==
  ASSUME IInv, Len(block.images) <= 1, FewRecords, RunDescriptor
  PROVE  /\ MayRun /\ ~MayRun' /\ UNCHANGED <<phase, block>>
         /\ \E c \in Completion :
              /\ Len(completions') = 1 /\ completions'[1] = c
              /\ c.seq = block.images[1].seq
              /\ \/ c.status # Ok /\ UNCHANGED nextJob
                 \/ c.status = Ok /\ c.job = nextJob /\ nextJob' = nextJob + 1
<1>0. TypeOK /\ MemorySound /\ BlockInv /\ QueueOK /\ dropped \in BOOLEAN
  BY DEF IInv, TypeOK, BlockOK
<1>1. /\ phase = "run" /\ done < Len(batch) /\ done' = done + 1
      /\ UNCHANGED <<phase, block, cursor, batch, entry>>
  BY <1>0, RunEffect
<1>2. PICK c \in Completion : PushCompletion(c) /\ c.seq = batch[done + 1].seq /\ Outcome(c)
  BY <1>0, RunEffect
<1>3. /\ Len(batch) <= Len(block.images) /\ Len(batch) \in Nat /\ done \in Nat
      /\ Len(block.images) \in Nat /\ block.images \in Seq(Descriptor)
  BY <1>0, <1>1 DEF BlockInv, TypeOK, BlockOK, Block
<1>4. done = 0 /\ Len(batch) = 1 /\ Len(block.images) = 1
  <2>1. \A i, j, k \in Nat : i < j /\ j <= k /\ k <= 1 => i = 0 /\ j = 1 /\ k = 1
    OBVIOUS
  <2>2. done < Len(batch) /\ Len(batch) <= Len(block.images) /\ Len(block.images) <= 1
    BY <1>1, <1>3
  <2> QED BY <1>3, <2>1, <2>2, Zenon
<1>5. batch[1] = block.images[1]
  BY <1>0, <1>1, <1>4 DEF BlockInv
<1>6. MayRun /\ ~MayRun'
  <2>1. block.images # << >>
    BY <1>4
  <2> QED BY <1>1, <1>4, <2>1 DEF MayRun
<1>7. completions = << >> /\ Len(completions) = 0 /\ 0 < QueueDepth
  BY <1>6, DeviceAssumption DEF FewRecords
<1>8. Len(completions') = 1 /\ completions'[1] = c
  <2>1. /\ Len(completions') = Len(completions) + 1
        /\ completions'[Len(completions) + 1] = c
    BY <1>0, <1>2, <1>7, PushEffect
  <2> QED BY <1>7, <2>1
<1>9. c.seq = block.images[1].seq
  BY <1>2, <1>4, <1>5
<1>10. \/ c.status # Ok /\ UNCHANGED nextJob
       \/ c.status = Ok /\ c.job = nextJob /\ nextJob' = nextJob + 1
  BY <1>2 DEF Outcome
<1> QED
  BY <1>1, <1>6, <1>8, <1>9, <1>10

LEMMA CartridgeReads ==
  ASSUME IInv, ParseDescriptor \/ EndParse \/ EndRun
  PROVE  /\ phase # "idle" /\ UNCHANGED <<nextJob, completions>>
         /\ MayRun' => MayRun
         /\ block' = block \/ (phase' = "idle" /\ block'.images = << >>)
<1>1. /\ phase # "idle" /\ UNCHANGED <<nextJob, completions>>
      /\ \/ block' = block /\ done' = done
         \/ phase' = "idle" /\ block' = NoBlock
  BY DEF ParseDescriptor, EndParse, EndRun, EndBlock, core
<1> QED
  BY <1>1 DEF MayRun, NoBlock

LEMMA CartridgeStep ==
  ASSUME ClientInv, Cartridge
  PROVE  ClientInv'
<1>1. /\ IInv /\ ClientTyped /\ VoteInv /\ BlockKnown /\ FewRecords
      /\ my.legacy \/ TripInv
      /\ my.legacy \/ ~Heard \/ HeardInv
  BY DEF ClientInv
<1>2. Process /\ at' = at /\ vote' = vote /\ my' = my /\ risk' = risk /\ silence' = silence
  BY DEF Cartridge, CardProcess
<1>3. Spot' = Spot /\ Heard' = Heard
  BY <1>2 DEF Spot, Heard
<1>4. IInv'
  BY <1>1, <1>2, NextIInv DEF AnyNext
<1>5. ClientTyped' /\ VoteInv'
  BY <1>1, <1>2, <1>3 DEF ClientTyped, VoteInv, Value, BehindBlock
<1>6. phase # "idle"
  BY <1>2 DEF Process, ParseDescriptor, EndParse, EndRun, RunDescriptor
<1>7. Heard => ~my.legacy /\ Spot \in Busy /\ ~(at = "polled" /\ my.polls # 0)
  BY <1>1, <1>6 DEF BlockKnown
<1>8. ~my.legacy => my.record = NoRecord /\ TripInv
  BY <1>1, <1>6 DEF TripInv
<1>9. CASE RunDescriptor
  <2>1. Len(block.images) <= 1
    BY <1>1 DEF BlockKnown
  <2>2. MayRun /\ ~MayRun' /\ UNCHANGED <<phase, block>>
    BY <1>1, <1>9, <2>1, CartridgeRuns
  <2>3. PICK c \in Completion :
              /\ Len(completions') = 1 /\ completions'[1] = c
              /\ c.seq = block.images[1].seq
              /\ \/ c.status # Ok /\ UNCHANGED nextJob
                 \/ c.status = Ok /\ c.job = nextJob /\ nextJob' = nextJob + 1
    BY <1>1, <1>9, <2>1, CartridgeRuns
  <2>4. completions' # << >> /\ Len(completions') <= 1
    <3>1. Len(<< >>) # 1 /\ 1 <= 1
      OBVIOUS
    <3> QED BY <2>3, <3>1
  <2>5. BlockKnown' /\ FewRecords'
    BY <1>1, <1>2, <1>3, <1>7, <2>2, <2>4 DEF BlockKnown, FewRecords
  <2>6. ~my.legacy => TripInv'
    <3>1. SUFFICES ASSUME ~my.legacy PROVE TripInv'
      OBVIOUS
    <3>2. nextJob = my.firstJob /\ my.firstJob \in Nat
      BY <1>1, <2>2, <3>1 DEF TripInv, ClientTyped
    <3>3. nextJob' <= my.firstJob + 1
      BY <2>3, <3>2
    <3> QED BY <1>2, <1>3, <1>8, <2>2, <3>1, <3>3 DEF TripInv
  <2>7. ASSUME ~my.legacy, Heard PROVE HeardInv'
    <3>1. Spot \in Busy \ {"block"} /\ HeardInv
      BY <1>1, <1>7, <2>2, <2>7 DEF BlockKnown
    <3> SUFFICES ASSUME Spot # "free" PROVE HeardInv'
      BY <1>3, <3>1 DEF HeardInv, Draining, Preparing, Fetching, Busy, Spot
    <3>2. nextJob = my.firstJob /\ block.images[1].seq = my.attempt + 1
      BY <1>1, <2>2, <2>7, <3>1 DEF TripInv, HeardInv, Busy, Fetching
    <3>3. OwnRecord(c)
      BY <2>3, <3>2 DEF OwnRecord
    <3>4. OwnRecord(completions[1])'
      BY <1>2, <2>3, <3>3 DEF OwnRecord
    <3>5. at' # "drained" /\ ~(at' = "polled" /\ my'.polls # 0)
      BY <1>2, <1>7, <2>7, <3>1 DEF Spot, Busy
    <3> QED BY <1>2, <1>3, <2>2, <2>4, <3>1, <3>4, <3>5
            DEF HeardInv, Draining, Preparing, Fetching, Busy
  <2> QED BY <1>2, <1>3, <1>4, <1>5, <2>5, <2>6, <2>7 DEF ClientInv
<1>10. CASE ParseDescriptor \/ EndParse \/ EndRun
  <2>1. /\ UNCHANGED <<nextJob, completions>> /\ (MayRun' => MayRun)
        /\ block' = block \/ (phase' = "idle" /\ block'.images = << >>)
    BY <1>1, <1>10, CartridgeReads
  <2>2. Len(block'.images) <= 1
    <3>1. Len(<< >>) <= 1
      OBVIOUS
    <3> QED BY <1>1, <2>1, <3>1 DEF BlockKnown
  <2>3. BlockKnown' /\ FewRecords'
    BY <1>1, <1>2, <1>3, <1>7, <2>1, <2>2 DEF BlockKnown, FewRecords
  <2>4. ~my.legacy => TripInv'
    BY <1>2, <1>3, <1>8, <2>1 DEF TripInv
  <2>5. ASSUME ~my.legacy, Heard PROVE HeardInv'
    <3>1. at' # "drained" /\ ~(at' = "polled" /\ my'.polls # 0)
      BY <1>2, <1>7, <2>5 DEF Spot, Busy
    <3>2. MayRun => completions = << >> /\ nextJob = my.firstJob
      BY <1>1, <2>5 DEF FewRecords, TripInv
    <3>3. MayRun' => block' = block
      BY <2>1 DEF MayRun
    <3> QED BY <1>1, <1>2, <1>3, <1>7, <2>1, <2>5, <3>1, <3>2, <3>3
            DEF HeardInv, Draining, Preparing, Fetching, OwnRecord, Busy
  <2> QED BY <1>2, <1>3, <1>4, <1>5, <2>3, <2>4, <2>5 DEF ClientInv
<1> QED
  BY <1>2, <1>9, <1>10 DEF Process
-----------------------------------------------------------------------------
(***************************************************************************)
(* The ends of a stage, and the silence.                                   *)
(***************************************************************************)
LEMMA BeginStep ==
  ASSUME ClientInv, UNCHANGED silence, NEW legacy \in BOOLEAN, NEW prime \in BOOLEAN,
         Begin(legacy, prime)
  PROVE  ClientInv'
<1>1. IInv /\ ClientTyped /\ BlockKnown /\ FewRecords
  BY DEF ClientInv
<1>2. /\ at = "rest" /\ at' = (IF legacy THEN "probe" ELSE "drain") /\ vote' = vote
      /\ my' = Locals(legacy, prime) /\ risk' = 1 /\ UNCHANGED cardVars
  BY DEF Begin, GoTo
<1>3. /\ DOMAIN my' = LocalNames /\ my'.attempt = 0 /\ my'.guard = 0 /\ my'.handle = 0
      /\ my'.firstJob = nextJob /\ my'.legacy = legacy /\ my'.prime = prime
      /\ my'.record = NoRecord /\ my'.polls = 0
  BY <1>2 DEF Locals, LocalNames
<1>4. IInv'
  BY <1>1, <1>2, CardSame, NextIInv
<1>5. /\ Heard' = Heard /\ MayRun' = MayRun /\ completions' = completions
      /\ phase' = phase /\ block' = block /\ nextJob' = nextJob
  BY <1>2, CardSame DEF Steady, Heard, MayRun
<1>6. Spot = "rest" /\ Spot' = at' /\ at' # "read"
  BY <1>2 DEF Spot
<1>7. nextJob \in Nat /\ 0 \in Nat
  BY <1>1 DEF IInv, TypeOK, JobsOK
<1>8. ClientTyped' /\ VoteInv'
  BY <1>1, <1>2, <1>3, <1>6, <1>7 DEF ClientTyped, VoteInv, LegacySpots, TripSpots
<1>9. Heard => phase = "idle" /\ ~MayRun
  BY <1>1, <1>6 DEF BlockKnown, MayRun, Busy
<1>10. BlockKnown' /\ FewRecords'
  BY <1>1, <1>5, <1>9 DEF BlockKnown, FewRecords
<1>11. ~legacy => at' = "drain"
  BY <1>2
<1>12. ~legacy => TripInv'
  BY <1>3, <1>5, <1>6, <1>7, <1>11 DEF TripInv, Ending
<1>13. ~legacy /\ Heard => HeardInv'
  BY <1>3, <1>5, <1>6, <1>9, <1>11 DEF HeardInv, Draining, Preparing, Fetching
<1> QED
  BY <1>3, <1>4, <1>5, <1>8, <1>10, <1>12, <1>13 DEF ClientInv

LEMMA SilenceStep ==
  ASSUME ClientInv, FallSilent
  PROVE  ClientInv'
<1>1. /\ IInv /\ ClientTyped /\ VoteInv /\ BlockKnown /\ FewRecords
      /\ my.legacy \/ TripInv
  BY DEF ClientInv
<1>2. /\ at' = at /\ vote' = vote /\ risk' = risk /\ UNCHANGED cardVars /\ silence' = "now"
      /\ my' = my
  BY DEF FallSilent
<1>4. IInv'
  BY <1>1, <1>2, CardSame, NextIInv
<1>5. /\ MayRun' = MayRun /\ completions' = completions
      /\ phase' = phase /\ block' = block /\ nextJob' = nextJob
  BY <1>2, CardSame DEF Steady, MayRun
<1>6. Spot' = Spot /\ ~Heard'
  BY <1>2 DEF Spot, Heard
<1>7. ClientTyped' /\ VoteInv'
  BY <1>1, <1>2, <1>6 DEF ClientTyped, VoteInv, Value, BehindBlock
<1>8. BlockKnown' /\ FewRecords'
  BY <1>1, <1>5, <1>6 DEF BlockKnown, FewRecords
<1>9. my'.legacy \/ TripInv'
  BY <1>1, <1>2, <1>5, <1>6 DEF TripInv
<1> QED
  BY <1>4, <1>6, <1>7, <1>8, <1>9 DEF ClientInv

LEMMA ReturnOfCard ==
  ASSUME ClientInv, ComeBack
  PROVE  ClientInv'
<1>1. /\ IInv /\ ClientTyped /\ VoteInv /\ BlockKnown /\ FewRecords
      /\ my.legacy \/ TripInv
  BY DEF ClientInv
<1>2. /\ at = "rest" /\ phase = "idle" /\ at' = at /\ vote' = vote /\ my' = my /\ risk' = risk
      /\ UNCHANGED cardVars \/ Reset
  BY DEF ComeBack, CardReset
<1>3. [AnyNext]_vars
  BY <1>2, CardSame DEF AnyNext
<1>4. IInv'
  BY <1>1, <1>3, NextIInv
<1>5. /\ phase' = phase /\ block' = block /\ done' = done
      /\ \/ UNCHANGED <<nextJob, completions>>
         \/ nextJob' = 1 /\ completions' = << >>
  <2>1. CASE UNCHANGED cardVars
    BY <2>1, CardSame DEF Steady
  <2>2. CASE Reset
    BY <2>2 DEF Reset, blockVars
  <2> QED BY <1>2, <2>1, <2>2
<1>6. Spot' = "rest" /\ ~MayRun /\ ~MayRun'
  BY <1>2, <1>5 DEF Spot, MayRun
<1>7. ClientTyped' /\ VoteInv'
  BY <1>1, <1>2, <1>6 DEF ClientTyped, VoteInv, Spot, Value, BehindBlock
<1>8. Len(completions') <= 1
  <2>1. Len(<< >>) <= 1
    OBVIOUS
  <2> QED BY <1>1, <1>5, <2>1 DEF FewRecords
<1>9. BlockKnown' /\ FewRecords'
  BY <1>1, <1>2, <1>5, <1>6, <1>8 DEF BlockKnown, FewRecords
<1>10. my.firstJob \in Nat /\ 1 <= my.firstJob + 1
  BY <1>1 DEF ClientTyped
<1>11. my'.legacy \/ TripInv'
  BY <1>1, <1>2, <1>5, <1>6, <1>10 DEF TripInv, Ending
<1>12. HeardInv'
  BY <1>2, <1>6 DEF HeardInv, Draining, Preparing, Fetching
<1> QED
  BY <1>4, <1>7, <1>9, <1>11, <1>12 DEF ClientInv

LEMMA ClientStep == ClientInv /\ [ClientNext]_clientVars => ClientInv'
<1> SUFFICES ASSUME ClientInv, [ClientNext]_clientVars PROVE ClientInv'
  OBVIOUS
<1>1. CASE UNCHANGED clientVars
  <2>1. /\ IInv /\ ClientTyped /\ VoteInv /\ BlockKnown /\ FewRecords
        /\ my.legacy \/ TripInv
        /\ my.legacy \/ ~Heard \/ HeardInv
    BY DEF ClientInv
  <2>2. /\ at' = at /\ vote' = vote /\ my' = my /\ risk' = risk /\ silence' = silence
        /\ UNCHANGED cardVars
    BY <1>1 DEF clientVars
  <2>3. UNCHANGED vars /\ Steady
    BY <2>2, CardSame
  <2>4. IInv'
    BY <2>1, <2>3, NextIInv
  <2>5. /\ Spot' = Spot /\ Heard' = Heard /\ MayRun' = MayRun /\ nextJob' = nextJob
        /\ completions' = completions /\ phase' = phase /\ block' = block
    BY <2>2, <2>3 DEF Steady, Spot, Heard, MayRun
  <2>6. ClientTyped' /\ VoteInv'
    BY <2>1, <2>2, <2>5 DEF ClientTyped, VoteInv, Value, BehindBlock
  <2>7. BlockKnown' /\ FewRecords'
    BY <2>1, <2>2, <2>5 DEF BlockKnown, FewRecords
  <2>8. my'.legacy \/ TripInv'
    BY <2>1, <2>2, <2>5 DEF TripInv
  <2>9. my'.legacy \/ ~Heard' \/ HeardInv'
    BY <2>1, <2>2, <2>5 DEF HeardInv, OwnRecord, Value
  <2> QED BY <2>4, <2>6, <2>7, <2>8, <2>9 DEF ClientInv
<1>2. CASE Running
  BY <1>2, ReadStep, PlainStep, LocalStep, PrimeF4Step, SendF4Step, PolledStep,
     DrainReadStep, FetchF5Step
  DEF Running, Program
<1>3. CASE Cartridge
  BY <1>3, CartridgeStep
<1>4. CASE Begin(TRUE, FALSE) /\ UNCHANGED silence
  BY <1>4, BeginStep
<1>5. CASE \E prime \in BOOLEAN : Begin(FALSE, prime) /\ UNCHANGED silence
  <2>1. PICK prime \in BOOLEAN : Begin(FALSE, prime) /\ UNCHANGED silence
    BY <1>5
  <2> QED BY <2>1, BeginStep
<1>6. CASE FallSilent \/ ComeBack
  BY <1>6, SilenceStep, ReturnOfCard
<1> QED
  BY <1>1, <1>2, <1>3, <1>4, <1>5, <1>6 DEF ClientNext

LEMMA ClientInvariance == ClientSpec => []ClientInv
  BY ClientStarts, ClientStep, PTL DEF ClientSpec
-----------------------------------------------------------------------------
(* From every call but the first poll behind a block, gpk_read_reg returns *)
(* what the register holds while the cartridge answers, for every number   *)
(* of retries.                                                             *)
THEOREM TrueReads == ClientSpec => ReadsAreTrue
<1>1. ASSUME ClientInv, [ClientNext]_clientVars PROVE [ReadIsTrue]_clientVars
  <2> SUFFICES ASSUME ClientNext, at = "read", at' # "read", Heard, ~BehindBlock
               PROVE  vote'.prev = RegValue(vote.reg)
    BY <1>1 DEF ReadIsTrue
  <2>1. ClientTyped /\ VoteInv
    BY <1>1 DEF ClientInv
  <2>2. ReadReg
    BY DEF ClientNext, Running, Program, Cartridge, Begin, FallSilent, ComeBack, GoTo,
       AllocArg, AllocExec, AllocDone, AllocResult, Allocated, UploadPayload, UploadArgs,
       UploadExec, UploadDone, UploadResult, ReadChecksum, FreeArg, FreeExec, Report, Probe,
       Probed, Drain, Drained, DrainRead, PrimeF4, SendF4, PollDepth, Answered, PollAgain,
       Resend, GiveUp, PrimeF5, FetchF5
  <2>3. PICK v \in Garbage \cup {RegValue(vote.reg)} :
         /\ \/ Heard /\ phase = "idle" /\ v = RegValue(vote.reg) /\ risk' = 0
            \/ Lost /\ v \in IF Heard THEN Garbage ELSE Dead
         /\ IF Agrees(v) \/ vote.reads = Retries
            THEN /\ at' = vote.then
                 /\ vote' = [vote EXCEPT !.prev = v, !.reads = 0]
            ELSE /\ vote' = [vote EXCEPT !.prev = v, !.reads = @ + 1]
                 /\ UNCHANGED at
    BY <2>2, Zenon DEF ReadReg
  <2>4. (Agrees(v) \/ vote.reads = Retries) /\ vote' = [vote EXCEPT !.prev = v, !.reads = 0]
    BY <2>3
  <2>5. vote'.prev = v
    BY <2>1, <2>4 DEF ClientTyped
  <2>6. v = RegValue(vote.reg)
    BY <2>1, <2>3, <2>4, Heeded
  <2> QED BY <2>5, <2>6
<1> QED
  BY <1>1, ClientInvariance, PTL DEF ClientSpec, ReadsAreTrue

(* However often a round trip sends its block, at most one job runs.       *)
THEOREM AtMostOnce == ClientSpec => []RunsAtMostOnce
<1>1. ClientInv => RunsAtMostOnce
  BY DEF ClientInv, TripInv, RunsAtMostOnce
<1> QED
  BY <1>1, ClientInvariance, PTL

(* A round trip that passes has seen the answer to its own request.        *)
THEOREM HonestPass == ClientSpec => []PassIsHonest
<1>1. ClientInv => PassIsHonest
  BY DEF ClientInv, TripInv, PassIsHonest
<1> QED
  BY <1>1, ClientInvariance, PTL

(* The completion of the job that ran is in the queue when it is fetched,  *)
(* primed or not: no other F5 of the program has taken it.                 *)
THEOREM AnswerStays == ClientSpec => []AnswerWaits
<1>1. ClientInv => AnswerWaits
  <2> SUFFICES ASSUME ClientInv, at \in Fetching, Heard, nextJob # my.firstJob
               PROVE  completions # << >> /\ completions[1].seq = my.f4Attempts
    BY DEF AnswerWaits, Fetching
  <2>1. Spot \in Fetching /\ ~my.legacy
    BY DEF ClientInv, ClientTyped, Spot, Fetching, TripSpots
  <2>2. TripInv /\ HeardInv
    BY <2>1 DEF ClientInv
  <2>3. ~MayRun
    BY <2>2 DEF TripInv
  <2> QED BY <2>1, <2>2, <2>3 DEF HeardInv, OwnRecord
<1> QED
  BY <1>1, ClientInvariance, PTL
-----------------------------------------------------------------------------
(***************************************************************************)
(* The buffers.  Keeping is where a stage has a buffer of its own; just    *)
(* after ALLOC only the registers know which.                              *)
(***************************************************************************)
Keeping == {"payload", "uploadArgs", "uploadExec", "uploadDone", "uploadResult", "uploaded",
            "prime", "block", "poll", "polled", "fetch", "fetchPrimed", "free", "freeExec"}

Granted ==
  \/ Spot \in {"allocDone", "allocResult"} /\ stage["Result"] = Ok
  \/ Spot = "allocated"

Own == IF Granted THEN {stage["Out0"]} ELSE IF Spot \in Keeping THEN {my.handle} ELSE {}

(* Where the transaction that comes next is not lost to a pause.           *)
Warm == Returns \cup {"alloc", "allocExec", "free", "freeExec", "fetchPrimed"}

NotPaused == (at \in Warm => risk = 0) /\ (at = "drain" /\ my.guard > 0 => risk = 0)

(* What ALLOC and FREE find in the registers, and the program after them.  *)
Argued ==
  /\ at = "allocExec" => stage["Arg0"] = PatternBytes
  /\ at = "freeExec" => stage["Arg0"] = my.handle
  /\ at = "allocResult" => Value = Number(stage["Result"])
  /\ at = "allocated" => Value = Number(stage["Out0"])

(* A stage's buffer is live and large enough, and the others that are live *)
(* belong to stages that gave up or were cut off.                          *)
Accounted ==
  /\ Own \subseteq Live
  /\ \A h \in Own : allocs[h].size >= PatternBytes
  /\ Cardinality(Live \ Own) <= gaveUp
  /\ silence = "ahead" => Cardinality(Live \ Own) = gaveUp

BufferInv ==
  /\ gaveUp \in Nat /\ NotPaused
  /\ Heard => Argued /\ Accounted
  /\ ~Heard => Cardinality(Live) <= gaveUp
-----------------------------------------------------------------------------
(***************************************************************************)
(* The buffers, step by step.                                              *)
(***************************************************************************)
Settled == Live' = Live /\ \A h \in Live : allocs'[h].size = allocs[h].size

LEMMA AllocsSame == ASSUME allocs' = allocs PROVE Settled
  BY DEF Settled, Live

(* Marking bytes as uploaded makes no buffer and ends none.                *)
LEMMA MarkSettles ==
  ASSUME MemoryOK, NEW g \in Handles, NEW n,
         allocs' = [allocs EXCEPT ![g] = Uploaded(allocs[g], n)]
  PROVE  Settled
<1>1. ASSUME NEW h \in Handles
      PROVE  allocs'[h].live = allocs[h].live /\ allocs'[h].size = allocs[h].size
  <2>1. Uploaded(allocs[g], n).live = allocs[g].live /\ Uploaded(allocs[g], n).size = allocs[g].size
    BY DEF Uploaded
  <2>2. allocs'[h] = IF h = g THEN Uploaded(allocs[g], n) ELSE allocs[h]
    BY DEF MemoryOK
  <2> QED BY <2>1, <2>2
<1>2. Live' = Live
  BY <1>1 DEF Live
<1> QED
  BY <1>1, <1>2 DEF Settled, Live

LEMMA ProcessSettles ==
  ASSUME IInv, Process
  PROVE  Settled
<1>1. TypeOK /\ MemoryOK
  BY DEF IInv, TypeOK
<1>2. CASE allocs' = allocs
  BY <1>2, AllocsSame
<1>3. CASE RunDescriptor /\ allocs' # allocs
  <2> DEFINE d == batch[done + 1]
  <2>1. InputOk(d) /\ allocs' = [allocs EXCEPT ![d.input] =
                                   Uploaded(allocs[d.input], d.inOff + d.inLen)]
    BY <1>3 DEF RunDescriptor, CopyInline
  <2>2. d.input \in Handles
    BY <2>1 DEF InputOk, Resolves
  <2> HIDE DEF d
  <2> QED BY <1>1, <2>1, <2>2, MarkSettles
<1>4. ParseDescriptor \/ EndParse \/ EndRun => allocs' = allocs
  BY DEF ParseDescriptor, EndParse, EndRun, core
<1> QED
  BY <1>2, <1>3, <1>4 DEF Process

LEMMA UploadSettles ==
  ASSUME IInv, F1(Upload)
  PROVE  Settled
<1>1. MemoryOK
  BY DEF IInv, TypeOK
<1>2. CASE allocs' = allocs
  BY <1>2, AllocsSame
<1>3. CASE Exec(Upload) /\ allocs' # allocs
  <2>1. ExecUpload
    BY <1>3 DEF Exec, Hello, GetCaps, Alloc, Upload, Submit, Poll, Collect, Free, Complete
  <2>2. UploadAllowed
    BY <1>3, <2>1 DEF ExecUpload, Fail, core
  <2> DEFINE g == stage["Arg0"]
             n == stage["Arg1"] + stage["PayloadLen"]
  <2>3. allocs' = [allocs EXCEPT ![g] = Uploaded(allocs[g], n)]
    BY <2>1, <2>2 DEF ExecUpload
  <2>4. g \in Handles
    BY <2>2 DEF UploadAllowed, Resolves
  <2> HIDE DEF g, n
  <2> QED BY <1>1, <2>3, <2>4, MarkSettles
<1> QED
  BY <1>2, <1>3 DEF F1, Missed, cardVars, vars, core

LEMMA WriteKeeps ==
  ASSUME NEW r \in StageRegs, NEW v, stage \in [StageRegs -> Nat], F0(r, v),
         risk \in {0, 1}
  PROVE  Settled /\ risk' = 0 /\ (Heard /\ risk = 0 => stage'[r] = v)
<1>1. allocs' = allocs /\ risk' = 0
  BY LostRisk DEF F0, WriteReg, core, cardVars, vars
<1>2. Heard /\ risk = 0 => stage'[r] = v
  BY DEF F0, WriteReg, Lost, Missed
<1> QED
  BY <1>1, <1>2, AllocsSame

LEMMA OthersSettle ==
  ASSUME \/ UNCHANGED cardVars
         \/ \E i, v : F3(i, v)
         \/ \E w : F4(w)
         \/ \E n, record : F5(n, record)
  PROVE  Settled
<1>1. CASE UNCHANGED cardVars
  BY <1>1, AllocsSame DEF cardVars, vars, core
<1>2. ASSUME NEW i, NEW v, F3(i, v) PROVE Settled
  BY <1>2, AllocsSame DEF F3, WritePayloadWord, Lost, Missed, core, cardVars, vars
<1>3. ASSUME NEW w, F4(w) PROVE Settled
  <2>1. allocs' = allocs
    BY <1>3 DEF F4, WriteBlockCmd1, RefuseF4, TakeF4, WriteBlock, Lost, Missed, core, cardVars, vars
  <2> QED BY <2>1, AllocsSame
<1>4. ASSUME NEW n, NEW record, F5(n, record) PROVE Settled
  <2>1. allocs' = allocs
    BY <1>4 DEF F5, ReadBlock, Lost, Missed, core, cardVars, vars
  <2> QED BY <2>1, AllocsSame
<1> QED
  BY <1>1, <1>2, <1>3, <1>4

LEMMA F5Keeps ==
  ASSUME NEW n, NEW record, F5(n, record), risk \in {0, 1}
  PROVE  Settled /\ risk' = 0
<1>1. Settled
  BY OthersSettle
<1>2. risk' = 0
  BY LostRisk DEF F5
<1> QED
  BY <1>1, <1>2

LEMMA LiveFinite ==
  /\ IsFiniteSet(Live) /\ Cardinality(Live) \in Nat
  /\ \A x : x \in Live => Cardinality(Live \ {x}) = Cardinality(Live) - 1
  /\ Cardinality(Live \ {}) = Cardinality(Live)
<1>1. IsFiniteSet(Handles)
  BY FS_Interval, PoolAssumption DEF Handles
<1>2. Live \in SUBSET Handles
  BY DEF Live
<1>3. IsFiniteSet(Live)
  BY <1>1, <1>2, FS_Subset
<1>4. Cardinality(Live) \in Nat
  BY <1>3, FS_CardinalityType
<1>5. \A x : x \in Live => Cardinality(Live \ {x}) = Cardinality(Live) - 1
  BY <1>3, FS_RemoveElement
<1>6. Live \ {} = Live
  OBVIOUS
<1> QED
  BY <1>3, <1>4, <1>5, <1>6

(* Places without a buffer, and places that need registers to be known.    *)
Bare == Spot \notin Keeping \cup {"allocDone", "allocResult", "allocated"}
Checked == {"allocExec", "freeExec", "allocResult", "allocated"}

LEMMA OwnWhere ==
  /\ Bare => Own = {}
  /\ Spot \in Keeping => Own = {my.handle}
  BY DEF Own, Bare, Granted, Keeping

(* A step that makes no buffer, ends none and passes none on.              *)
LEMMA BufferSame ==
  ASSUME BufferInv, Settled, silence' = silence, gaveUp' = gaveUp, NotPaused',
         Heard => Argued', Heard => Own' = Own
  PROVE  BufferInv'
<1>1. Heard' = Heard /\ Live' = Live
  BY DEF Heard, Settled
<1>2. Heard => Accounted'
  <2>1. SUFFICES ASSUME Heard PROVE Accounted'
    OBVIOUS
  <2>2. Accounted /\ Own' = Own
    BY <2>1 DEF BufferInv
  <2>3. \A h \in Own : allocs'[h].size >= PatternBytes
    BY <2>2 DEF Accounted, Settled
  <2> QED BY <1>1, <2>2, <2>3 DEF Accounted
<1> QED
  BY <1>1, <1>2 DEF BufferInv

LEMMA BufferKept ==
  ASSUME BufferInv, Settled, silence' = silence, gaveUp' = gaveUp, NotPaused',
         at' \notin Checked,
         \/ Bare /\ Bare'
         \/ Spot \in Keeping /\ Spot' \in Keeping /\ my'.handle = my.handle
  PROVE  BufferInv'
<1>1. Argued'
  BY DEF Argued, Checked
<1>2. Own' = Own
  <2>1. /\ Bare' => Own' = {}
        /\ Spot' \in Keeping => Own' = {my'.handle}
    BY DEF Own, Bare, Granted, Keeping
  <2> QED BY <2>1, OwnWhere
<1> QED
  BY <1>1, <1>2, BufferSame

(* ALLOC makes the stage's buffer.                                         *)
LEMMA AllocExecBuffers ==
  ASSUME ClientInv, BufferInv, silence' = silence, AllocExec
  PROVE  BufferInv'
<1>1. IInv /\ MemoryOK /\ stage \in [StageRegs -> Nat] /\ gaveUp \in Nat
  BY DEF ClientInv, IInv, TypeOK, RegsOK, BufferInv
<1>2. at = "allocExec" /\ F1(Alloc) /\ at' = "read" /\ Spot' = "allocDone" /\ gaveUp' = gaveUp
  BY DEF AllocExec, Call, Spot
<1>3. NotPaused'
  BY <1>2 DEF NotPaused, Warm, Returns
<1>4. CASE ~Heard
  <2>1. UNCHANGED cardVars
    BY <1>2, <1>4 DEF F1, Missed
  <2>2. Live' = Live /\ ~Heard'
    BY <1>4, <2>1, OthersSettle DEF Settled, Heard
  <2> QED BY <1>2, <1>3, <1>4, <2>2 DEF BufferInv
<1>5. CASE Heard
  <2>1. /\ Exec(Alloc) /\ stage["Arg0"] = PatternBytes /\ PatternBytes \in Nat \ {0}
        /\ PatternBytes <= Rounded(PatternBytes)
    <3>1. risk = 0
      BY <1>2 DEF BufferInv, NotPaused, Warm
    <3>2. PatternBytes \in Nat \ {0}
      BY ClientAssumption, DeviceAssumption
    <3>3. PatternBytes <= Rounded(PatternBytes)
      BY <3>2 DEF Rounded
    <3> QED BY <1>2, <1>5, <3>1, <3>2, <3>3 DEF F1, Missed, BufferInv, Argued
  <2>2. ExecAlloc
    BY <2>1 DEF Exec, Hello, GetCaps, Alloc, Upload, Submit, Poll, Collect, Free, Complete
  <2>3. Own = {} /\ Accounted /\ Live \ Own = Live
    BY <1>2, <1>5, OwnWhere DEF Spot, Bare, Keeping, BufferInv
  <2>4. Argued' /\ Heard' = Heard
    BY <1>2 DEF Argued, Heard
  <2>5. Own' = IF stage'["Result"] = Ok THEN {stage'["Out0"]} ELSE {}
    BY <1>2 DEF Own, Granted, Keeping
  <2>6. CASE Fail(NoMemory)
    <3>1. allocs' = allocs /\ stage'["Result"] # Ok
      BY <1>1, <2>6 DEF Fail, Answer, core, StageRegs, NoMemory, Ok
    <3>2. Own' = Own /\ Settled
      BY <2>3, <2>5, <3>1, AllocsSame
    <3> QED BY <1>2, <1>3, <2>4, <3>2, BufferSame
  <2>7. CASE ~Fail(NoMemory)
    <3>1. PICK h \in Handles, c \in 0 .. PoolBytes :
            /\ IsFirstFreeSlot(allocs, h)
            /\ allocs' = Place(allocs, h, c, stage["Arg0"])
            /\ Answer(Ok, h, << >>)
      BY <2>2, <2>7 DEF ExecAlloc
    <3>2. stage'["Result"] = Ok /\ stage'["Out0"] = h
      BY <1>1, <3>1 DEF Answer, StageRegs
    <3>3. ~allocs[h].live
      BY <3>1 DEF IsFirstFreeSlot
    <3>4. \A g \in Handles : allocs'[g] = IF g = h
            THEN [offset |-> c, size |-> Rounded(PatternBytes), uploaded |-> 0, live |-> TRUE]
            ELSE allocs[g]
      BY <1>1, <2>1, <3>1 DEF Place, MemoryOK
    <3>5. allocs'[h].live /\ allocs'[h].size = Rounded(PatternBytes)
      BY <3>4
    <3>6. \A g \in Handles : g # h => allocs'[g].live = allocs[g].live
      BY <3>4
    <3>7. Own' = {h} /\ h \in Live' /\ Live' \ {h} = Live
      BY <2>5, <3>2, <3>3, <3>5, <3>6 DEF Live
    <3>8. Accounted'
      BY <1>2, <2>1, <2>3, <3>5, <3>7 DEF Accounted
    <3> QED BY <1>1, <1>2, <1>3, <1>5, <2>4, <3>8 DEF BufferInv
  <2> QED BY <2>6, <2>7
<1> QED
  BY <1>4, <1>5

(* FREE ends it.                                                           *)
LEMMA FreeExecBuffers ==
  ASSUME ClientInv, BufferInv, silence' = silence, FreeExec
  PROVE  BufferInv'
<1>1. IInv /\ MemoryOK /\ stage \in [StageRegs -> Nat] /\ gaveUp \in Nat
  BY DEF ClientInv, IInv, TypeOK, RegsOK, BufferInv
<1>2. at = "freeExec" /\ F1(Free) /\ at' = "read" /\ Spot' = "end" /\ gaveUp' = gaveUp
  BY DEF FreeExec, Call, Spot
<1>3. NotPaused'
  BY <1>2 DEF NotPaused, Warm, Returns
<1>4. CASE ~Heard
  <2>1. UNCHANGED cardVars
    BY <1>2, <1>4 DEF F1, Missed
  <2>2. Live' = Live /\ ~Heard'
    BY <1>4, <2>1, OthersSettle DEF Settled, Heard
  <2> QED BY <1>2, <1>3, <1>4, <2>2 DEF BufferInv
<1>5. CASE Heard
  <2>1. Exec(Free) /\ stage["Arg0"] = my.handle
    <3>1. risk = 0
      BY <1>2 DEF BufferInv, NotPaused, Warm
    <3> QED BY <1>2, <1>5, <3>1 DEF F1, Missed, BufferInv, Argued
  <2>2. ExecFree
    BY <2>1 DEF Exec, Hello, GetCaps, Alloc, Upload, Submit, Poll, Collect, Free, Complete
  <2>3. Own = {my.handle} /\ Accounted /\ my.handle \in Live
    <3>1. Own = {my.handle}
      BY <1>2, OwnWhere DEF Spot, Keeping
    <3> QED BY <1>5, <3>1 DEF BufferInv, Accounted
  <2>4. Argued' /\ Heard' = Heard
    BY <1>2 DEF Argued, Heard
  <2>5. Own' = {}
    BY <1>2 DEF Own, Granted, Keeping
  <2>6. allocs' = Release(allocs, my.handle) /\ my.handle \in Handles
    BY <2>1, <2>2, <2>3 DEF ExecFree, Live, Resolves
  <2>7. \A g \in Handles : allocs'[g] = IF g = my.handle THEN Freed(allocs[g]) ELSE allocs[g]
    BY <1>1, <2>6 DEF Release, MemoryOK
  <2>8. /\ ~allocs'[my.handle].live
        /\ \A g \in Handles : g # my.handle => allocs'[g].live = allocs[g].live
    <3>1. ~Freed(allocs[my.handle]).live
      BY DEF Freed
    <3> QED BY <2>6, <2>7, <3>1
  <2>9. Live' = Live \ {my.handle} /\ Live' \ {} = Live'
    BY <2>8 DEF Live
  <2>10. Accounted'
    BY <1>2, <2>3, <2>5, <2>9 DEF Accounted
  <2> QED BY <1>1, <1>2, <1>3, <1>5, <2>4, <2>10 DEF BufferInv
<1> QED
  BY <1>4, <1>5

(* The steps around ALLOC and FREE.                                        *)
LEMMA BufferEnds ==
  ASSUME ClientInv, BufferInv, silence' = silence,
         \/ ReadReg \/ AllocArg \/ AllocDone \/ AllocResult \/ Allocated \/ FreeArg \/ GiveUp
  PROVE  BufferInv'
<1>1. /\ IInv /\ ClientTyped /\ stage \in [StageRegs -> Nat] /\ gaveUp \in Nat /\ NotPaused
      /\ VoteInv
  BY DEF ClientInv, IInv, TypeOK, RegsOK, BufferInv
<1>2. UNCHANGED cardVars => Settled /\ stage' = stage
  <2>1. UNCHANGED cardVars => stage' = stage
    BY DEF cardVars, vars
  <2> QED BY <2>1, OthersSettle
<1>3. Heard => Argued /\ Accounted
  BY DEF BufferInv
<1>4. CASE ReadReg
  <2>1. /\ at = "read" /\ UNCHANGED cardVars /\ gaveUp' = gaveUp /\ Spot = vote.then
        /\ my' = my
    <3>1. at = "read" /\ UNCHANGED cardVars /\ gaveUp' = gaveUp /\ my' = my
      BY <1>4, Zenon DEF ReadReg
    <3> QED BY <3>1 DEF Spot
  <2>2. PICK v \in Garbage \cup {RegValue(vote.reg)} :
         /\ \/ Heard /\ phase = "idle" /\ v = RegValue(vote.reg) /\ risk' = 0
            \/ Lost /\ v \in IF Heard THEN Garbage ELSE Dead
         /\ IF Agrees(v) \/ vote.reads = Retries
            THEN /\ at' = vote.then
                 /\ vote' = [vote EXCEPT !.prev = v, !.reads = 0]
            ELSE /\ vote' = [vote EXCEPT !.prev = v, !.reads = @ + 1]
                 /\ UNCHANGED at
    BY <1>4, Zenon DEF ReadReg
  <2>4. CASE Agrees(v) \/ vote.reads = Retries
    <3>1. at' = vote.then /\ vote' = [vote EXCEPT !.prev = v, !.reads = 0]
      BY <2>2, <2>4
    <3>2. Value' = v /\ Spot' = Spot /\ at' \in Returns
      BY <1>1, <2>1, <3>1 DEF ClientTyped, Value, Spot, Returns
    <3>3. risk' = 0 /\ (Heard /\ ~BehindBlock => v = RegValue(vote.reg))
      BY <1>1, <2>1, <2>2, <2>4, Heeded
    <3>6. NotPaused'
      BY <3>3 DEF NotPaused
    <3>4. Heard => Argued'
      BY <1>1, <1>2, <2>1, <3>1, <3>2, <3>3 DEF Argued, ClientTyped, RegValue, Returns, BehindBlock
    <3>5. Own' = Own
      BY <1>2, <2>1, <3>2 DEF Own, Granted
    <3> QED BY <1>2, <2>1, <3>4, <3>5, <3>6, BufferSame
  <2>5. CASE ~(Agrees(v) \/ vote.reads = Retries)
    <3>1. vote' = [vote EXCEPT !.prev = v, !.reads = @ + 1] /\ at' = at
      BY <2>2, <2>5
    <3>2. Spot' = Spot
      BY <1>1, <3>1 DEF ClientTyped, Spot
    <3>3. Own' = Own /\ Argued' /\ NotPaused'
      BY <1>2, <2>1, <3>1, <3>2 DEF Own, Granted, Argued, NotPaused, Warm, Returns
    <3> QED BY <1>2, <2>1, <3>3, BufferSame
  <2> QED BY <2>4, <2>5
<1>5. CASE AllocArg
  <2>1. /\ at = "alloc" /\ at' = "allocExec" /\ F0("Arg0", PatternBytes) /\ gaveUp' = gaveUp
        /\ "Arg0" \in StageRegs
    BY <1>5 DEF AllocArg, GoTo, StageRegs
  <2>3. risk = 0
    BY <1>1, <2>1 DEF NotPaused, Warm
  <2>2. Settled /\ risk' = 0 /\ (Heard /\ risk = 0 => stage'["Arg0"] = PatternBytes)
    BY <1>1, <2>1, <2>3, WriteKeeps
  <2>4. NotPaused' /\ (Heard => Argued')
    BY <2>1, <2>2, <2>3 DEF NotPaused, Argued
  <2>5. Own' = Own
    BY <2>1 DEF Own, Granted, Spot, Keeping
  <2> QED BY <2>1, <2>2, <2>4, <2>5, BufferSame
<1>6. CASE FreeArg
  <2>1. /\ at = "free" /\ at' = "freeExec" /\ F0("Arg0", my.handle) /\ gaveUp' = gaveUp
        /\ "Arg0" \in StageRegs /\ my' = my
    BY <1>6 DEF FreeArg, GoTo, StageRegs
  <2>3. risk = 0
    BY <1>1, <2>1 DEF NotPaused, Warm
  <2>2. Settled /\ risk' = 0 /\ (Heard /\ risk = 0 => stage'["Arg0"] = my.handle)
    BY <1>1, <2>1, <2>3, WriteKeeps
  <2>4. NotPaused' /\ (Heard => Argued')
    BY <2>1, <2>2, <2>3 DEF NotPaused, Argued
  <2>5. Own' = Own
    BY <2>1 DEF Own, Granted, Spot, Keeping
  <2> QED BY <2>1, <2>2, <2>4, <2>5, BufferSame
<1>7. CASE AllocDone
  <2>1. /\ at = "allocDone" /\ at' = "read" /\ Spot' = "allocResult" /\ UNCHANGED cardVars
        /\ gaveUp' = gaveUp /\ Spot = "allocDone"
    BY <1>7 DEF AllocDone, Call, NoTransaction, Spot
  <2>2. NotPaused' /\ Argued' /\ Own' = Own
    BY <1>2, <2>1 DEF NotPaused, Argued, Own, Granted, Warm, Returns, Keeping
  <2> QED BY <1>2, <2>1, <2>2, BufferSame
<1>8. CASE AllocResult /\ Value = Number(Ok)
  <2>1. /\ at = "allocResult" /\ at' = "read" /\ Spot' = "allocated" /\ UNCHANGED cardVars
        /\ gaveUp' = gaveUp /\ Spot = "allocResult"
    BY <1>8 DEF AllocResult, Call, NoTransaction, Spot
  <2>2. Heard => stage["Result"] = Ok
    BY <1>3, <1>8, <2>1 DEF Argued, Number
  <2>3. NotPaused' /\ Argued'
    BY <2>1 DEF NotPaused, Argued, Warm, Returns
  <2>4. Heard => Own' = Own
    BY <1>2, <2>1, <2>2 DEF Own, Granted, Keeping
  <2> QED BY <1>2, <2>1, <2>3, <2>4, BufferSame
<1>9. CASE AllocResult /\ Value # Number(Ok)
  <2>1. /\ at = "allocResult" /\ at' = "rest" /\ Spot' = "rest" /\ UNCHANGED cardVars
        /\ gaveUp' = gaveUp /\ Spot = "allocResult"
    BY <1>9 DEF AllocResult, Return, GoTo, Spot
  <2>2. Heard => stage["Result"] # Ok
    BY <1>3, <1>9, <2>1 DEF Argued, Number
  <2>3. NotPaused' /\ Argued'
    BY <2>1 DEF NotPaused, Argued, Warm, Returns
  <2>4. Heard => Own' = Own
    BY <1>2, <2>1, <2>2 DEF Own, Granted, Keeping
  <2> QED BY <1>2, <2>1, <2>3, <2>4, BufferSame
<1>10. CASE Allocated /\ Value = Number(0)
  <2>1. /\ at = "allocated" /\ at' = "rest" /\ UNCHANGED cardVars
        /\ gaveUp' = gaveUp /\ Spot = "allocated"
    BY <1>10 DEF Allocated, Return, GoTo, Spot
  <2>2. ~Heard
    <3>1. SUFFICES ASSUME Heard PROVE FALSE
      OBVIOUS
    <3>2. stage["Out0"] = 0 /\ Own = {stage["Out0"]} /\ Own \subseteq Handles
      BY <1>3, <1>10, <2>1, <3>1 DEF Argued, Number, Own, Granted, Accounted, Live
    <3> QED BY <3>2, PoolAssumption DEF Handles
  <2>3. NotPaused' /\ Argued'
    BY <2>1 DEF NotPaused, Argued, Warm, Returns
  <2> QED BY <1>2, <2>1, <2>2, <2>3, BufferSame
<1>11. CASE Allocated /\ Value # Number(0)
  <2>1. /\ at = "allocated" /\ at' = (IF my.legacy THEN "payload" ELSE "prime")
        /\ UNCHANGED cardVars /\ gaveUp' = gaveUp /\ Spot = "allocated"
        /\ my' = [my EXCEPT !.handle = Value[1], !.guard = 1]
    BY <1>11 DEF Allocated, GoTo, Spot
  <2>2. my'.handle = Value[1] /\ at' \in {"payload", "prime"} /\ Spot' = at'
    BY <1>1, <2>1 DEF ClientTyped, LocalNames, Spot
  <2>3. Heard => my'.handle = stage["Out0"]
    BY <1>3, <2>1, <2>2 DEF Argued, Number
  <2>4. NotPaused' /\ Argued'
    BY <2>2 DEF NotPaused, Argued, Warm, Returns
  <2>5. Own = {stage["Out0"]} /\ Own' = {my'.handle}
    BY <1>2, <2>1, <2>2 DEF Own, Granted, Keeping
  <2> QED BY <1>2, <2>1, <2>3, <2>4, <2>5, BufferSame
<1>12. CASE GiveUp
  <2>1. /\ at = "polled" /\ at' = "rest" /\ Spot' = "rest" /\ UNCHANGED cardVars
        /\ gaveUp' = (IF Heard THEN gaveUp + 1 ELSE gaveUp) /\ Spot = "polled"
    BY <1>12 DEF GiveUp, Return, GoTo, Spot
  <2>2. NotPaused' /\ Argued' /\ Own = {my.handle} /\ Own' = {}
    BY <2>1 DEF NotPaused, Argued, Warm, Returns, Own, Granted, Keeping
  <2>3. Live' = Live /\ Heard' = Heard /\ gaveUp' \in Nat
    BY <1>1, <1>2, <2>1 DEF Settled, Heard
  <2>4. Heard => Accounted'
    <3>1. SUFFICES ASSUME Heard PROVE Accounted'
      OBVIOUS
    <3>2. Accounted /\ my.handle \in Live
      BY <1>3, <2>2, <3>1 DEF Accounted
    <3>3. /\ Cardinality(Live \ Own) = Cardinality(Live) - 1 /\ Cardinality(Live) \in Nat
          /\ Live' \ Own' = Live
      BY <2>2, <2>3, <3>2, LiveFinite
    <3>4. /\ Cardinality(Live') <= gaveUp + 1
          /\ silence = "ahead" => Cardinality(Live') = gaveUp + 1
      BY <1>1, <2>3, <3>2, <3>3 DEF Accounted
    <3>5. gaveUp' = gaveUp + 1 /\ silence' = silence /\ Live' \ Own' = Live'
      BY <2>1, <2>3, <3>1, <3>3
    <3> QED BY <2>2, <3>4, <3>5 DEF Accounted
  <2>5. ~Heard => Cardinality(Live') <= gaveUp'
    BY <1>1, <2>1, <2>3, LiveFinite DEF BufferInv
  <2> QED BY <2>2, <2>3, <2>4, <2>5 DEF BufferInv
<1> QED
  BY <1>4, <1>5, <1>6, <1>7, <1>8, <1>9, <1>10, <1>11, <1>12

(* The steps between ALLOC and FREE, and those before and after them.      *)
LEMMA BufferWithin ==
  ASSUME ClientInv, BufferInv, silence' = silence,
         \/ UploadPayload \/ UploadArgs \/ UploadExec \/ UploadDone \/ UploadResult
         \/ ReadChecksum \/ Report \/ Probe \/ Probed \/ Drain \/ Drained \/ DrainRead
         \/ PrimeF4 \/ SendF4 \/ PollDepth \/ Answered \/ PollAgain \/ Resend
         \/ PrimeF5 \/ FetchF5
  PROVE  BufferInv'
<1>1. /\ IInv /\ ClientTyped /\ stage \in [StageRegs -> Nat] /\ NotPaused
      /\ DOMAIN my = LocalNames /\ DrainRounds \in Nat \ {0} /\ my.guard \in Nat
      /\ at \notin {"read", "block", "poll", "polled"} => risk \in {0, 1}
      /\ at # "read" => Spot = at
  BY ClientAssumption DEF ClientInv, ClientTyped, VoteInv, Spot, IInv, TypeOK, RegsOK, BufferInv
<1> USE DEF Spot, Bare, Keeping, Checked, Warm, Returns
<1>2. CASE UploadPayload
  <2>1. /\ at = "payload" /\ at' = "uploadArgs" /\ my' = my /\ gaveUp' = gaveUp /\ Settled
    BY <1>2, OthersSettle DEF UploadPayload, GoTo
  <2>2. NotPaused'
    BY <2>1 DEF NotPaused
  <2> QED BY <2>1, <2>2, BufferKept
<1>3. CASE UploadArgs
  <2> DEFINE regs == << <<"Arg0", my.handle>>, <<"Arg1", 0>>, <<"PayloadLen", PatternBytes>> >>
  <2>1. /\ at = "uploadArgs" /\ F0(regs[my.guard][1], regs[my.guard][2])
        /\ at' = (IF my.guard = Len(regs) THEN "uploadExec" ELSE at) /\ gaveUp' = gaveUp
        /\ my' = [my EXCEPT !.guard = @ + 1]
    BY <1>3, Zenon DEF UploadArgs, GoTo
  <2>2. at' \in {"uploadArgs", "uploadExec"} /\ my'.handle = my.handle
    BY <1>1, <2>1 DEF LocalNames
  <2>3. my.guard \in {1, 2, 3}
    BY <1>1, <2>1 DEF ClientTyped
  <2>4. regs[my.guard][1] \in StageRegs
    BY <2>3 DEF StageRegs
  <2> HIDE DEF regs
  <2>5. Settled
    BY <1>1, <2>1, <2>4, WriteKeeps
  <2>6. NotPaused'
    BY <2>2 DEF NotPaused
  <2> QED BY <2>1, <2>2, <2>5, <2>6, BufferKept
<1>4. CASE UploadExec
  <2>1. /\ at = "uploadExec" /\ at' = "read" /\ vote'.then = "uploadDone" /\ my' = my
        /\ gaveUp' = gaveUp /\ Settled
    BY <1>1, <1>4, UploadSettles DEF UploadExec, Call
  <2>2. NotPaused'
    BY <2>1 DEF NotPaused
  <2> QED BY <2>1, <2>2, BufferKept
<1>5. CASE UploadDone
  <2>1. /\ at = "uploadDone" /\ at' = "read" /\ vote'.then = "uploadResult" /\ my' = my
        /\ gaveUp' = gaveUp /\ Settled
    BY <1>5, OthersSettle DEF UploadDone, Call, NoTransaction
  <2>2. NotPaused'
    BY <2>1 DEF NotPaused
  <2> QED BY <2>1, <2>2, BufferKept
<1>6. CASE UploadResult
  <2>1. /\ at = "uploadResult" /\ my' = my /\ gaveUp' = gaveUp /\ risk' = risk /\ Settled
        /\ (at' = "read" /\ vote'.then = "uploaded") \/ at' = "free"
    BY <1>6, OthersSettle DEF UploadResult, Call, GoTo, NoTransaction
  <2>2. NotPaused'
    BY <1>1, <2>1 DEF NotPaused
  <2> QED BY <2>1, <2>2, BufferKept
<1>7. CASE ReadChecksum
  <2>1. /\ at = "uploaded" /\ at' = "free" /\ gaveUp' = gaveUp /\ risk' = risk /\ Settled
        /\ \E r : my' = [my EXCEPT !.record = r]
    BY <1>7, OthersSettle DEF ReadChecksum, GoTo, NoTransaction
  <2>2. my'.handle = my.handle
    BY <1>1, <2>1 DEF LocalNames
  <2>3. NotPaused'
    BY <1>1, <2>1 DEF NotPaused
  <2> QED BY <2>1, <2>2, <2>3, BufferKept
<1>8. CASE Report \/ (Probed /\ Value # Number(ProbeValues[my.guard + 1]))
  <2>1. /\ at \in {"end", "probed"} /\ at' = "rest" /\ gaveUp' = gaveUp /\ Settled
    BY <1>8, OthersSettle DEF Report, Probed, Return, GoTo
  <2>2. NotPaused'
    BY <2>1 DEF NotPaused
  <2> QED BY <2>1, <2>2, BufferKept
<1>9. CASE Probe
  <2>1. /\ at = "probe" /\ at' = "read" /\ vote'.then = "probed" /\ gaveUp' = gaveUp
        /\ F0("Arg0", ProbeValues[my.guard + 1]) /\ "Arg0" \in StageRegs
    BY <1>9 DEF Probe, Call, StageRegs
  <2>2. Settled
    BY <1>1, <2>1, WriteKeeps
  <2>3. NotPaused'
    BY <2>1 DEF NotPaused
  <2> QED BY <2>1, <2>2, <2>3, BufferKept
<1>10. CASE Probed /\ Value = Number(ProbeValues[my.guard + 1])
  <2>1. /\ at = "probed" /\ at' \in {"alloc", "probe"} /\ gaveUp' = gaveUp /\ risk' = risk
        /\ Settled
    BY <1>10, OthersSettle DEF Probed, GoTo, NoTransaction
  <2>2. NotPaused'
    BY <1>1, <2>1 DEF NotPaused
  <2> QED BY <2>1, <2>2, BufferKept
<1>11. CASE Drain
  <2>1. /\ at = "drain" /\ my' = my /\ gaveUp' = gaveUp /\ risk' = risk /\ Settled
        /\ \/ at' = "read" /\ vote'.then = "drained"
           \/ at' = "alloc" /\ ~(my.guard < DrainRounds)
    BY <1>11, OthersSettle DEF Drain, Call, GoTo, NoTransaction
  <2>2. at' = "alloc" => my.guard > 0
    BY <1>1, <2>1
  <2>3. NotPaused'
    BY <1>1, <2>1, <2>2 DEF NotPaused
  <2> QED BY <2>1, <2>3, BufferKept
<1>12. CASE Drained
  <2>1. /\ at = "drained" /\ at' \in {"alloc", "drainRead"} /\ gaveUp' = gaveUp
        /\ risk' = risk /\ Settled
    BY <1>12, OthersSettle DEF Drained, GoTo, NoTransaction
  <2>2. NotPaused'
    BY <1>1, <2>1 DEF NotPaused
  <2> QED BY <2>1, <2>2, BufferKept
<1>13. CASE DrainRead
  <2>1. /\ at \in {"drainRead", "drainPrimed"} /\ at' = "drain" /\ gaveUp' = gaveUp
        /\ \E record : F5(BlockBytes, record)
    BY <1>13 DEF DrainRead, GoTo
  <2>2. Settled /\ risk' = 0
    BY <1>1, <2>1, F5Keeps
  <2>3. NotPaused'
    BY <2>2 DEF NotPaused
  <2> QED BY <2>1, <2>2, <2>3, BufferKept
<1>14. CASE PrimeF4
  <2>1. at = "prime" /\ at' = "block" /\ my' = my /\ gaveUp' = gaveUp /\ Settled
    BY <1>14, OthersSettle DEF PrimeF4, GoTo
  <2>2. NotPaused'
    BY <2>1 DEF NotPaused
  <2> QED BY <2>1, <2>2, BufferKept
<1>15. CASE SendF4
  <2>1. /\ at = "block" /\ at' = "poll" /\ my' = [my EXCEPT !.polls = 0] /\ gaveUp' = gaveUp
        /\ Settled
    BY <1>15, OthersSettle DEF SendF4, GoTo
  <2>2. NotPaused' /\ my'.handle = my.handle
    BY <1>1, <2>1 DEF NotPaused, LocalNames
  <2> QED BY <2>1, <2>2, BufferKept
<1>16. CASE PollDepth
  <2>1. /\ at = "poll" /\ at' = "read" /\ vote'.then = "polled" /\ my' = my
        /\ gaveUp' = gaveUp /\ Settled
    BY <1>16, OthersSettle DEF PollDepth, Call, NoTransaction
  <2>2. NotPaused'
    BY <2>1 DEF NotPaused
  <2> QED BY <2>1, <2>2, BufferKept
<1>17. CASE Answered \/ PollAgain \/ Resend
  <2>1. /\ at = "polled" /\ at' \in {"fetch", "poll", "prime"} /\ gaveUp' = gaveUp /\ Settled
        /\ \/ my' = [my EXCEPT !.f4Attempts = my.attempt + 1]
           \/ my' = [my EXCEPT !.polls = @ + 1]
           \/ my' = [my EXCEPT !.attempt = @ + 1]
    BY <1>17, OthersSettle DEF Answered, PollAgain, Resend, GoTo
  <2>2. my'.handle = my.handle
    BY <1>1, <2>1 DEF LocalNames
  <2>3. NotPaused'
    BY <2>1 DEF NotPaused
  <2> QED BY <2>1, <2>2, <2>3, BufferKept
<1>18. CASE PrimeF5
  <2>1. /\ at \in {"fetch", "drainRead"} /\ at' = Primed /\ my' = my /\ gaveUp' = gaveUp
        /\ F5(0, NoRecord)
    BY <1>18 DEF PrimeF5, GoTo
  <2>2. Settled /\ risk' = 0
    BY <1>1, <2>1, F5Keeps
  <2>3. NotPaused'
    BY <2>2 DEF NotPaused
  <2> QED BY <2>1, <2>2, <2>3, BufferKept DEF Primed
<1>19. CASE FetchF5
  <2>1. /\ at \in {"fetch", "fetchPrimed"} /\ at' = "free" /\ gaveUp' = gaveUp
        /\ \E record : F5(DescriptorBytes, record) /\ my' = [my EXCEPT !.record = record]
    BY <1>19 DEF FetchF5, GoTo
  <2>2. Settled /\ risk' = 0 /\ my'.handle = my.handle
    <3>1. Settled /\ risk' = 0
      BY <1>1, <2>1, F5Keeps
    <3>2. my'.handle = my.handle
      BY <1>1, <2>1 DEF LocalNames
    <3> QED BY <3>1, <3>2
  <2>3. NotPaused'
    BY <2>2 DEF NotPaused
  <2> QED BY <2>1, <2>2, <2>3, BufferKept
<1> QED
  BY <1>2, <1>3, <1>4, <1>5, <1>6, <1>7, <1>8, <1>9, <1>10, <1>11, <1>12, <1>13, <1>14,
     <1>15, <1>16, <1>17, <1>18, <1>19

(* The cartridge, the silence, and a stage that begins.                    *)
LEMMA BufferAround ==
  ASSUME ClientInv, BufferInv,
         \/ Cartridge \/ FallSilent \/ ComeBack \/ UNCHANGED clientVars
         \/ \E legacy, prime \in BOOLEAN : Begin(legacy, prime) /\ UNCHANGED silence
  PROVE  BufferInv'
<1>1. IInv /\ ClientTyped /\ BlockKnown /\ gaveUp \in Nat /\ NotPaused /\ DOMAIN my = LocalNames
  BY DEF ClientInv, ClientTyped, BufferInv
<1>2. Heard => Argued /\ Accounted
  BY DEF BufferInv
<1>3. CASE Cartridge
  <2>1. /\ Process /\ phase # "idle"
        /\ at' = at /\ vote' = vote /\ my' = my /\ risk' = risk /\ silence' = silence
        /\ gaveUp' = gaveUp
    BY <1>3 DEF Cartridge, CardProcess, Process, ParseDescriptor, EndParse, EndRun, RunDescriptor
  <2>2. Settled /\ Spot' = Spot
    BY <1>1, <2>1, ProcessSettles DEF Spot
  <2>3. Heard => Spot \in Busy
    BY <1>1, <2>1 DEF BlockKnown
  <2>4. Heard => Own' = Own /\ at \notin Checked
    BY <2>1, <2>2, <2>3 DEF Own, Granted, Keeping, Checked, Spot, Busy
  <2>5. NotPaused' /\ (Heard => Argued')
    BY <1>1, <2>1, <2>4 DEF NotPaused, Argued, Checked
  <2> QED BY <2>1, <2>2, <2>4, <2>5, BufferSame
<1>4. CASE UNCHANGED clientVars
  <2>1. /\ at' = at /\ vote' = vote /\ my' = my /\ risk' = risk /\ silence' = silence
        /\ gaveUp' = gaveUp /\ UNCHANGED cardVars
    BY <1>4 DEF clientVars
  <2>2. stage' = stage /\ Settled
    <3>1. stage' = stage
      BY <2>1 DEF cardVars, vars
    <3> QED BY <2>1, <3>1, OthersSettle
  <2>3. NotPaused' /\ (Heard => Argued') /\ Own' = Own
    BY <1>1, <1>2, <2>1, <2>2 DEF NotPaused, Argued, Own, Granted, Spot, Value
  <2> QED BY <2>1, <2>2, <2>3, BufferSame
<1>5. ASSUME NEW legacy \in BOOLEAN, NEW prime \in BOOLEAN,
             Begin(legacy, prime), UNCHANGED silence
      PROVE  BufferInv'
  <2>1. /\ at = "rest" /\ at' \in {"probe", "drain"} /\ my' = Locals(legacy, prime)
        /\ gaveUp' = gaveUp /\ Settled
    BY <1>5, OthersSettle DEF Begin, GoTo
  <2>2. my'.guard = 0
    BY <2>1 DEF Locals
  <2>3. NotPaused'
    BY <2>1, <2>2 DEF NotPaused, Warm, Returns
  <2> QED BY <1>5, <2>1, <2>3, BufferKept DEF Checked, Bare, Spot, Keeping
<1>6. CASE FallSilent
  <2>1. /\ silence' = "now" /\ at' = at /\ vote' = vote /\ risk' = risk /\ Settled
        /\ silence = "ahead" /\ gaveUp' = (IF at = "rest" THEN gaveUp ELSE gaveUp + 1)
        /\ my' = my
    BY <1>6, OthersSettle DEF FallSilent
  <2>3. NotPaused' /\ Heard /\ ~Heard' /\ Live' = Live /\ gaveUp' \in Nat
    BY <1>1, <2>1 DEF NotPaused, Heard, Settled
  <2>4. Cardinality(Live) <= gaveUp'
    <3>1. Accounted /\ Cardinality(Live) \in Nat
      BY <1>2, <2>3, LiveFinite
    <3>2. CASE Own = {}
      BY <1>1, <2>1, <3>1, <3>2, LiveFinite DEF Accounted
    <3>3. CASE Own # {}
      <4>1. at # "rest"
        BY <3>3 DEF Own, Granted, Spot, Keeping
      <4>2. \E x : Own = {x}
        BY <3>3 DEF Own
      <4>3. PICK x : Own = {x}
        BY <4>2
      <4>4. Cardinality(Live \ Own) = Cardinality(Live) - 1
        BY <3>1, <4>3, LiveFinite DEF Accounted
      <4> QED BY <1>1, <2>1, <3>1, <4>1, <4>4 DEF Accounted
    <3> QED BY <3>2, <3>3
  <2> QED BY <2>3, <2>4 DEF BufferInv
<1>7. CASE ComeBack
  <2>1. /\ silence = "now" /\ silence' = "over" /\ at = "rest" /\ at' = "rest" /\ my' = my
        /\ gaveUp' = gaveUp /\ risk' = risk /\ (UNCHANGED cardVars \/ Reset)
    BY <1>7 DEF ComeBack, CardReset
  <2>2. ~Heard /\ Heard' /\ NotPaused' /\ Argued' /\ Own' = {}
    BY <2>1 DEF Heard, NotPaused, Warm, Returns, Argued, Own, Granted, Spot, Keeping
  <2>3. Cardinality(Live) <= gaveUp /\ Cardinality(Live) \in Nat
    BY <2>2, LiveFinite DEF BufferInv
  <2>4. Cardinality(Live') <= gaveUp
    <3>1. CASE UNCHANGED cardVars
      BY <2>3, <3>1, OthersSettle DEF Settled
    <3>2. CASE Reset
      <4>1. Live' = {}
        BY <3>2 DEF Reset, Live, NoAllocation
      <4> QED BY <1>1, <4>1, FS_EmptySet
    <3> QED BY <2>1, <3>1, <3>2
  <2>5. Accounted'
    <3>1. Live' \ {} = Live'
      OBVIOUS
    <3> QED BY <2>1, <2>2, <2>4, <3>1 DEF Accounted
  <2> QED BY <1>1, <2>1, <2>2, <2>5 DEF BufferInv
<1> QED
  BY <1>3, <1>4, <1>5, <1>6, <1>7

LEMMA BufferInvariance == ClientSpec => []BufferInv
<1>1. ClientInit => BufferInv
  <2> SUFFICES ASSUME ClientInit PROVE BufferInv
    OBVIOUS
  <2>1. /\ at = "rest" /\ gaveUp = 0 /\ silence = "ahead"
        /\ allocs = [h \in Handles |-> NoAllocation]
    BY DEF ClientInit, CardInit, Init
  <2>2. Live = {} /\ Own = {}
    BY <2>1 DEF Live, NoAllocation, Own, Granted, Spot, Keeping
  <2>3. Cardinality(Live \ Own) = 0
    BY <2>2, FS_EmptySet
  <2> QED BY <2>1, <2>2, <2>3
          DEF BufferInv, Accounted, Argued, NotPaused, Warm, Returns, Heard
<1>2. ClientInv /\ BufferInv /\ [ClientNext]_clientVars => BufferInv'
  <2> SUFFICES ASSUME ClientInv, BufferInv, [ClientNext]_clientVars PROVE BufferInv'
    OBVIOUS
  <2>1. CASE Running
    BY <2>1, AllocExecBuffers, FreeExecBuffers, BufferEnds, BufferWithin DEF Running, Program
  <2>2. CASE ~Running
    BY <2>2, BufferAround DEF ClientNext
  <2> QED BY <2>1, <2>2
<1> QED
  BY <1>1, <1>2, ClientInvariance, PTL DEF ClientSpec

(* Between stages only round trips that gave up, or that a silence cut     *)
(* off, have left a buffer behind.                                         *)
THEOREM NoLeak == ClientSpec => []BuffersReturned
<1>1. BufferInv => BuffersReturned
  <2> SUFFICES ASSUME BufferInv, at = "rest"
               PROVE  /\ Cardinality(Live) <= gaveUp
                      /\ silence = "ahead" => Cardinality(Live) = gaveUp
    BY DEF BuffersReturned
  <2>1. Own = {} /\ Live \ {} = Live
    BY DEF Own, Granted, Spot, Keeping
  <2> QED BY <2>1 DEF BufferInv, Accounted, Heard
<1> QED
  BY <1>1, BufferInvariance, PTL
=============================================================================
