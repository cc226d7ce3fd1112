------------------------------ MODULE DsClient ------------------------------
(***************************************************************************)
(* The DS test program (ds-test/source/gekkopak_ntr.c and bench.c) against *)
(* the DSpico card: its legacy stage (ALLOC, UPLOAD, FREE over F0 to F3)   *)
(* and its block round trip (F4, event depth, F5), run in any order and    *)
(* any number of times, one card transaction per step.                     *)
(*                                                                         *)
(* Transactions get lost.  The rule measured on the hardware is "After any *)
(* pause in bus traffic the next transaction is lost" and "every           *)
(* transaction after it is stable and correct"                             *)
(* (docs/HARDWARE_DSPICO_V1.md:100-102), also after a handler that keeps   *)
(* the cartridge busy; after 512-byte writes the second one was lost too   *)
(* (gekkopak_ntr.h:168-175).  risk is how many of the next transactions    *)
(* may be lost: one after an EXEC, a swiDelay, the clearing of a block and *)
(* at the start of a stage, two after a block.  Of a lost transaction the  *)
(* core sees nothing.  A lost register read returns undriven data, or the  *)
(* zero that gpk_cmd_read32 starts from when it times out or never finds   *)
(* DATA_READY.                                                             *)
(*                                                                         *)
(* Once, at any moment, the cartridge may fall silent (it is pulled, or    *)
(* its firmware hangs): every transaction is lost until it is back, after  *)
(* the stage, with its state or reset.                                     *)
(***************************************************************************)
EXTENDS DspicoCard, FiniteSets

CONSTANTS
  Retries,       \* the reads after the first of gpk_read_reg, 6 in the code
  DrainRounds,   \* the bound of gpk_drain_completions, 8
  MaxAttempts,   \* GPK_F4_MAX_ATTEMPTS, 8
  MaxPolls,      \* the polls of the event depth per attempt, 16
  PatternBytes   \* sizeof(gpkTestPattern), 16

ASSUME ClientAssumption ==
  /\ Retries \in Nat \ {0} /\ DrainRounds \in Nat \ {0}
  /\ MaxAttempts \in Nat \ {0} /\ MaxPolls \in Nat \ {0, 1}
  /\ PatternBytes \in 1 .. PayloadBytes
  /\ DescriptorBytes <= BlockBytes
  /\ 1 \in Bytes

VARIABLES
  at,      \* where the program is
  vote,    \* gpk_read_reg: register, return label, prev (its result), reads so far
  my,      \* the locals and the report of the stage
  risk,    \* how many of the next transactions may be lost
  gaveUp,  \* how many stages returned without an answer or met a silence
  silence  \* of the cartridge: "ahead", "now" or "over"

clientVars == <<cardVars, at, vote, my, risk, gaveUp, silence>>

Number(n) == <<n>>
AllOnes == Number(WordMod - 1)
PartlyDriven == Number(WordMod \div 4 - 1)
Garbage == {AllOnes, PartlyDriven, Number(0)}
Dead == {AllOnes, Number(0)}

PatternByte == 1
Pattern == [k \in 1 .. PatternBytes |-> PatternByte]
ProbeValues == <<13, 1>>

(* F2.                                                                     *)
RegValue(r) ==
  CASE r = "Depth" -> Number(Len(completions))
    [] r = "Out1" -> <<"sum", digest>>
    [] OTHER -> Number(stage[r])

NoRecord == [status |-> BadBlock, seq |-> 0, job |-> 0, checksum |-> << >>]
Records == {NoRecord} \cup {completions[k] : k \in 1 .. Len(completions)}

Locals(legacy, prime) ==
  [legacy |-> legacy, prime |-> prime, guard |-> 0, attempt |-> 0, polls |-> 0,
   handle |-> 0, f4Attempts |-> 0, record |-> NoRecord,
   outcome |-> "none", firstJob |-> nextJob]

ClientInit ==
  /\ CardInit
  /\ silence = "ahead"
  /\ at = "rest"
  /\ vote = [reg |-> "Result", then |-> "rest", prev |-> Number(0), reads |-> 0]
  /\ my = Locals(TRUE, FALSE)
  /\ risk = 1
  /\ gaveUp = 0
-----------------------------------------------------------------------------
(***************************************************************************)
(* Transactions.                                                           *)
(***************************************************************************)
Heard == silence # "now"

(* What follows a transaction that was lost is still at risk if that one   *)
(* was not the last to be; what follows one that was heard is not.         *)
Missed == (risk > 0 \/ ~Heard) /\ UNCHANGED cardVars

Lost == Missed /\ risk' = IF risk > 0 THEN risk - 1 ELSE 0

F0(r, v) ==
  (Heard /\ WriteReg(r, v) /\ risk' = 0 /\ UNCHANGED f4) \/ Lost

(* gpk_exec up to its discarded read: the swiDelay is a pause.             *)
F1(c) ==
  /\ (Heard /\ Exec(c) /\ UNCHANGED f4) \/ Missed
  /\ risk' = 1

F3(i, v) ==
  (Heard /\ WritePayloadWord(i, v) /\ risk' = 0 /\ UNCHANGED f4) \/ Lost

F4(w) == (Heard /\ WriteBlockCmd1(w) /\ risk' = 2) \/ Lost

(* F5, and the first record of what the program finds in its buffer.  An   *)
(* F5 may reach the core and yet come back shifted, behind three undriven  *)
(* words, so that there is no record where the program looks; why, and     *)
(* whether priming helps, the repository leaves open (main.c:893-897).     *)
F5(n, record) ==
  \/ /\ Heard
     /\ ReadBlock([selector |-> 1, offset |-> 0, len |-> n, room |-> BlockBytes])
     /\ record \in {NoRecord} \cup IF n < DescriptorBytes \/ completions = << >>
                                  THEN {} ELSE {completions[1]}
     /\ risk' = 0
     /\ UNCHANGED f4
  \/ Lost /\ record = NoRecord

(* gpk_read_reg: until two reads agree, or the last one whatever it is.    *)
Call(r, then) ==
  /\ at' = "read"
  /\ vote' = [reg |-> r, then |-> then, prev |-> Number(0), reads |-> 0]

(* A deviation for Agrees: the first answer is taken.                      *)
AgreesAtOnce(v) == v # AllOnes

Agrees(v) == vote.reads > 0 /\ v = vote.prev /\ v # AllOnes

(* What it returned: prev, also where two reads agree.                     *)
Value == vote.prev

ReadReg ==
  /\ at = "read"
  /\ UNCHANGED <<cardVars, my, gaveUp>>
  /\ \E v \in Garbage \cup {RegValue(vote.reg)} :
       /\ \/ Heard /\ phase = "idle" /\ v = RegValue(vote.reg) /\ risk' = 0
          \/ Lost /\ v \in IF Heard THEN Garbage ELSE Dead
       /\ IF Agrees(v) \/ vote.reads = Retries
          THEN /\ at' = vote.then
               /\ vote' = [vote EXCEPT !.prev = v, !.reads = 0]
          ELSE /\ vote' = [vote EXCEPT !.prev = v, !.reads = @ + 1]
               /\ UNCHANGED at

GoTo(label) == at' = label /\ UNCHANGED vote
NoTransaction == UNCHANGED <<cardVars, risk, gaveUp>>

(* The end of a stage.                                                     *)
Return(outcome, abandoned) ==
  /\ GoTo("rest")
  /\ my' = [my EXCEPT !.outcome = outcome]
  /\ gaveUp' = IF abandoned /\ Heard THEN gaveUp + 1 ELSE gaveUp
  /\ UNCHANGED <<cardVars, risk>>

(* A stage; the F5 matrix of bench.c runs round trips with and without    *)
(* priming of block reads.                                                 *)
Begin(legacy, prime) ==
  /\ at = "rest"
  /\ GoTo(IF legacy THEN "probe" ELSE "drain")
  /\ my' = Locals(legacy, prime)
  /\ risk' = 1
  /\ UNCHANGED <<cardVars, gaveUp>>
-----------------------------------------------------------------------------
(***************************************************************************)
(* gpk_alloc and gpk_upload.  The second read of OUT1 in gpk_alloc only    *)
(* fills a report field.                                                   *)
(***************************************************************************)
AllocArg ==
  /\ at = "alloc"
  /\ F0("Arg0", PatternBytes)
  /\ GoTo("allocExec")
  /\ UNCHANGED <<my, gaveUp>>

AllocExec ==
  /\ at = "allocExec"
  /\ F1(Alloc)
  /\ Call("Result", "allocDone")
  /\ UNCHANGED <<my, gaveUp>>

AllocDone ==
  /\ at = "allocDone"
  /\ Call("Result", "allocResult")
  /\ NoTransaction /\ UNCHANGED my

AllocResult ==
  /\ at = "allocResult"
  /\ \/ /\ Value = Number(Ok)
        /\ Call("Out0", "allocated")
        /\ NoTransaction /\ UNCHANGED my
     \/ /\ Value # Number(Ok)
        /\ Return("fail", FALSE)

Allocated ==
  /\ at = "allocated"
  /\ \/ /\ Value = Number(0)
        /\ Return("fail", FALSE)
     \/ /\ Value # Number(0)
        /\ my' = [my EXCEPT !.handle = Value[1], !.guard = 1]
        /\ GoTo(IF my.legacy THEN "payload" ELSE "prime")
        /\ risk' = IF my.legacy THEN risk ELSE 1
        /\ UNCHANGED <<cardVars, gaveUp>>

UploadPayload ==
  /\ at = "payload"
  /\ F3(0, PatternByte)
  /\ GoTo("uploadArgs")
  /\ UNCHANGED <<my, gaveUp>>

UploadArgs ==
  /\ at = "uploadArgs"
  /\ LET regs == << <<"Arg0", my.handle>>, <<"Arg1", 0>>, <<"PayloadLen", PatternBytes>> >>
     IN /\ F0(regs[my.guard][1], regs[my.guard][2])
        /\ GoTo(IF my.guard = Len(regs) THEN "uploadExec" ELSE at)
  /\ my' = [my EXCEPT !.guard = @ + 1]
  /\ UNCHANGED gaveUp

UploadExec ==
  /\ at = "uploadExec"
  /\ F1(Upload)
  /\ Call("Result", "uploadDone")
  /\ UNCHANGED <<my, gaveUp>>

UploadDone ==
  /\ at = "uploadDone"
  /\ Call("Result", "uploadResult")
  /\ NoTransaction /\ UNCHANGED my

UploadResult ==
  /\ at = "uploadResult"
  /\ IF Value = Number(Ok) THEN Call("Out1", "uploaded") ELSE GoTo("free")
  /\ NoTransaction /\ UNCHANGED my

ReadChecksum ==
  /\ at = "uploaded"
  /\ my' = [my EXCEPT !.record = [status |-> Ok, seq |-> 0, job |-> 0,
                                  checksum |-> IF Len(Value) = 2 THEN Value[2] ELSE << >>]]
  /\ GoTo("free")
  /\ NoTransaction

(* A deviation for FreeArg: FREE is sent with what ARG0 holds.             *)
FreeArgSkipped ==
  /\ at = "free"
  /\ GoTo("freeExec")
  /\ NoTransaction /\ UNCHANGED my

FreeArg ==
  /\ at = "free"
  /\ F0("Arg0", my.handle)
  /\ GoTo("freeExec")
  /\ UNCHANGED <<my, gaveUp>>

FreeExec ==
  /\ at = "freeExec"
  /\ F1(Free)
  /\ Call("Result", "end")
  /\ UNCHANGED <<my, gaveUp>>

(* The checksum, and for a block also what f5_ok asks of the record.       *)
RecordOk ==
  \/ my.legacy
  \/ /\ my.record.status = Ok
     /\ my.record.seq \in 1 .. MaxAttempts
     /\ my.record.job # 0

Report ==
  /\ at = "end"
  /\ Return(IF RecordOk /\ my.record.checksum = Pattern THEN "pass" ELSE "fail", FALSE)

(* gpk_stage_legacy up to its ALLOC: two values through F0 and F2.         *)
Probe ==
  /\ at = "probe"
  /\ F0("Arg0", ProbeValues[my.guard + 1])
  /\ Call("Arg0", "probed")
  /\ UNCHANGED <<my, gaveUp>>

Probed ==
  /\ at = "probed"
  /\ \/ /\ Value # Number(ProbeValues[my.guard + 1])
        /\ Return("fail", FALSE)
     \/ /\ Value = Number(ProbeValues[my.guard + 1])
        /\ my' = [my EXCEPT !.guard = @ + 1]
        /\ GoTo(IF my.guard + 1 = Len(ProbeValues) THEN "alloc" ELSE "probe")
        /\ NoTransaction
-----------------------------------------------------------------------------
(***************************************************************************)
(* gpk_stage_block_roundtrip.                                              *)
(***************************************************************************)
(* A deviation for Drain: leftover completions are not drained.            *)
DrainSkipped ==
  /\ at = "drain"
  /\ GoTo("alloc")
  /\ NoTransaction /\ UNCHANGED my

Drain ==
  /\ at = "drain"
  /\ IF my.guard < DrainRounds THEN Call("Depth", "drained") ELSE GoTo("alloc")
  /\ NoTransaction /\ UNCHANGED my

Drained ==
  /\ at = "drained"
  /\ GoTo(IF Value = Number(0) THEN "alloc" ELSE "drainRead")
  /\ NoTransaction /\ UNCHANGED my

DrainRead ==
  /\ at = IF my.prime THEN "drainPrimed" ELSE "drainRead"
  /\ \E record \in Records : F5(BlockBytes, record)
  /\ my' = [my EXCEPT !.guard = @ + 1]
  /\ GoTo("drain")
  /\ UNCHANGED gaveUp

(* A zeroed block, then one descriptor with the pattern inline.            *)
ZeroBlock == [selector |-> 0, len |-> BlockBytes, supplied |-> 0, images |-> << >>]

JobBlock ==
  [selector |-> 0, len |-> DescriptorBytes + PatternBytes, supplied |-> 0,
   images |-> << [magic |-> "good", inline |-> TRUE, seq |-> 1 + my.attempt,
                  input |-> my.handle, inOff |-> 0, inLen |-> PatternBytes,
                  output |-> 0, outOff |-> 0, outLen |-> PatternBytes,
                  data |-> PatternByte] >>]

PrimeF4 ==
  /\ at = "prime"
  /\ F4(ZeroBlock)
  /\ GoTo("block")
  /\ UNCHANGED <<my, gaveUp>>

SendF4 ==
  /\ at = "block"
  /\ F4(JobBlock)
  /\ my' = [my EXCEPT !.polls = 0]
  /\ GoTo("poll")
  /\ UNCHANGED gaveUp

PollDepth ==
  /\ at = "poll"
  /\ Call("Depth", "polled")
  /\ NoTransaction /\ UNCHANGED my

(* A deviation for Answered: the loop goes on after an answer.             *)
AnsweredGoesOn ==
  /\ at = "polled"
  /\ Value # Number(0)
  /\ my' = [my EXCEPT !.f4Attempts = my.attempt + 1,
                      !.attempt = @ + 1]
  /\ GoTo(IF my.attempt + 1 < MaxAttempts THEN "prime" ELSE "fetch")
  /\ risk' = 1
  /\ UNCHANGED <<cardVars, gaveUp>>

Answered ==
  /\ at = "polled"
  /\ Value # Number(0)
  /\ my' = [my EXCEPT !.f4Attempts = my.attempt + 1]
  /\ GoTo("fetch")
  /\ risk' = 1
  /\ UNCHANGED <<cardVars, gaveUp>>

(* A deviation for PollAgain: polls are not counted.                       *)
PollForever ==
  /\ at = "polled"
  /\ Value = Number(0)
  /\ GoTo("poll")
  /\ risk' = 1
  /\ UNCHANGED <<cardVars, my, gaveUp>>

PollAgain ==
  /\ at = "polled"
  /\ Value = Number(0) /\ my.polls + 1 < MaxPolls
  /\ my' = [my EXCEPT !.polls = @ + 1]
  /\ GoTo("poll")
  /\ risk' = 1
  /\ UNCHANGED <<cardVars, gaveUp>>

Resend ==
  /\ at = "polled"
  /\ Value = Number(0) /\ my.polls + 1 = MaxPolls /\ my.attempt + 1 < MaxAttempts
  /\ my' = [my EXCEPT !.attempt = @ + 1]
  /\ GoTo("prime")
  /\ risk' = 1
  /\ UNCHANGED <<cardVars, gaveUp>>

(* The early return: the buffer is not freed.                              *)
GiveUp ==
  /\ at = "polled"
  /\ Value = Number(0) /\ my.polls + 1 = MaxPolls /\ my.attempt + 1 = MaxAttempts
  /\ Return("fail", TRUE)

(* With gpkPrimeBlockRead every F5 is preceded by one of length zero.      *)
Primed == IF at = "fetch" THEN "fetchPrimed" ELSE "drainPrimed"

(* A deviation for PrimeF5: the primer asks for a record.                  *)
PrimeF5Pops ==
  /\ at \in {"fetch", "drainRead"}
  /\ my.prime
  /\ \E record \in Records : F5(DescriptorBytes, record)
  /\ GoTo(Primed)
  /\ UNCHANGED <<my, gaveUp>>

PrimeF5 ==
  /\ at \in {"fetch", "drainRead"}
  /\ my.prime
  /\ F5(0, NoRecord)
  /\ GoTo(Primed)
  /\ UNCHANGED <<my, gaveUp>>

FetchF5 ==
  /\ at = IF my.prime THEN "fetchPrimed" ELSE "fetch"
  /\ \E record \in Records :
       /\ F5(DescriptorBytes, record)
       /\ my' = [my EXCEPT !.record = record]
  /\ GoTo("free")
  /\ UNCHANGED gaveUp
-----------------------------------------------------------------------------
Program ==
  \/ ReadReg
  \/ AllocArg \/ AllocExec \/ AllocDone \/ AllocResult \/ Allocated
  \/ UploadPayload \/ UploadArgs \/ UploadExec \/ UploadDone \/ UploadResult \/ ReadChecksum
  \/ FreeArg \/ FreeExec \/ Report \/ Probe \/ Probed
  \/ Drain \/ Drained \/ DrainRead \/ PrimeF4 \/ SendF4 \/ PollDepth
  \/ Answered \/ PollAgain \/ Resend \/ GiveUp \/ PrimeF5 \/ FetchF5

Running == Program /\ UNCHANGED silence

Cartridge == CardProcess /\ UNCHANGED <<at, vote, my, risk, gaveUp, silence>>

FallSilent ==
  /\ silence = "ahead"
  /\ silence' = "now"
  /\ gaveUp' = IF at = "rest" THEN gaveUp ELSE gaveUp + 1
  /\ UNCHANGED <<cardVars, at, vote, my, risk>>

ComeBack ==
  /\ silence = "now" /\ at = "rest" /\ phase = "idle"
  /\ silence' = "over"
  /\ UNCHANGED cardVars \/ CardReset
  /\ UNCHANGED <<at, vote, my, risk, gaveUp>>

ClientNext ==
  \/ Running
  \/ Cartridge
  \/ Begin(TRUE, FALSE) /\ UNCHANGED silence
  \/ \E prime \in BOOLEAN : Begin(FALSE, prime) /\ UNCHANGED silence
  \/ FallSilent \/ ComeBack

(* The program has no other thread to wait for, and the cartridge finishes *)
(* the block it has taken; it need never fall silent, or come back.        *)
ClientSpec ==
  ClientInit /\ [][ClientNext]_clientVars
    /\ WF_clientVars(Running) /\ WF_clientVars(Cartridge)
-----------------------------------------------------------------------------
Live == {h \in Handles : allocs[h].live}

(* The first poll of the event depth, right behind a block.                *)
BehindBlock == vote.then = "polled" /\ my.polls = 0

ReadIsTrue ==
  at = "read" /\ at' # "read" /\ Heard /\ ~BehindBlock => vote'.prev = RegValue(vote.reg)

(* While the cartridge answers, gpk_read_reg returns what the register     *)
(* holds from every place the program calls it but one, whatever the read  *)
(* lost to a pause came back as, zero included: two reads must agree.  The *)
(* one is the first poll behind a block, where both may be lost alike      *)
(* (gekkopak_ntr.h:168-191).                                               *)
ReadsAreTrue == [][ReadIsTrue]_clientVars

(* Within a round trip at most one job runs, however often the block was   *)
(* sent: it is sent again only if the core has not seen it                 *)
(* (bench.c:174-203).                                                      *)
RunsAtMostOnce == my.legacy \/ nextJob <= my.firstJob + 1

(* A stage that passes has seen the answer to its own request: the record  *)
(* was made by the attempt the report names, over the bytes this stage     *)
(* sent; nothing is left in the queue.  A cartridge that falls silent at   *)
(* any point of a stage, whose registers then read as a handle and as a    *)
(* depth, never makes it pass (bench.c:142, 209-233).                      *)
PassIsHonest ==
  at = "rest" /\ my.outcome = "pass" /\ ~my.legacy =>
    /\ my.record.seq = my.f4Attempts
    /\ my.record.job = my.firstJob
    /\ completions = << >>

(* Between stages the only live buffers are those of round trips that gave *)
(* up waiting for an answer or that a silence cut off: the early return at *)
(* bench.c:204 is the only path on which a buffer is not freed             *)
(* (bench.c:131-132, 204-207, 231-232).                                    *)
BuffersReturned ==
  at = "rest" =>
    /\ Cardinality(Live) <= gaveUp
    /\ silence = "ahead" => Cardinality(Live) = gaveUp

(* When the program reads the completion of a job that has run, the        *)
(* completion is still in the queue, and it is that of the attempt the     *)
(* report will name: neither the drain of an earlier stage nor the F5 of   *)
(* length zero that primes the read has taken it, and the first of two     *)
(* jobs does not wait in front of it (gekkopak_ntr.c:157-163, 181-190).    *)
AnswerWaits ==
  at \in {"fetch", "fetchPrimed"} /\ Heard /\ nextJob # my.firstJob =>
    completions # << >> /\ completions[1].seq = my.f4Attempts

(* Every stage ends, however many transactions are lost                    *)
(* (gekkopak_ntr.h:184, bench.c:85, 174, 195).                             *)
StageEnds == (at # "rest") ~> (at = "rest")
=============================================================================
