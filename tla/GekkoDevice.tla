----------------------------- MODULE GekkoDevice -----------------------------
(***************************************************************************)
(* The protocol core every target shares (src/device.cpp): staging         *)
(* registers, the device-local pool, the job table and the completion      *)
(* queue, with one action per wire operation: F0 WriteReg, F1 Exec (one    *)
(* action per command), F3 WritePayloadWord, F4 WriteBlock and F5          *)
(* ReadBlock.  F2 ReadReg changes nothing.  The client is arbitrary: it    *)
(* may send any operation in any order, stale handles included.            *)
(*                                                                         *)
(* An FNV-1a checksum stands for the bytes it was taken over, so it is     *)
(* modelled as that sequence of bytes.  The timing figures (modeled_us,    *)
(* speedup, transport share) and the registers that only echo them are     *)
(* left out.  The allocator's scan and the completion ring appear by what  *)
(* they are proved to do (PoolAllocator, CompletionRing).                  *)
(*                                                                         *)
(* Descriptor blocks are parsed and executed one descriptor per step, as   *)
(* ProcessDescriptorBlock's loops do; the core is single threaded, so no   *)
(* other operation runs while phase is not "idle".                         *)
(***************************************************************************)
EXTENDS Pool, Sequences

CONSTANTS
  MaxJobs,          \* kMaxJobs, 16 in the code
  QueueDepth,       \* kCompletionQueueDepth, 16 in the code
  PayloadBytes,     \* kPayloadBytes, 1024 in the code
  BlockBytes,       \* kBlockBytes, 512 in the code
  DescriptorBytes,  \* sizeof(JobDescriptorV1) and CompletionRecordV1, 64
  Bytes,            \* the values of a byte
  RegWrites,        \* <<register, value>> pairs a client writes with F0
  PayloadWrites,    \* <<word index, byte>> pairs a client writes with F3
  Commands,         \* the F1 commands a client sends
  Blocks,           \* the F4 transfers a client makes
  Reads             \* the F5 requests a client makes

MaxDescriptorsPerBlock == BlockBytes \div DescriptorBytes

JobSlots == 1 .. MaxJobs

(* Status and HighCommand, protocol.h:107-128.                             *)
Ok == 0
BadCommand == 1
BadHandle == 2
NoMemory == 3
NotReady == 4
BadDescriptor == 5
BadBlock == 6
QueueFull == 7
Statuses == Ok .. QueueFull

Hello == 1
GetCaps == 2
Alloc == 3
Upload == 4
Submit == 5
Poll == 6
Collect == 7
Free == 8
Complete == 9

(* The staging registers whose values a property tells apart.              *)
StageRegs == {"Arg0", "Arg1", "PayloadLen", "Result", "Out0"}

ProtocolVersion == 1    \* kProtocolVersion, 1.0
Capabilities == 31      \* kCaps
CompleteAck == 9        \* kCompleteAck, 'PASS'

Checksum == Seq(Bytes)
Job == [handle : Nat, checksum : Checksum, polls : 0 .. 2,
        ready : BOOLEAN, live : BOOLEAN]
NoJob == [handle |-> 0, checksum |-> << >>, polls |-> 0,
          ready |-> FALSE, live |-> FALSE]

(***************************************************************************)
(* A descriptor as the parser finds it at its place in the block: magic    *)
(* "zero" is the terminating padding and "bad" a wrong magic, version or   *)
(* opcode.  An inline descriptor is followed by inLen bytes, all equal to  *)
(* data.  supplied is how many bytes the adapter received.                 *)
(***************************************************************************)
Descriptor == [magic : {"good", "bad", "zero"}, inline : BOOLEAN, seq : Nat,
               input : Nat, inOff : Nat, inLen : Nat,
               output : Nat, outOff : Nat, outLen : Nat, data : Bytes]
Block == [selector : Nat, len : Nat, supplied : Nat, images : Seq(Descriptor)]
ReadRequest == [selector : Nat, offset : Nat, len : Nat, room : Nat]
Completion == [status : Statuses, seq : Nat, job : Nat, checksum : Checksum]

ASSUME DeviceAssumption ==
  /\ MaxJobs \in Nat \ {0}
  /\ QueueDepth \in Nat \ {0}
  /\ PayloadBytes \in Nat
  /\ BlockBytes \in Nat
  /\ DescriptorBytes \in Nat \ {0}
  /\ 0 \in Bytes
  /\ RegWrites \subseteq StageRegs \X Word
  /\ PayloadWrites \subseteq Nat \X Bytes
  /\ Commands \subseteq Nat
  /\ Blocks \subseteq Block
  /\ Reads \subseteq ReadRequest

VARIABLES
  stage,        \* stage_, the registers of StageRegs
  digest,       \* the OUT register that carries a checksum
  payload,      \* payload_
  pool,         \* config_.pool
  allocs,       \* allocations_
  jobs,         \* jobs_
  nextJob,      \* next_job_
  completions,  \* completions_, oldest first
  completed,    \* completed_
  phase,        \* ProcessDescriptorBlock: "idle", "parse" or "run"
  block,        \* the block being processed
  cursor,       \* cursor
  batch,        \* descriptors[0 .. count)
  done,         \* how many of the batch were executed
  dropped,      \* dropped
  entry         \* history: the core as it was when the block came

core == <<pool, allocs, jobs, nextJob, completions>>
blockVars == <<phase, block, cursor, batch, done, dropped, entry>>
vars == <<stage, digest, payload, core, completed, blockVars>>

NoBlock == [selector |-> 0, len |-> 0, supplied |-> 0, images |-> << >>]

CoreNow ==
  [pool |-> pool, allocs |-> allocs, jobs |-> jobs, nextJob |-> nextJob,
   completions |-> completions]

BlankPool == [b \in 0 .. (PoolBytes - 1) |-> 0]
BlankPayload == [b \in 0 .. (PayloadBytes - 1) |-> 0]
NoEntry ==
  [pool |-> BlankPool, allocs |-> [h \in Handles |-> NoAllocation],
   jobs |-> [s \in JobSlots |-> NoJob], nextJob |-> 1, completions |-> << >>]

-----------------------------------------------------------------------------
(***************************************************************************)
(* Reading and writing the pool.                                           *)
(***************************************************************************)
BytesAt(from, n) == [k \in 1 .. n |-> pool[from + k - 1]]

(* Deviation: the copy runs one byte too far.                              *)
CopyOnePast(from, n, src) ==
  [b \in 0 .. (PoolBytes - 1) |->
     IF n # 0 /\ from <= b /\ b <= from + n
     THEN src[IF b = from + n THEN 0 ELSE b - from] ELSE pool[b]]

CopyTo(from, n, src) ==
  [b \in 0 .. (PoolBytes - 1) |->
     IF from <= b /\ b < from + n THEN src[b - from] ELSE pool[b]]

InRange(a, off, n) == off <= a.size /\ n <= a.size - off

Uploaded(a, upTo) ==
  [offset |-> a.offset, size |-> a.size, live |-> a.live,
   uploaded |-> IF upTo > a.uploaded THEN upTo ELSE a.uploaded]

IsFirstFreeJob(s) ==
  /\ s \in JobSlots
  /\ ~jobs[s].live
  /\ \A t \in 1 .. (s - 1) : jobs[t].live

(* JobForHandle: the first live job with that handle.                      *)
IsJob(h, s) ==
  /\ h # 0
  /\ s \in JobSlots
  /\ jobs[s].live /\ jobs[s].handle = h
  /\ \A t \in 1 .. (s - 1) : ~(jobs[t].live /\ jobs[t].handle = h)

Init ==
  /\ stage = [r \in StageRegs |-> 0]
  /\ digest = << >>
  /\ payload = BlankPayload
  /\ pool = BlankPool
  /\ allocs = [h \in Handles |-> NoAllocation]
  /\ jobs = [s \in JobSlots |-> NoJob]
  /\ nextJob = 1
  /\ completions = << >>
  /\ completed = FALSE
  /\ phase = "idle" /\ block = NoBlock /\ cursor = 0 /\ batch = << >>
  /\ done = 0 /\ dropped = FALSE /\ entry = NoEntry

Reset ==
  /\ phase = "idle"
  /\ stage' = [r \in StageRegs |-> 0]
  /\ digest' = << >>
  /\ payload' = BlankPayload
  /\ pool' = BlankPool
  /\ allocs' = [h \in Handles |-> NoAllocation]
  /\ jobs' = [s \in JobSlots |-> NoJob]
  /\ nextJob' = 1
  /\ completions' = << >>
  /\ completed' = FALSE
  /\ UNCHANGED blockVars

-----------------------------------------------------------------------------
(***************************************************************************)
(* F0 and F3.                                                              *)
(***************************************************************************)
WriteReg(r, v) ==
  /\ phase = "idle"
  /\ stage' = [stage EXCEPT ![r] = v]
  /\ UNCHANGED <<digest, payload, core, completed, blockVars>>

WritePayloadWord(index, v) ==
  /\ phase = "idle"
  /\ payload' = [b \in 0 .. (PayloadBytes - 1) |->
                   IF /\ 4 * index + 4 <= PayloadBytes
                      /\ 4 * index <= b /\ b < 4 * index + 4
                   THEN v ELSE payload[b]]
  /\ UNCHANGED <<stage, digest, core, completed, blockVars>>

(***************************************************************************)
(* F1.  Every command clears RESULT and the OUT registers first, so its    *)
(* answer replaces all of them.                                            *)
(***************************************************************************)
Answer(result, out0, sum) ==
  /\ stage' = [stage EXCEPT !["Result"] = result, !["Out0"] = out0]
  /\ digest' = sum

Fail(result) ==
  /\ Answer(result, 0, << >>)
  /\ UNCHANGED <<payload, core, completed, blockVars>>

ExecHello ==
  /\ Answer(Ok, ProtocolVersion, << >>)
  /\ UNCHANGED <<payload, core, completed, blockVars>>

ExecGetCaps ==
  /\ Answer(Ok, Capabilities, << >>)
  /\ UNCHANGED <<payload, core, completed, blockVars>>

(* Deviation: the hole is found for the size before rounding.              *)
AllocUnrounded ==
  \E h \in Handles, c \in 0 .. PoolBytes :
    /\ IsFirstFreeSlot(allocs, h)
    /\ IsFirstFit(allocs, c, stage["Arg0"])
    /\ allocs' = Place(allocs, h, c, stage["Arg0"])
    /\ Answer(Ok, h, << >>)
    /\ UNCHANGED <<payload, pool, jobs, nextJob, completions, completed, blockVars>>

ExecAlloc ==
  \/ /\ ~Grantable(allocs, stage["Arg0"])
     /\ Fail(NoMemory)
  \/ /\ stage["Arg0"] # 0
     /\ \E h \in Handles, c \in 0 .. PoolBytes :
          /\ IsFirstFreeSlot(allocs, h)
          /\ IsFirstFit(allocs, c, Rounded(stage["Arg0"]))
          /\ allocs' = Place(allocs, h, c, stage["Arg0"])
          /\ Answer(Ok, h, << >>)
     /\ UNCHANGED <<payload, pool, jobs, nextJob, completions, completed, blockVars>>

UploadAllowed ==
  /\ Resolves(allocs, stage["Arg0"])
  /\ stage["PayloadLen"] <= PayloadBytes
  /\ InRange(allocs[stage["Arg0"]], stage["Arg1"], stage["PayloadLen"])

ExecUpload ==
  LET h == stage["Arg0"]
      off == stage["Arg1"]
      n == stage["PayloadLen"]
      a == Uploaded(allocs[h], off + n)
  IN \/ /\ ~UploadAllowed
        /\ Fail(BadHandle)
     \/ /\ UploadAllowed
        /\ pool' = CopyTo(allocs[h].offset + off, n, payload)
        /\ allocs' = [allocs EXCEPT ![h] = a]
        /\ Answer(Ok, n, [k \in 1 .. a.uploaded |-> pool'[a.offset + k - 1]])
        /\ UNCHANGED <<payload, jobs, nextJob, completions, completed, blockVars>>

(* Deviation: next_job_ is not incremented.                                *)
SubmitKeepsCounter ==
  /\ Resolves(allocs, stage["Arg0"])
  /\ \E s \in JobSlots :
       /\ IsFirstFreeJob(s)
       /\ jobs' = [jobs EXCEPT ![s] =
            [handle |-> nextJob, checksum |-> << >>, polls |-> 2,
             ready |-> FALSE, live |-> TRUE]]
  /\ Answer(Ok, nextJob, << >>)
  /\ UNCHANGED <<payload, pool, allocs, nextJob, completions, completed, blockVars>>

ExecSubmit ==
  LET h == stage["Arg0"]
  IN \/ /\ ~Resolves(allocs, h)
        /\ Fail(BadHandle)
     \/ /\ Resolves(allocs, h)
        /\ \A s \in JobSlots : jobs[s].live
        /\ Fail(QueueFull)
     \/ /\ Resolves(allocs, h)
        /\ \E s \in JobSlots :
             /\ IsFirstFreeJob(s)
             /\ jobs' = [jobs EXCEPT ![s] =
                  [handle |-> nextJob,
                   checksum |-> BytesAt(allocs[h].offset, allocs[h].uploaded),
                   polls |-> 2, ready |-> FALSE, live |-> TRUE]]
        /\ nextJob' = nextJob + 1
        /\ Answer(Ok, nextJob, << >>)
        /\ UNCHANGED <<payload, pool, allocs, completions, completed, blockVars>>

(* Deviation: a job that is ready has to be polled anew.                   *)
PolledRearms(j) ==
  IF j.ready
  THEN [handle |-> j.handle, checksum |-> j.checksum, polls |-> 2,
        ready |-> FALSE, live |-> j.live]
  ELSE [handle |-> j.handle, checksum |-> j.checksum, polls |-> j.polls - 1,
        ready |-> j.polls = 1, live |-> j.live]

Polled(j) ==
  LET left == IF ~j.ready /\ j.polls > 0 THEN j.polls - 1 ELSE j.polls
  IN [handle |-> j.handle, checksum |-> j.checksum, polls |-> left,
      ready |-> j.ready \/ left = 0, live |-> j.live]

ExecPoll ==
  \/ /\ ~\E s \in JobSlots : IsJob(stage["Arg0"], s)
     /\ Fail(BadHandle)
  \/ /\ \E s \in JobSlots :
          /\ IsJob(stage["Arg0"], s)
          /\ jobs' = [jobs EXCEPT ![s] = Polled(jobs[s])]
          /\ Answer(Ok, IF Polled(jobs[s]).ready THEN 1 ELSE 0, << >>)
     /\ UNCHANGED <<payload, pool, allocs, nextJob, completions, completed, blockVars>>

ExecCollect ==
  \/ /\ ~\E s \in JobSlots : IsJob(stage["Arg0"], s)
     /\ Fail(BadHandle)
  \/ \E s \in JobSlots :
       /\ IsJob(stage["Arg0"], s)
       /\ \/ ~jobs[s].ready /\ Fail(NotReady)
          \/ /\ jobs[s].ready
             /\ Answer(Ok, 0, jobs[s].checksum)
             /\ UNCHANGED <<payload, core, completed, blockVars>>

ExecFree ==
  \/ /\ ~Resolves(allocs, stage["Arg0"])
     /\ Fail(BadHandle)
  \/ /\ Resolves(allocs, stage["Arg0"])
     /\ allocs' = Release(allocs, stage["Arg0"])
     /\ Answer(Ok, 0, << >>)
     /\ UNCHANGED <<payload, pool, jobs, nextJob, completions, completed, blockVars>>

ExecComplete ==
  /\ completed' = TRUE
  /\ Answer(Ok, CompleteAck, << >>)
  /\ UNCHANGED <<payload, core, blockVars>>

Exec(command) ==
  /\ phase = "idle"
  /\ \/ command = Hello /\ ExecHello
     \/ command = GetCaps /\ ExecGetCaps
     \/ command = Alloc /\ ExecAlloc
     \/ command = Upload /\ ExecUpload
     \/ command = Submit /\ ExecSubmit
     \/ command = Poll /\ ExecPoll
     \/ command = Collect /\ ExecCollect
     \/ command = Free /\ ExecFree
     \/ command = Complete /\ ExecComplete
     \/ command \notin Hello .. Complete /\ Fail(BadCommand)

-----------------------------------------------------------------------------
(***************************************************************************)
(* F4.  WriteBlock checks the transfer, ParseDescriptor is one iteration   *)
(* of the parsing loop, and RunDescriptor one of the executing loop.       *)
(***************************************************************************)
EndBlock(status) ==
  /\ stage' = [stage EXCEPT !["Result"] = status]
  /\ phase' = "idle" /\ block' = NoBlock /\ cursor' = 0 /\ batch' = << >>
  /\ done' = 0 /\ dropped' = FALSE /\ entry' = NoEntry

WriteBlock(w) ==
  /\ phase = "idle"
  /\ \/ /\ w.selector # 0 \/ w.len = 0 \/ w.len > BlockBytes \/ w.len > w.supplied
        /\ stage' = [stage EXCEPT !["Result"] = BadBlock]
        /\ UNCHANGED blockVars
     \/ /\ w.selector = 0 /\ w.len # 0 /\ w.len <= BlockBytes /\ w.len <= w.supplied
        /\ phase' = "parse"
        /\ block' = w
        /\ entry' = CoreNow
        /\ UNCHANGED <<stage, cursor, batch, done, dropped>>
  /\ UNCHANGED <<digest, payload, core, completed>>

(* What stands at the cursor: past the last image the block is padding.    *)
MoreToParse ==
  /\ cursor + DescriptorBytes <= block.len
  /\ Len(batch) < MaxDescriptorsPerBlock
  /\ Len(batch) < Len(block.images)
  /\ block.images[Len(batch) + 1].magic # "zero"

InlineLen(d) == IF d.inline THEN d.inLen ELSE 0

(* Deviation: the inline bytes are compared with the whole block.          *)
InlineFitsBlock(d, next) == InlineLen(d) <= block.len

InlineFits(d, next) == InlineLen(d) <= block.len - next

ParseDescriptor ==
  /\ phase = "parse"
  /\ MoreToParse
  /\ LET d == block.images[Len(batch) + 1]
         next == cursor + DescriptorBytes
     IN \/ d.magic = "bad" /\ EndBlock(BadDescriptor)
        \/ /\ d.magic = "good"
           /\ ~InlineFits(d, next)
           /\ EndBlock(BadBlock)
        \/ /\ d.magic = "good"
           /\ InlineFits(d, next)
           /\ batch' = Append(batch, d)
           /\ cursor' = next + InlineLen(d)
           /\ UNCHANGED <<stage, phase, block, done, dropped, entry>>
  /\ UNCHANGED <<digest, payload, core, completed>>

EndParse ==
  /\ phase = "parse"
  /\ ~MoreToParse
  /\ \/ batch = << >> /\ EndBlock(BadDescriptor)
     \/ /\ batch # << >>
        /\ phase' = "run"
        /\ UNCHANGED <<stage, block, cursor, batch, done, dropped, entry>>
  /\ UNCHANGED <<digest, payload, core, completed>>

InputOk(d) ==
  Resolves(allocs, d.input) /\ InRange(allocs[d.input], d.inOff, d.inLen)

InputPresent(d) == d.inline \/ allocs[d.input].uploaded >= d.inOff + d.inLen

(* The input is written first, so the output is checked against allocs.    *)
OutputOk(d) ==
  \/ d.output = 0
  \/ /\ Resolves(allocs, d.output)
     /\ InRange(allocs[d.output], d.outOff, d.outLen)

Executable(d) == InputOk(d) /\ InputPresent(d) /\ OutputOk(d)

PushCompletion(c) ==
  \/ /\ Len(completions) < QueueDepth
     /\ completions' = Append(completions, c)
     /\ UNCHANGED dropped
  \/ /\ Len(completions) >= QueueDepth
     /\ dropped' = TRUE
     /\ UNCHANGED completions

(* Deviation: a failing descriptor is skipped without a completion.        *)
FailQuietly(d, status) == UNCHANGED <<completions, dropped, jobs, nextJob>>

PushFailure(d, status) ==
  /\ PushCompletion([status |-> status, seq |-> d.seq, job |-> 0,
                     checksum |-> << >>])
  /\ UNCHANGED <<jobs, nextJob>>

(* The inline bytes reach the pool before the output and the job table are *)
(* checked, so a descriptor that fails there has already written them.     *)
CopyInline(d) ==
  \/ /\ d.inline
     /\ pool' = CopyTo(allocs[d.input].offset + d.inOff, d.inLen,
                       [k \in 0 .. (d.inLen - 1) |-> d.data])
     /\ allocs' = [allocs EXCEPT ![d.input] =
                     Uploaded(allocs[d.input], d.inOff + d.inLen)]
  \/ ~d.inline /\ UNCHANGED <<pool, allocs>>

(* Deviation: the completion is given next_job_ after its increment.       *)
StartJobNamingNext(d) ==
  LET sum == [k \in 1 .. d.inLen |->
                pool'[allocs[d.input].offset + d.inOff + k - 1]]
  IN /\ \E s \in JobSlots :
          /\ IsFirstFreeJob(s)
          /\ jobs' = [jobs EXCEPT ![s] =
               [handle |-> nextJob, checksum |-> sum, polls |-> 0,
                ready |-> TRUE, live |-> TRUE]]
     /\ nextJob' = nextJob + 1
     /\ PushCompletion([status |-> Ok, seq |-> d.seq, job |-> nextJob',
                        checksum |-> sum])

StartJob(d) ==
  LET sum == [k \in 1 .. d.inLen |->
                pool'[allocs[d.input].offset + d.inOff + k - 1]]
  IN /\ \E s \in JobSlots :
          /\ IsFirstFreeJob(s)
          /\ jobs' = [jobs EXCEPT ![s] =
               [handle |-> nextJob, checksum |-> sum, polls |-> 0,
                ready |-> TRUE, live |-> TRUE]]
     /\ nextJob' = nextJob + 1
     /\ PushCompletion([status |-> Ok, seq |-> d.seq, job |-> nextJob,
                        checksum |-> sum])

RunDescriptor ==
  /\ phase = "run"
  /\ done < Len(batch)
  /\ LET d == batch[done + 1]
     IN \/ /\ ~InputOk(d)
           /\ PushFailure(d, BadHandle)
           /\ UNCHANGED <<pool, allocs>>
        \/ /\ InputOk(d) /\ ~InputPresent(d)
           /\ PushFailure(d, BadDescriptor)
           /\ UNCHANGED <<pool, allocs>>
        \/ /\ InputOk(d) /\ InputPresent(d)
           /\ CopyInline(d)
           /\ \/ ~OutputOk(d) /\ PushFailure(d, BadHandle)
              \/ /\ OutputOk(d)
                 /\ \A s \in JobSlots : jobs[s].live
                 /\ PushFailure(d, QueueFull)
              \/ OutputOk(d) /\ StartJob(d)
  /\ done' = done + 1
  /\ UNCHANGED <<stage, digest, payload, completed, phase, block, cursor, batch, entry>>

(* Deviation: the block answers with its last descriptor's status.         *)
EndRunWithLastStatus ==
  /\ phase = "run"
  /\ done = Len(batch)
  /\ EndBlock(completions[Len(completions)].status)
  /\ UNCHANGED <<digest, payload, core, completed>>

EndRun ==
  /\ phase = "run"
  /\ done = Len(batch)
  /\ EndBlock(IF dropped THEN QueueFull ELSE Ok)
  /\ UNCHANGED <<digest, payload, core, completed>>

(***************************************************************************)
(* F5: pops as many whole records as fit, and nothing when refused.        *)
(***************************************************************************)
ReadBlock(q) ==
  /\ phase = "idle"
  /\ LET limit == IF q.len < q.room THEN q.len ELSE q.room
         fit == limit \div DescriptorBytes
         n == IF fit < Len(completions) THEN fit ELSE Len(completions)
     IN \/ /\ q.room = 0 \/ q.selector # 1 \/ q.offset # 0 \/ q.len = 0 \/ q.len > BlockBytes
           /\ stage' = [stage EXCEPT !["Result"] = BadBlock]
           /\ UNCHANGED completions
        \/ /\ q.room # 0 /\ q.selector = 1 /\ q.offset = 0 /\ q.len # 0 /\ q.len <= BlockBytes
           /\ stage' = [stage EXCEPT !["Result"] = Ok]
           /\ completions' = SubSeq(completions, n + 1, Len(completions))
  /\ UNCHANGED <<digest, payload, pool, allocs, jobs, nextJob, completed, blockVars>>

-----------------------------------------------------------------------------
Process == ParseDescriptor \/ EndParse \/ RunDescriptor \/ EndRun

Next ==
  \/ \E rv \in RegWrites : WriteReg(rv[1], rv[2])
  \/ \E iv \in PayloadWrites : WritePayloadWord(iv[1], iv[2])
  \/ \E command \in Commands : Exec(command)
  \/ \E w \in Blocks : WriteBlock(w)
  \/ Process
  \/ \E q \in Reads : ReadBlock(q)
  \/ Reset

Spec == Init /\ [][Next]_vars

(* ProcessDescriptorBlock is straight code: once entered, it returns.      *)
FairSpec == Spec /\ WF_vars(Process)
-----------------------------------------------------------------------------
(***************************************************************************)
(* Properties.                                                             *)
(***************************************************************************)

RegsOK ==
  /\ stage \in [StageRegs -> Nat]
  /\ digest \in Checksum
  /\ payload \in [0 .. (PayloadBytes - 1) -> Bytes]
  /\ completed \in BOOLEAN

MemoryOK ==
  /\ pool \in [0 .. (PoolBytes - 1) -> Bytes]
  /\ allocs \in [Handles -> Allocation]

JobsOK == jobs \in [JobSlots -> Job] /\ nextJob \in Nat

QueueOK == completions \in Seq(Completion) /\ Len(completions) <= QueueDepth

BlockOK ==
  /\ phase \in {"idle", "parse", "run"}
  /\ block \in Block
  /\ cursor \in Nat
  /\ batch \in Seq(Descriptor)
  /\ Len(batch) <= MaxDescriptorsPerBlock
  /\ done \in 0 .. Len(batch)
  /\ dropped \in BOOLEAN

(* Every field of the device keeps its type; the queue never holds more    *)
(* than kCompletionQueueDepth records (device.cpp:133-141) and a poll      *)
(* count never passes zero (device.cpp:309-316).                           *)
TypeOK == RegsOK /\ MemoryOK /\ JobsOK /\ QueueOK /\ BlockOK

(* Whatever the client sends, live allocations stay disjoint ranges of the *)
(* pool and none is marked uploaded past its end (device.cpp:65-115,       *)
(* 250-264, 339-348, 430-433).                                             *)
MemorySound == Sound(allocs)

Addressed(h) ==
  \/ phase = "idle" /\ stage["Arg0"] = h
  \/ phase = "run" /\ done < Len(batch) /\ batch[done + 1].input = h

OthersKept ==
  \A h \in Handles :
    allocs[h].live /\ allocs'[h].live /\ ~Addressed(h) =>
      \A b \in allocs[h].offset .. (End(allocs[h]) - 1) : pool'[b] = pool[b]

(* A step changes bytes of an allocation that is live before and after it  *)
(* only when the client addressed it: an UPLOAD naming its handle          *)
(* (device.cpp:259) or a descriptor whose input it is (device.cpp:431).    *)
BuffersIsolated == [][OthersKept]_vars

(* Job handles are monotonic within a session and not reused               *)
(* (NTR_WIRE_V1.md:254): slots fill from the first, the handle of slot s   *)
(* is s, and a job is ready exactly when it has no poll left               *)
(* (device.cpp:293-296, 309-316, 474-477).                                 *)
JobTableSound ==
  /\ nextJob \in 1 .. (MaxJobs + 1)
  /\ \A s \in JobSlots :
       /\ jobs[s].live <=> s < nextJob
       /\ jobs[s].live => /\ jobs[s].handle = s
                          /\ jobs[s].ready <=> jobs[s].polls = 0

JobsKept ==
  \A s \in JobSlots : jobs[s].live =>
    /\ jobs'[s].live
    /\ jobs'[s].handle = jobs[s].handle
    /\ jobs'[s].checksum = jobs[s].checksum
    /\ jobs[s].ready => jobs'[s].ready

(* Short of Reset, a submitted job keeps its handle and the checksum it    *)
(* was given, whatever is uploaded, freed or submitted after it, and never *)
(* turns unready again (device.cpp:284-296, 463-477).                      *)
AnswersStable == [][nextJob' # 1 => JobsKept]_vars

(* A completion with status Ok that waits in the queue names a job of the  *)
(* table that COLLECT will answer with the same checksum, and no two of    *)
(* them name the same job (device.cpp:463-483, 322-337).                   *)
CompletionsNameJobs ==
  \A k \in 1 .. Len(completions) : completions[k].status = Ok =>
    /\ \E s \in JobSlots :
         /\ IsJob(completions[k].job, s)
         /\ jobs[s].ready
         /\ jobs[s].checksum = completions[k].checksum
    /\ \A j \in 1 .. (k - 1) : completions[j].status = Ok =>
         completions[j].job < completions[k].job

(* While a batch runs, each descriptor executed so far has exactly one     *)
(* completion, in order, behind those that waited when the block came; a   *)
(* completion is missing only because the queue was full, and then dropped *)
(* says so (device.cpp:399-402, 410-486).                                  *)
BatchAnswered ==
  LET waiting == Len(entry.completions)
  IN phase = "run" =>
       /\ dropped <=> waiting + done > QueueDepth
       /\ ~dropped => Len(completions) = waiting + done
       /\ dropped => Len(completions) = QueueDepth
       /\ \A k \in 1 .. waiting : completions[k] = entry.completions[k]
       /\ \A k \in 1 .. done : waiting + k <= QueueDepth =>
            completions[waiting + k].seq = batch[k].seq

Refused ==
  /\ phase # "idle"
  /\ phase' = "idle"
  /\ stage'["Result"] \in {BadBlock, BadDescriptor}

(* A block answered BadBlock or BadDescriptor had no effect: parsing       *)
(* refuses the batch as a whole before any of it runs (device.cpp:371-397, *)
(* 496-498).                                                               *)
RefusedBlockIsNoOp == [][Refused => CoreNow' = entry]_vars

(* The batch that runs is a prefix of the block that is well formed and,   *)
(* with its inline data, lies within the bytes that were received          *)
(* (device.cpp:371-393, 491-492).                                          *)
BatchWithinBlock ==
  phase = "run" =>
    /\ batch # << >>
    /\ \A k \in 1 .. Len(batch) :
         batch[k] = block.images[k] /\ batch[k].magic = "good"
    /\ cursor <= block.len
    /\ block.len <= block.supplied
=============================================================================
