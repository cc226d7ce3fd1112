-------------------------- MODULE GekkoDeviceProofs --------------------------
(***************************************************************************)
(* The device core is correct for every pool, table, queue and block size, *)
(* every set of blocks and every client.                                   *)
(***************************************************************************)
EXTENDS GekkoDevice, OperatorLemmas, SequenceTheorems

(***************************************************************************)
(* The core under any client at all: every register and value, every block *)
(* and every request.  The clients of this project are cases of it.        *)
(***************************************************************************)
AnyNext ==
  \/ \E r \in StageRegs, v \in Nat : WriteReg(r, v)
  \/ \E i \in Nat, v \in Bytes : WritePayloadWord(i, v)
  \/ \E command \in Nat : Exec(command)
  \/ \E w \in Block : WriteBlock(w)
  \/ Process
  \/ \E q \in ReadRequest : ReadBlock(q)
  \/ Reset

AnySpec == Init /\ [][AnyNext]_vars

(* The core with the operations it is given is the core under some client. *)
LEMMA GivenClient == Next => AnyNext
  <1> SUFFICES ASSUME Next PROVE AnyNext
    OBVIOUS
  <1>1. CASE \E rv \in RegWrites : WriteReg(rv[1], rv[2])
    <2>1. PICK rv \in RegWrites : WriteReg(rv[1], rv[2])
      BY <1>1
    <2>2. rv[1] \in StageRegs /\ rv[2] \in Nat
      BY DeviceAssumption, PoolAssumption DEF Word
    <2> QED
      BY <2>1, <2>2 DEF AnyNext
  <1>2. CASE \E iv \in PayloadWrites : WritePayloadWord(iv[1], iv[2])
    <2>1. PICK iv \in PayloadWrites : WritePayloadWord(iv[1], iv[2])
      BY <1>2
    <2>2. iv[1] \in Nat /\ iv[2] \in Bytes
      BY DeviceAssumption
    <2> QED
      BY <2>1, <2>2 DEF AnyNext
  <1>3. CASE \E command \in Commands : Exec(command)
    BY <1>3, DeviceAssumption DEF AnyNext
  <1>4. CASE \E w \in Blocks : WriteBlock(w)
    BY <1>4, DeviceAssumption DEF AnyNext
  <1>5. CASE \E q \in Reads : ReadBlock(q)
    BY <1>5, DeviceAssumption DEF AnyNext
  <1> QED
    BY <1>1, <1>2, <1>3, <1>4, <1>5 DEF Next, AnyNext

LEMMA GivenSpec == Spec => AnySpec
  BY GivenClient, PTL DEF Spec, AnySpec

(***************************************************************************)
(* Which actions touch which part of the core.                             *)
(***************************************************************************)
(* Only ALLOC, UPLOAD, FREE, a descriptor and Reset touch the memory.      *)
LEMMA TouchesMemory ==
  ASSUME [AnyNext]_vars
  PROVE  \/ UNCHANGED <<pool, allocs>>
         \/ Reset
         \/ phase = "idle" /\ (ExecAlloc \/ ExecUpload \/ ExecFree)
         \/ RunDescriptor
  <1>1. CASE UNCHANGED vars
    BY <1>1 DEF vars, core
  <1>2. CASE \E r \in StageRegs, v \in Nat : WriteReg(r, v)
    BY <1>2 DEF WriteReg, core
  <1>3. CASE \E i \in Nat, v \in Bytes : WritePayloadWord(i, v)
    BY <1>3 DEF WritePayloadWord, core
  <1>4. CASE \E command \in Nat : Exec(command)
    BY <1>4 DEF Exec, ExecHello, ExecGetCaps, ExecSubmit, ExecPoll,
                ExecCollect, ExecComplete, Fail, core
  <1>5. CASE \E w \in Block : WriteBlock(w)
    BY <1>5 DEF WriteBlock, core
  <1>6. CASE Process
    BY <1>6 DEF Process, ParseDescriptor, EndParse, EndRun, core
  <1>7. CASE \E q \in ReadRequest : ReadBlock(q)
    BY <1>7 DEF ReadBlock
  <1> QED
    BY <1>1, <1>2, <1>3, <1>4, <1>5, <1>6, <1>7 DEF AnyNext

(* Only SUBMIT, POLL, a descriptor and Reset touch the job table.          *)
LEMMA TouchesJobs ==
  ASSUME [AnyNext]_vars
  PROVE  \/ UNCHANGED <<jobs, nextJob>>
         \/ Reset
         \/ phase = "idle" /\ (ExecSubmit \/ ExecPoll)
         \/ RunDescriptor
  <1>1. CASE UNCHANGED vars
    BY <1>1 DEF vars, core
  <1>2. CASE \E r \in StageRegs, v \in Nat : WriteReg(r, v)
    BY <1>2 DEF WriteReg, core
  <1>3. CASE \E i \in Nat, v \in Bytes : WritePayloadWord(i, v)
    BY <1>3 DEF WritePayloadWord, core
  <1>4. CASE \E command \in Nat : Exec(command)
    BY <1>4 DEF Exec, ExecHello, ExecGetCaps, ExecAlloc, ExecUpload, ExecFree,
                ExecCollect, ExecComplete, Fail, core
  <1>5. CASE \E w \in Block : WriteBlock(w)
    BY <1>5 DEF WriteBlock, core
  <1>6. CASE Process
    BY <1>6 DEF Process, ParseDescriptor, EndParse, EndRun, core
  <1>7. CASE \E q \in ReadRequest : ReadBlock(q)
    BY <1>7 DEF ReadBlock
  <1> QED
    BY <1>1, <1>2, <1>3, <1>4, <1>5, <1>6, <1>7 DEF AnyNext

(* Only a descriptor, an F5 read and Reset touch the completion queue.     *)
LEMMA TouchesQueue ==
  ASSUME [AnyNext]_vars
  PROVE  \/ UNCHANGED completions
         \/ Reset
         \/ RunDescriptor
         \/ \E q \in ReadRequest : ReadBlock(q)
  <1>1. CASE UNCHANGED vars
    BY <1>1 DEF vars, core
  <1>2. CASE \E r \in StageRegs, v \in Nat : WriteReg(r, v)
    BY <1>2 DEF WriteReg, core
  <1>3. CASE \E i \in Nat, v \in Bytes : WritePayloadWord(i, v)
    BY <1>3 DEF WritePayloadWord, core
  <1>4. CASE \E command \in Nat : Exec(command)
    BY <1>4 DEF Exec, ExecHello, ExecGetCaps, ExecAlloc, ExecUpload, ExecFree,
                ExecSubmit, ExecPoll, ExecCollect, ExecComplete, Fail, core
  <1>5. CASE \E w \in Block : WriteBlock(w)
    BY <1>5 DEF WriteBlock, core
  <1>6. CASE Process
    BY <1>6 DEF Process, ParseDescriptor, EndParse, EndRun, core
  <1> QED
    BY <1>1, <1>2, <1>3, <1>4, <1>5, <1>6 DEF AnyNext

(* Only F4 and the processing of its block touch the block.                *)
LEMMA TouchesBlock ==
  ASSUME [AnyNext]_vars
  PROVE  \/ UNCHANGED blockVars
         \/ \E w \in Block : WriteBlock(w)
         \/ Process
  <1>1. CASE UNCHANGED vars
    BY <1>1 DEF vars
  <1>2. CASE \E r \in StageRegs, v \in Nat : WriteReg(r, v)
    BY <1>2 DEF WriteReg
  <1>3. CASE \E i \in Nat, v \in Bytes : WritePayloadWord(i, v)
    BY <1>3 DEF WritePayloadWord
  <1>4. CASE \E command \in Nat : Exec(command)
    BY <1>4 DEF Exec, ExecHello, ExecGetCaps, ExecAlloc, ExecUpload, ExecFree,
                ExecSubmit, ExecPoll, ExecCollect, ExecComplete, Fail
  <1>5. CASE \E q \in ReadRequest : ReadBlock(q)
    BY <1>5 DEF ReadBlock
  <1>6. CASE Reset
    BY <1>6 DEF Reset
  <1> QED
    BY <1>1, <1>2, <1>3, <1>4, <1>5, <1>6 DEF AnyNext
-----------------------------------------------------------------------------
(***************************************************************************)
(* The memory: TypeOK and MemorySound are inductive together, since a copy *)
(* and a checksum stay inside the pool only because allocations do.        *)
(***************************************************************************)
LEMMA CopyTyped ==
  ASSUME MemoryOK, NEW from \in Nat, NEW n \in Nat, NEW src,
         \A k \in 0 .. (n - 1) : src[k] \in Bytes
  PROVE  CopyTo(from, n, src) \in [0 .. (PoolBytes - 1) -> Bytes]
  <1>1. ASSUME NEW b \in 0 .. (PoolBytes - 1)
        PROVE  (IF from <= b /\ b < from + n THEN src[b - from] ELSE pool[b])
                 \in Bytes
    <2>1. CASE from <= b /\ b < from + n
      <3>1. b - from \in 0 .. (n - 1)
        BY <2>1, PoolAssumption
      <3> QED
        BY <2>1, <3>1
    <2>2. CASE ~(from <= b /\ b < from + n)
      BY <2>2 DEF MemoryOK
    <2> QED
      BY <2>1, <2>2
  <1> QED
    BY <1>1 DEF CopyTo

LEMMA SumTyped ==
  ASSUME NEW p \in [0 .. (PoolBytes - 1) -> Bytes], NEW from \in Nat,
         NEW n \in Nat, from + n <= PoolBytes
  PROVE  [k \in 1 .. n |-> p[from + k - 1]] \in Checksum
  <1>1. \A k \in 1 .. n : from + k - 1 \in 0 .. (PoolBytes - 1)
    BY PoolAssumption
  <1>2. \A k \in 1 .. n : p[from + k - 1] \in Bytes
    BY <1>1
  <1> QED
    BY <1>2 DEF Checksum

(* A range that was checked lies inside the pool, and marking it uploaded  *)
(* keeps the table typed and sound.                                        *)
LEMMA RangeInPool ==
  ASSUME MemoryOK, MemorySound, NEW h, Resolves(allocs, h),
         NEW off \in Nat, NEW n \in Nat, InRange(allocs[h], off, n)
  PROVE  /\ h \in Handles
         /\ allocs[h].offset \in Nat
         /\ allocs[h].offset + off \in Nat
         /\ allocs[h].offset + off + n <= PoolBytes
  BY PoolAssumption
  DEF MemoryOK, MemorySound, Sound, Resolves, InRange, InPool, End, Allocation, Word

LEMMA UploadedSound ==
  ASSUME MemoryOK, MemorySound, NEW h, Resolves(allocs, h),
         NEW off \in Nat, NEW n \in Nat, InRange(allocs[h], off, n),
         NEW u, u = [allocs EXCEPT ![h] = Uploaded(allocs[h], off + n)]
  PROVE  /\ u \in [Handles -> Allocation]
         /\ Sound(u)
         /\ u[h].offset = allocs[h].offset
         /\ u[h].uploaded \in Nat
         /\ u[h].offset + u[h].uploaded <= PoolBytes
  <1> DEFINE m == IF off + n > allocs[h].uploaded THEN off + n ELSE allocs[h].uploaded
  <1>1. h \in Handles /\ allocs[h] \in Allocation /\ InPool(allocs[h])
    BY DEF Resolves, MemoryOK, MemorySound, Sound
  <1>2. m \in 0 .. allocs[h].size
    BY <1>1, PoolAssumption DEF InRange, InPool, Allocation, Word
  <1>3. Uploaded(allocs[h], off + n) =
          [offset |-> allocs[h].offset, size |-> allocs[h].size,
           live |-> allocs[h].live, uploaded |-> m]
    BY DEF Uploaded
  <1> HIDE DEF m
  <1>4. u \in [Handles -> Allocation] /\ Sound(u)
    BY <1>1, <1>2, <1>3, MarkSound DEF MemoryOK, MemorySound
  <1>5. u[h].offset = allocs[h].offset /\ u[h].uploaded = m
    BY <1>1, <1>3 DEF MemoryOK
  <1>6. m \in Nat /\ allocs[h].offset + m <= PoolBytes
    BY <1>1, <1>2, PoolAssumption DEF InPool, End, Allocation, Word
  <1> QED
    BY <1>4, <1>5, <1>6

(* The descriptor a RunDescriptor step executes is one the parser read.    *)
LEMMA RunningTyped ==
  ASSUME TypeOK, done < Len(batch)
  PROVE  batch[done + 1] \in Descriptor /\ done + 1 \in 1 .. Len(batch)
  <1>1. done + 1 \in 1 .. Len(batch)
    BY DEF TypeOK, BlockOK
  <1> QED
    BY <1>1, ElementOfSeq DEF TypeOK, BlockOK

LEMMA CopyInlineSound ==
  ASSUME TypeOK, MemorySound, NEW d \in Descriptor, InputOk(d), CopyInline(d)
  PROVE  /\ MemoryOK' /\ MemorySound'
         /\ allocs'[d.input].offset = allocs[d.input].offset
  <1>1. /\ d.inOff \in Nat /\ d.inLen \in Nat /\ d.data \in Bytes
        /\ Resolves(allocs, d.input) /\ InRange(allocs[d.input], d.inOff, d.inLen)
    BY DEF Descriptor, InputOk
  <1>2. CASE ~d.inline
    BY <1>2 DEF CopyInline, TypeOK, MemoryOK, MemorySound
  <1>3. CASE d.inline
    <2> DEFINE from == allocs[d.input].offset + d.inOff
               src == [k \in 0 .. (d.inLen - 1) |-> d.data]
    <2>1. /\ pool' = CopyTo(from, d.inLen, src)
          /\ allocs' = [allocs EXCEPT ![d.input] =
                          Uploaded(allocs[d.input], d.inOff + d.inLen)]
      BY <1>3 DEF CopyInline
    <2>2. from \in Nat /\ \A k \in 0 .. (d.inLen - 1) : src[k] \in Bytes
      BY <1>1, RangeInPool DEF TypeOK
    <2> HIDE DEF from, src
    <2>3. pool' \in [0 .. (PoolBytes - 1) -> Bytes]
      BY <1>1, <2>1, <2>2, CopyTyped DEF TypeOK
    <2>4. /\ allocs' \in [Handles -> Allocation] /\ Sound(allocs')
          /\ allocs'[d.input].offset = allocs[d.input].offset
      BY <1>1, <2>1, UploadedSound DEF TypeOK
    <2> QED
      BY <2>3, <2>4 DEF MemoryOK, MemorySound
  <1> QED
    BY <1>2, <1>3

LEMMA MemoryStep ==
  ASSUME TypeOK, MemorySound, [AnyNext]_vars
  PROVE  MemoryOK' /\ MemorySound'
  <1>0. MemoryOK /\ stage \in [StageRegs -> Nat]
    BY DEF TypeOK, RegsOK
  <1>1. CASE UNCHANGED <<pool, allocs>>
    BY <1>0, <1>1 DEF MemoryOK, MemorySound
  <1>2. CASE Reset
    <2>1. NoAllocation \in Allocation /\ ~NoAllocation.live
      BY PoolAssumption DEF NoAllocation, Allocation, Word
    <2>2. allocs' = [h \in Handles |-> NoAllocation] /\ pool' = BlankPool
      BY <1>2 DEF Reset
    <2>3. Sound(allocs')
      BY <2>1, <2>2 DEF Sound, Overlaps
    <2> QED
      BY <2>1, <2>2, <2>3, DeviceAssumption DEF MemoryOK, MemorySound, BlankPool
  <1>3. CASE ExecAlloc
    <2>1. CASE UNCHANGED <<pool, allocs>>
      BY <1>0, <2>1 DEF MemoryOK, MemorySound
    <2>2. CASE /\ stage["Arg0"] # 0
               /\ pool' = pool
               /\ \E h \in Handles, c \in 0 .. PoolBytes :
                    /\ IsFirstFreeSlot(allocs, h)
                    /\ IsFirstFit(allocs, c, Rounded(stage["Arg0"]))
                    /\ allocs' = Place(allocs, h, c, stage["Arg0"])
      <3>1. PICK h \in Handles, c \in 0 .. PoolBytes :
                    /\ IsFirstFreeSlot(allocs, h)
                    /\ IsFirstFit(allocs, c, Rounded(stage["Arg0"]))
                    /\ allocs' = Place(allocs, h, c, stage["Arg0"])
        BY <2>2
      <3>2. stage["Arg0"] \in Nat \ {0} /\ ~allocs[h].live
        BY <1>0, <2>2, <3>1 DEF StageRegs, IsFirstFreeSlot
      <3>3. allocs' \in [Handles -> Allocation] /\ Sound(allocs')
        BY <1>0, <3>1, <3>2, GrantSound DEF MemoryOK, MemorySound
      <3> QED
        BY <1>0, <2>2, <3>3 DEF MemoryOK, MemorySound
    <2> QED
      BY <1>3, <2>1, <2>2 DEF ExecAlloc, Fail, core
  <1>4. CASE ExecUpload
    <2> DEFINE h == stage["Arg0"]
               off == stage["Arg1"]
               n == stage["PayloadLen"]
    <2>1. CASE ~UploadAllowed
      BY <1>0, <1>4, <2>1 DEF ExecUpload, Fail, core, MemoryOK, MemorySound
    <2>2. CASE UploadAllowed
      <3>1. /\ pool' = CopyTo(allocs[h].offset + off, n, payload)
            /\ allocs' = [allocs EXCEPT ![h] = Uploaded(allocs[h], off + n)]
        BY <1>4, <2>2 DEF ExecUpload
      <3>2. /\ off \in Nat /\ n \in Nat /\ n <= PayloadBytes
            /\ Resolves(allocs, h) /\ InRange(allocs[h], off, n)
        BY <1>0, <2>2 DEF UploadAllowed, StageRegs
      <3>3. allocs[h].offset + off \in Nat
        BY <1>0, <3>2, RangeInPool
      <3>4. \A k \in 0 .. (n - 1) : payload[k] \in Bytes
        BY <3>2, DeviceAssumption DEF TypeOK, RegsOK
      <3> HIDE DEF h, off, n
      <3>5. pool' \in [0 .. (PoolBytes - 1) -> Bytes]
        BY <1>0, <3>1, <3>2, <3>3, <3>4, CopyTyped
      <3>6. allocs' \in [Handles -> Allocation] /\ Sound(allocs')
        BY <1>0, <3>1, <3>2, UploadedSound
      <3> QED
        BY <3>5, <3>6 DEF MemoryOK, MemorySound
    <2> QED
      BY <2>1, <2>2
  <1>5. CASE ExecFree
    <2>1. CASE ~Resolves(allocs, stage["Arg0"])
      BY <1>0, <1>5, <2>1 DEF ExecFree, Fail, core, MemoryOK, MemorySound
    <2>2. CASE Resolves(allocs, stage["Arg0"])
      <3>1. allocs' = Release(allocs, stage["Arg0"]) /\ pool' = pool
        BY <1>5, <2>2 DEF ExecFree
      <3>2. allocs' \in [Handles -> Allocation] /\ Sound(allocs')
        BY <1>0, <2>2, <3>1, ReleaseSound DEF MemoryOK, MemorySound, Resolves
      <3> QED
        BY <1>0, <3>1, <3>2 DEF MemoryOK, MemorySound
    <2> QED
      BY <2>1, <2>2
  <1>6. CASE RunDescriptor
    <2> DEFINE d == batch[done + 1]
    <2>1. d \in Descriptor
      BY <1>6, RunningTyped DEF RunDescriptor
    <2>2. \/ UNCHANGED <<pool, allocs>>
          \/ InputOk(d) /\ CopyInline(d)
      BY <1>6 DEF RunDescriptor
    <2> HIDE DEF d
    <2> QED
      BY <1>1, <2>1, <2>2, CopyInlineSound
  <1> QED
    BY <1>1, <1>2, <1>3, <1>4, <1>5, <1>6, TouchesMemory
-----------------------------------------------------------------------------
(***************************************************************************)
(* One executed descriptor: it pushes one completion that carries its      *)
(* sequence number, and starts a job exactly when that completion is Ok.   *)
(***************************************************************************)
StartedJob(c) ==
  [handle |-> c.job, checksum |-> c.checksum, polls |-> 0, ready |-> TRUE,
   live |-> TRUE]

Outcome(c) ==
  \/ c.status # Ok /\ UNCHANGED <<jobs, nextJob>>
  \/ /\ c.status = Ok
     /\ c.job = nextJob
     /\ nextJob' = nextJob + 1
     /\ \E s \in JobSlots :
          IsFirstFreeJob(s) /\ jobs' = [jobs EXCEPT ![s] = StartedJob(c)]

LEMMA RunEffect ==
  ASSUME TypeOK, MemorySound, RunDescriptor
  PROVE  /\ phase = "run" /\ done < Len(batch) /\ done' = done + 1
         /\ UNCHANGED <<phase, block, cursor, batch, entry>>
         /\ \E c \in Completion :
              PushCompletion(c) /\ c.seq = batch[done + 1].seq /\ Outcome(c)
  <1> DEFINE d == batch[done + 1]
             failed(status) == [status |-> status, seq |-> d.seq, job |-> 0,
                                checksum |-> << >>]
             sum == [k \in 1 .. d.inLen |->
                       pool'[allocs[d.input].offset + d.inOff + k - 1]]
             started == [status |-> Ok, seq |-> d.seq, job |-> nextJob,
                         checksum |-> sum]
  <1>1. /\ phase = "run" /\ done < Len(batch) /\ done' = done + 1
        /\ UNCHANGED <<phase, block, cursor, batch, entry>>
    BY DEF RunDescriptor
  <1>2. d \in Descriptor
    BY <1>1, RunningTyped
  <1>3. d.seq \in Nat /\ d.inLen \in Nat /\ d.inOff \in Nat
    BY <1>2 DEF Descriptor
  <1>4. \/ \E status \in {BadHandle, BadDescriptor, QueueFull} : PushFailure(d, status)
        \/ InputOk(d) /\ CopyInline(d) /\ StartJob(d)
    BY DEF RunDescriptor
  <1>5. CASE \E status \in {BadHandle, BadDescriptor, QueueFull} : PushFailure(d, status)
    <2>1. PICK status \in {BadHandle, BadDescriptor, QueueFull} : PushFailure(d, status)
      BY <1>5
    <2>2. << >> \in Checksum
      BY EmptySeq DEF Checksum
    <2>3. status \in Statuses /\ status # Ok
      BY DEF BadHandle, BadDescriptor, QueueFull, Statuses, Ok
    <2> HIDE DEF d
    <2>4. failed(status) \in Completion
      BY <1>3, <2>2, <2>3 DEF Completion
    <2>5. /\ PushCompletion(failed(status)) /\ failed(status).seq = d.seq
          /\ failed(status).status # Ok /\ UNCHANGED <<jobs, nextJob>>
      BY <2>1, <2>3 DEF PushFailure
    <2> QED
      BY <1>1, <2>4, <2>5 DEF Outcome, d
  <1>6. CASE InputOk(d) /\ CopyInline(d) /\ StartJob(d)
    <2>1. /\ nextJob' = nextJob + 1
          /\ PushCompletion(started)
          /\ \E s \in JobSlots :
               /\ IsFirstFreeJob(s)
               /\ jobs' = [jobs EXCEPT ![s] =
                    [handle |-> nextJob, checksum |-> sum, polls |-> 0,
                     ready |-> TRUE, live |-> TRUE]]
      BY <1>6, Zenon DEF StartJob
    <2>2. pool' \in [0 .. (PoolBytes - 1) -> Bytes]
      BY <1>2, <1>6, CopyInlineSound DEF MemoryOK
    <2>3. /\ allocs[d.input].offset + d.inOff \in Nat
          /\ allocs[d.input].offset + d.inOff + d.inLen <= PoolBytes
      BY <1>3, <1>6, RangeInPool DEF InputOk, TypeOK
    <2>4. sum \in Checksum
      BY <1>3, <2>2, <2>3, SumTyped
    <2> HIDE DEF d, sum
    <2>5. started \in Completion
      BY <1>3, <2>4 DEF Completion, TypeOK, JobsOK, Ok, Statuses, QueueFull
    <2>6. /\ started.seq = d.seq /\ started.status = Ok /\ started.job = nextJob
          /\ StartedJob(started) = [handle |-> nextJob, checksum |-> sum,
                                    polls |-> 0, ready |-> TRUE, live |-> TRUE]
      BY Zenon DEF StartedJob
    <2> HIDE DEF started
    <2>7. Outcome(started)
      BY <2>1, <2>6, Zenon DEF Outcome
    <2> QED
      BY <1>1, <2>1, <2>5, <2>6, <2>7 DEF d
  <1> QED
    BY <1>4, <1>5, <1>6

LEMMA PushEffect ==
  ASSUME QueueOK, NEW c \in Completion, PushCompletion(c), dropped \in BOOLEAN
  PROVE  /\ QueueOK'
         /\ dropped' \in BOOLEAN
         /\ Len(completions) < QueueDepth =>
              /\ completions' = Append(completions, c)
              /\ Len(completions') = Len(completions) + 1
              /\ completions'[Len(completions) + 1] = c
              /\ \A k \in 1 .. Len(completions) : completions'[k] = completions[k]
              /\ dropped' = dropped
         /\ Len(completions) >= QueueDepth => completions' = completions /\ dropped'
  <1>0. Len(completions) \in Nat /\ QueueDepth \in Nat
    BY DeviceAssumption DEF QueueOK
  <1>1. CASE Len(completions) < QueueDepth
    <2>1. completions' = Append(completions, c) /\ dropped' = dropped
      BY <1>0, <1>1 DEF PushCompletion
    <2>2. /\ Append(completions, c) \in Seq(Completion)
          /\ Len(Append(completions, c)) = Len(completions) + 1
          /\ Append(completions, c)[Len(completions) + 1] = c
          /\ \A k \in 1 .. Len(completions) : Append(completions, c)[k] = completions[k]
      BY AppendProperties DEF QueueOK
    <2> QED
      BY <1>0, <1>1, <2>1, <2>2 DEF QueueOK
  <1>2. CASE Len(completions) >= QueueDepth
    <2>1. ~(Len(completions) < QueueDepth)
      BY <1>0, <1>2
    <2>2. completions' = completions /\ dropped' = TRUE
      BY <2>1, Zenon DEF PushCompletion
    <2> QED
      BY <2>1, <2>2, Zenon DEF QueueOK
  <1> QED
    BY <1>0, <1>1, <1>2

LEMMA ReadEffect ==
  ASSUME TypeOK, NEW q \in ReadRequest, ReadBlock(q)
  PROVE  /\ QueueOK'
         /\ \E n \in 0 .. Len(completions) :
              /\ Len(completions') = Len(completions) - n
              /\ \A k \in 1 .. Len(completions') : completions'[k] = completions[n + k]
  <1> DEFINE limit == IF q.len < q.room THEN q.len ELSE q.room
             fit == limit \div DescriptorBytes
             n == IF fit < Len(completions) THEN fit ELSE Len(completions)
  <1>0. Len(completions) \in Nat /\ completions \in Seq(Completion)
        /\ Len(completions) <= QueueDepth /\ QueueDepth \in Nat
    BY DeviceAssumption DEF TypeOK, QueueOK
  <1>1. CASE UNCHANGED completions
    <2>1. /\ 0 \in 0 .. Len(completions) /\ Len(completions') = Len(completions) - 0
          /\ \A k \in 1 .. Len(completions') : completions'[k] = completions[0 + k]
      BY <1>0, <1>1
    <2> QED
      BY <1>0, <1>1, <2>1 DEF QueueOK
  <1>2. CASE completions' = SubSeq(completions, n + 1, Len(completions))
    <2>1. q.len \in Nat /\ q.room \in Nat
      BY DeviceAssumption DEF ReadRequest
    <2>2. fit \in Nat
      BY <2>1, DeviceAssumption
    <2>3. n \in 0 .. Len(completions)
      BY <1>0, <2>2
    <2> HIDE DEF n
    <2>4. \A k \in (n + 1) .. Len(completions) : completions[k] \in Completion
      BY <1>0, <2>3
    <2>5. /\ completions' \in Seq(Completion)
          /\ Len(completions') = Len(completions) - n
          /\ \A k \in 1 .. Len(completions') : completions'[k] = completions[n + k]
      BY <1>0, <1>2, <2>3, <2>4, SubSeqProperties
    <2> QED
      BY <1>0, <2>3, <2>5 DEF QueueOK
  <1> QED
    BY <1>1, <1>2, Zenon DEF ReadBlock
-----------------------------------------------------------------------------
(***************************************************************************)
(* The job table: slots fill in order, so the first free one is always the *)
(* one that next_job_ names.                                               *)
(***************************************************************************)
LEMMA FirstFreeIsNext ==
  ASSUME JobTableSound, NEW s \in JobSlots, IsFirstFreeJob(s)
  PROVE  s = nextJob
  <1>1. MaxJobs \in Nat /\ s \in 1 .. MaxJobs /\ nextJob \in 1 .. (MaxJobs + 1)
    BY DeviceAssumption DEF JobTableSound, JobSlots
  <1>2. ~(s < nextJob)
    BY DEF JobTableSound, IsFirstFreeJob
  <1>3. CASE s = 1
    BY <1>1, <1>2, <1>3
  <1>4. CASE s # 1
    <2>1. s - 1 \in 1 .. (s - 1) /\ s - 1 \in JobSlots
      BY <1>1, <1>4 DEF JobSlots
    <2>2. s - 1 < nextJob
      BY <2>1 DEF IsFirstFreeJob, JobTableSound
    <2> QED
      BY <1>1, <1>2, <2>2
  <1> QED
    BY <1>3, <1>4

LEMMA AddJob ==
  ASSUME JobsOK, JobTableSound, NEW s \in JobSlots, IsFirstFreeJob(s),
         NEW j \in Job, j.live, j.handle = nextJob, j.ready <=> j.polls = 0,
         jobs' = [jobs EXCEPT ![s] = j], nextJob' = nextJob + 1
  PROVE  JobsOK' /\ JobTableSound' /\ JobsKept
  <1>1. s = nextJob /\ ~jobs[s].live
    BY FirstFreeIsNext DEF IsFirstFreeJob
  <1>2. jobs' \in [JobSlots -> Job] /\ jobs'[s] = j
        /\ \A t \in JobSlots \ {s} : jobs'[t] = jobs[t]
    BY DEF JobsOK
  <1>3. nextJob' \in Nat /\ nextJob' \in 1 .. (MaxJobs + 1)
    BY <1>1, DeviceAssumption DEF JobsOK, JobSlots
  <1>4. ASSUME NEW t \in JobSlots
        PROVE  /\ jobs'[t].live <=> t < nextJob'
               /\ jobs'[t].live => /\ jobs'[t].handle = t
                                   /\ jobs'[t].ready <=> jobs'[t].polls = 0
    <2>1. CASE t = s
      <3>1. t < nextJob'
        BY <1>1, <2>1, DeviceAssumption DEF JobSlots
      <3> QED
        BY <1>1, <1>2, <2>1, <3>1
    <2>2. CASE t # s
      <3>1. t < nextJob' <=> t < nextJob
        BY <1>1, <2>2, DeviceAssumption DEF JobSlots
      <3> QED
        BY <1>2, <2>2, <3>1 DEF JobTableSound
    <2> QED
      BY <2>1, <2>2
  <1>5. JobsKept
    BY <1>1, <1>2 DEF JobsKept
  <1> QED
    BY <1>2, <1>3, <1>4, <1>5 DEF JobsOK, JobTableSound

LEMMA PolledJob ==
  ASSUME NEW j \in Job, j.live, j.ready <=> j.polls = 0
  PROVE  /\ Polled(j) \in Job
         /\ Polled(j).live /\ Polled(j).handle = j.handle
         /\ Polled(j).checksum = j.checksum
         /\ j.ready => Polled(j).ready
         /\ Polled(j).ready <=> Polled(j).polls = 0
  <1> DEFINE left == IF ~j.ready /\ j.polls > 0 THEN j.polls - 1 ELSE j.polls
  <1>1. /\ j.handle \in Nat /\ j.checksum \in Checksum /\ j.polls \in 0 .. 2
        /\ j.ready \in BOOLEAN /\ j.live \in BOOLEAN
    BY DEF Job
  <1>2. left \in 0 .. 2
    BY <1>1
  <1>3. j.ready => left = 0
    BY <1>1
  <1> DEFINE r == j.ready \/ left = 0
  <1>4. Polled(j) = [handle |-> j.handle, checksum |-> j.checksum, polls |-> left,
                     ready |-> r, live |-> j.live]
    BY DEF Polled
  <1>5. r \in BOOLEAN /\ (j.ready => r) /\ (r <=> left = 0)
    BY <1>3
  <1> HIDE DEF left, r
  <1>6. /\ Polled(j).handle = j.handle /\ Polled(j).checksum = j.checksum
        /\ Polled(j).polls = left /\ Polled(j).ready = r
        /\ Polled(j).live = j.live
    BY <1>4
  <1>7. Polled(j) \in Job
    BY <1>1, <1>2, <1>4, <1>5 DEF Job
  <1> QED
    BY <1>5, <1>6, <1>7, Zenon

LEMMA JobsStep ==
  ASSUME TypeOK, MemorySound, JobTableSound, [AnyNext]_vars
  PROVE  JobsOK' /\ JobTableSound' /\ (Reset \/ JobsKept)
  <1>0. JobsOK /\ MemoryOK /\ stage \in [StageRegs -> Nat]
    BY DEF TypeOK, RegsOK
  <1>1. CASE UNCHANGED <<jobs, nextJob>>
    BY <1>0, <1>1 DEF JobsOK, JobTableSound, JobsKept
  <1>2. CASE Reset
    <2>1. jobs' = [s \in JobSlots |-> NoJob] /\ nextJob' = 1
      BY <1>2 DEF Reset
    <2>2. << >> \in Checksum
      BY EmptySeq DEF Checksum
    <2>3. 0 \in Nat /\ 0 \in 0 .. 2
      OBVIOUS
    <2>4. NoJob \in Job /\ ~NoJob.live
      BY <2>2, <2>3, Zenon DEF NoJob, Job
    <2>5. nextJob' \in 1 .. (MaxJobs + 1) /\ \A s \in JobSlots : ~(s < nextJob')
      BY <2>1, DeviceAssumption DEF JobSlots
    <2> QED
      BY <1>2, <2>1, <2>4, <2>5 DEF JobsOK, JobTableSound
  <1>3. CASE ExecSubmit
    <2> DEFINE h == stage["Arg0"]
               sum == BytesAt(allocs[h].offset, allocs[h].uploaded)
               j == [handle |-> nextJob, checksum |-> sum, polls |-> 2,
                     ready |-> FALSE, live |-> TRUE]
    <2>1. CASE UNCHANGED <<jobs, nextJob>>
      BY <1>1, <2>1
    <2>2. CASE /\ Resolves(allocs, h)
               /\ \E s \in JobSlots :
                    IsFirstFreeJob(s) /\ jobs' = [jobs EXCEPT ![s] = j]
               /\ nextJob' = nextJob + 1
      <3>1. /\ allocs[h].offset \in Nat /\ allocs[h].uploaded \in Nat
            /\ allocs[h].offset + allocs[h].uploaded <= PoolBytes
        BY <1>0, <2>2, PoolAssumption
        DEF Resolves, MemoryOK, MemorySound, Sound, InPool, End, Allocation, Word
      <3>2. sum \in Checksum
        BY <1>0, <3>1, SumTyped DEF BytesAt, MemoryOK
      <3>3. nextJob \in Nat /\ 2 \in 0 .. 2 /\ 2 # 0
        BY <1>0 DEF JobsOK
      <3> HIDE DEF sum
      <3>4. /\ j \in Job /\ j.live /\ j.handle = nextJob
            /\ j.ready <=> j.polls = 0
        BY <3>2, <3>3, Zenon DEF Job
      <3> HIDE DEF j
      <3> QED
        BY <1>0, <2>2, <3>4, AddJob
    <2> QED
      BY <1>3, <2>1, <2>2, Zenon DEF ExecSubmit, Fail, core
  <1>4. CASE ExecPoll
    <2>1. CASE UNCHANGED <<jobs, nextJob>>
      BY <1>1, <2>1
    <2>2. CASE /\ nextJob' = nextJob
               /\ \E s \in JobSlots : /\ IsJob(stage["Arg0"], s)
                                      /\ jobs' = [jobs EXCEPT ![s] = Polled(jobs[s])]
      <3>1. PICK s \in JobSlots : /\ IsJob(stage["Arg0"], s)
                                  /\ jobs' = [jobs EXCEPT ![s] = Polled(jobs[s])]
        BY <2>2
      <3>2. jobs[s] \in Job /\ jobs[s].live /\ (jobs[s].ready <=> jobs[s].polls = 0)
        BY <1>0, <3>1 DEF JobsOK, IsJob, JobTableSound
      <3>3. /\ jobs'[s] = Polled(jobs[s])
            /\ \A t \in JobSlots \ {s} : jobs'[t] = jobs[t]
        BY <1>0, <3>1 DEF JobsOK
      <3>4. jobs' \in [JobSlots -> Job]
        BY <1>0, <3>1, <3>2, PolledJob DEF JobsOK
      <3>5. /\ jobs'[s].live /\ jobs'[s].handle = jobs[s].handle
            /\ jobs'[s].checksum = jobs[s].checksum
            /\ jobs[s].ready => jobs'[s].ready
            /\ jobs'[s].ready <=> jobs'[s].polls = 0
        BY <3>2, <3>3, PolledJob
      <3>6. JobTableSound'
        <4>1. nextJob' = nextJob
          BY <2>2
        <4>2. ASSUME NEW t \in JobSlots
              PROVE  /\ jobs'[t].live <=> t < nextJob
                     /\ jobs'[t].live => /\ jobs'[t].handle = t
                                         /\ jobs'[t].ready <=> jobs'[t].polls = 0
          BY <3>2, <3>3, <3>5, Zenon DEF JobTableSound
        <4> QED
          BY <4>1, <4>2 DEF JobTableSound
      <3>7. JobsKept
        BY <3>3, <3>5, Zenon DEF JobsKept
      <3> QED
        BY <1>0, <2>2, <3>4, <3>6, <3>7 DEF JobsOK
    <2> QED
      BY <1>4, <2>1, <2>2, Zenon DEF ExecPoll, Fail, core
  <1>5. CASE RunDescriptor
    <2>1. PICK c \in Completion : Outcome(c)
      BY <1>5, RunEffect
    <2>2. CASE UNCHANGED <<jobs, nextJob>>
      BY <1>1, <2>2
    <2>3. CASE /\ c.job = nextJob /\ nextJob' = nextJob + 1
               /\ \E s \in JobSlots :
                    IsFirstFreeJob(s) /\ jobs' = [jobs EXCEPT ![s] = StartedJob(c)]
      <3>1. c.job \in Nat /\ c.checksum \in Checksum /\ 0 \in 0 .. 2
        BY DEF Completion
      <3>2. /\ StartedJob(c) \in Job /\ StartedJob(c).live
            /\ StartedJob(c).handle = c.job
            /\ StartedJob(c).ready <=> StartedJob(c).polls = 0
        BY <3>1, Zenon DEF StartedJob, Job
      <3> QED
        BY <1>0, <2>3, <3>2, AddJob
    <2> QED
      BY <2>1, <2>2, <2>3 DEF Outcome
  <1> QED
    BY <1>1, <1>2, <1>3, <1>4, <1>5, TouchesJobs
-----------------------------------------------------------------------------
(***************************************************************************)
(* The registers.                                                          *)
(***************************************************************************)
LEMMA AnswerTyped ==
  ASSUME RegsOK, NEW result \in Nat, NEW out0 \in Nat, NEW sum \in Checksum,
         Answer(result, out0, sum), payload' = payload, completed' \in BOOLEAN
  PROVE  RegsOK'
  BY DEF RegsOK, Answer, StageRegs

LEMMA FailTyped ==
  ASSUME RegsOK, NEW result \in Nat, Fail(result)
  PROVE  RegsOK'
  <1>1. Answer(result, 0, << >>) /\ payload' = payload /\ completed' = completed
    BY DEF Fail
  <1>2. << >> \in Checksum /\ completed' \in BOOLEAN
    BY <1>1, EmptySeq DEF Checksum, RegsOK
  <1> QED
    BY <1>1, <1>2, AnswerTyped

LEMMA ResultTyped ==
  ASSUME RegsOK, NEW status \in Nat, stage' = [stage EXCEPT !["Result"] = status],
         UNCHANGED <<digest, payload, completed>>
  PROVE  RegsOK'
  BY DEF RegsOK, StageRegs

LEMMA UploadDigest ==
  ASSUME TypeOK, MemorySound, MemoryOK', ExecUpload
  PROVE  RegsOK'
  <1> DEFINE h == stage["Arg0"]
             off == stage["Arg1"]
             n == stage["PayloadLen"]
             a == Uploaded(allocs[h], off + n)
             sum == [k \in 1 .. a.uploaded |-> pool'[a.offset + k - 1]]
             u == [allocs EXCEPT ![h] = a]
  <1>1. CASE ~UploadAllowed
    <2>1. Fail(BadHandle)
      BY <1>1 DEF ExecUpload
    <2> QED
      BY <2>1, FailTyped DEF TypeOK, BadHandle
  <1>2. CASE UploadAllowed
    <2>1. /\ Answer(Ok, n, sum) /\ payload' = payload /\ completed' = completed
      BY <1>2, Zenon DEF ExecUpload
    <2>2. /\ off \in Nat /\ n \in Nat /\ h \in Handles
          /\ Resolves(allocs, h) /\ InRange(allocs[h], off, n)
      BY <1>2 DEF UploadAllowed, StageRegs, TypeOK, RegsOK, Resolves
    <2>3. u[h] = a
      BY <2>2 DEF TypeOK, MemoryOK
    <2>4. allocs[h].offset \in Nat
      BY <2>2, RangeInPool DEF TypeOK
    <2>5. u = [allocs EXCEPT ![h] = Uploaded(allocs[h], off + n)] /\ MemoryOK
      BY DEF TypeOK
    <2> HIDE DEF a, h, off, n, u
    <2>6. /\ u[h].offset = allocs[h].offset /\ u[h].uploaded \in Nat
          /\ u[h].offset + u[h].uploaded <= PoolBytes
      BY <2>2, <2>5, UploadedSound
    <2>7. a.offset \in Nat /\ a.uploaded \in Nat /\ a.offset + a.uploaded <= PoolBytes
      BY <2>3, <2>6, <2>4
    <2>8. sum \in Checksum
      BY <2>7, SumTyped DEF MemoryOK
    <2> HIDE DEF sum
    <2> QED
      BY <2>1, <2>2, <2>8, AnswerTyped DEF TypeOK, RegsOK, Ok
  <1> QED
    BY <1>1, <1>2

LEMMA ExecTyped ==
  ASSUME TypeOK, MemorySound, MemoryOK', NEW command \in Nat, Exec(command)
  PROVE  RegsOK'
  <1>0. /\ RegsOK /\ JobsOK
        /\ << >> \in Checksum
        /\ \A s \in {Ok, BadCommand, BadHandle, NoMemory, NotReady, QueueFull} : s \in Nat
    BY EmptySeq DEF TypeOK, Checksum, Ok, BadCommand, BadHandle, NoMemory,
                    NotReady, QueueFull
  <1>1. CASE \E s \in {Ok, BadCommand, BadHandle, NoMemory, NotReady, QueueFull} : Fail(s)
    BY <1>0, <1>1, FailTyped
  <1>2. CASE ExecUpload
    BY <1>2, UploadDigest
  <1>3. CASE /\ payload' = payload /\ completed' \in BOOLEAN
             /\ \E out0 \in Nat, sum \in Checksum : Answer(Ok, out0, sum)
    BY <1>0, <1>3, AnswerTyped
  <1>4. CASE ExecHello \/ ExecGetCaps
    BY <1>0, <1>3, <1>4 DEF ExecHello, ExecGetCaps, ProtocolVersion, Capabilities, RegsOK
  <1>5. CASE ExecComplete
    <2>1. Answer(Ok, CompleteAck, << >>) /\ payload' = payload /\ completed' = TRUE
      BY <1>5, Zenon DEF ExecComplete
    <2>2. CompleteAck \in Nat
      BY DEF CompleteAck
    <2> QED
      BY <1>0, <1>3, <2>1, <2>2
  <1>6. CASE ExecAlloc
    <2>1. ASSUME NEW h \in Handles
          PROVE  h \in Nat
      BY PoolAssumption DEF Handles
    <2> QED
      BY <1>0, <1>1, <1>3, <1>6, <2>1 DEF ExecAlloc, RegsOK
  <1>7. CASE ExecSubmit
    BY <1>0, <1>1, <1>3, <1>7 DEF ExecSubmit, RegsOK, JobsOK
  <1>8. CASE ExecPoll
    <2>1. 0 \in Nat /\ 1 \in Nat
      OBVIOUS
    <2>2. \A s \in JobSlots : (IF Polled(jobs[s]).ready THEN 1 ELSE 0) \in Nat
      BY <2>1
    <2>3. CASE ~\E s \in JobSlots : IsJob(stage["Arg0"], s)
      BY <1>0, <1>1, <1>8, <2>3 DEF ExecPoll
    <2>4. CASE \E s \in JobSlots : IsJob(stage["Arg0"], s)
      <3>1. PICK s \in JobSlots :
              Answer(Ok, IF Polled(jobs[s]).ready THEN 1 ELSE 0, << >>)
        BY <1>8, <2>4 DEF ExecPoll
      <3>2. payload' = payload /\ completed' = completed
        BY <1>8, <2>4 DEF ExecPoll
      <3> QED
        BY <1>0, <1>3, <2>2, <3>1, <3>2 DEF RegsOK
    <2> QED
      BY <2>3, <2>4
  <1>9. CASE ExecCollect
    <2>1. \A s \in JobSlots : jobs[s].checksum \in Checksum
      BY <1>0 DEF JobsOK, Job
    <2> QED
      BY <1>0, <1>1, <1>3, <1>9, <2>1 DEF ExecCollect, RegsOK
  <1>10. CASE ExecFree
    BY <1>0, <1>1, <1>3, <1>10 DEF ExecFree, RegsOK
  <1> QED
    BY <1>1, <1>2, <1>4, <1>5, <1>6, <1>7, <1>8, <1>9, <1>10 DEF Exec

LEMMA RegsStep ==
  ASSUME TypeOK, MemorySound, MemoryOK', [AnyNext]_vars
  PROVE  RegsOK'
  <1>0. RegsOK
    BY DEF TypeOK
  <1>1. CASE UNCHANGED <<stage, digest, payload, completed>>
    BY <1>0, <1>1 DEF RegsOK
  <1>2. CASE \E r \in StageRegs, v \in Nat : WriteReg(r, v)
    <2>1. PICK r \in StageRegs, v \in Nat : WriteReg(r, v)
      BY <1>2
    <2> QED
      BY <1>0, <2>1 DEF WriteReg, RegsOK
  <1>3. CASE \E i \in Nat, v \in Bytes : WritePayloadWord(i, v)
    <2>1. PICK i \in Nat, v \in Bytes : WritePayloadWord(i, v)
      BY <1>3
    <2>2. payload' \in [0 .. (PayloadBytes - 1) -> Bytes]
      BY <1>0, <2>1 DEF WritePayloadWord, RegsOK
    <2> QED
      BY <1>0, <2>1, <2>2 DEF WritePayloadWord, RegsOK
  <1>4. CASE \E command \in Nat : Exec(command)
    BY <1>4, ExecTyped
  <1>5. CASE /\ \E status \in Nat : stage' = [stage EXCEPT !["Result"] = status]
             /\ UNCHANGED <<digest, payload, completed>>
    BY <1>0, <1>5, ResultTyped
  <1>6. CASE \E w \in Block : WriteBlock(w)
    BY <1>1, <1>5, <1>6 DEF WriteBlock, BadBlock
  <1>7. CASE ParseDescriptor \/ EndParse
    BY <1>1, <1>5, <1>7 DEF ParseDescriptor, EndParse, EndBlock, BadBlock, BadDescriptor
  <1>8. CASE RunDescriptor
    BY <1>1, <1>8 DEF RunDescriptor
  <1>9. CASE EndRun
    BY <1>5, <1>9 DEF EndRun, EndBlock, QueueFull, Ok
  <1>10. CASE \E q \in ReadRequest : ReadBlock(q)
    BY <1>5, <1>10 DEF ReadBlock, BadBlock, Ok
  <1>11. CASE Reset
    <2>1. /\ stage' = [r \in StageRegs |-> 0] /\ digest' = << >>
          /\ payload' = BlankPayload /\ completed' = FALSE
      BY <1>11, Zenon DEF Reset
    <2>2. << >> \in Checksum
      BY EmptySeq DEF Checksum
    <2>3. BlankPayload \in [0 .. (PayloadBytes - 1) -> Bytes]
      BY DeviceAssumption DEF BlankPayload
    <2>4. stage' \in [StageRegs -> Nat]
      BY <2>1
    <2> QED
      BY <2>1, <2>2, <2>3, <2>4, Zenon DEF RegsOK
  <1>12. CASE UNCHANGED vars
    BY <1>1, <1>12 DEF vars
  <1> QED
    BY <1>2, <1>3, <1>4, <1>6, <1>7, <1>8, <1>9, <1>10, <1>11, <1>12
    DEF AnyNext, Process
-----------------------------------------------------------------------------
(***************************************************************************)
(* Blocks.  BlockInv is what BatchAnswered and BatchWithinBlock need in    *)
(* the phases before the batch runs.                                       *)
(***************************************************************************)
BlockInv ==
  /\ phase = "idle" => batch = << >> /\ cursor = 0 /\ done = 0 /\ ~dropped
  /\ phase = "parse" => done = 0 /\ ~dropped /\ entry = CoreNow
  /\ phase = "run" => /\ batch # << >>
                      /\ entry.completions \in Seq(Completion)
                      /\ Len(entry.completions) <= QueueDepth
  /\ phase # "idle" => /\ cursor <= block.len
                       /\ block.len <= block.supplied
                       /\ Len(batch) <= Len(block.images)
                       /\ \A k \in 1 .. Len(batch) :
                            /\ batch[k] = block.images[k]
                            /\ batch[k].magic = "good"

(* While a block is processed, nothing else of the core runs.              *)
LEMMA BusyStep ==
  ASSUME [AnyNext]_vars, phase # "idle"
  PROVE  Process \/ UNCHANGED vars
  BY DEF AnyNext, WriteReg, WritePayloadWord, Exec, WriteBlock, ReadBlock, Reset

LEMMA EndBlockInv ==
  ASSUME NEW status, EndBlock(status)
  PROVE  BlockOK' /\ BlockInv' /\ BatchAnswered'
  <1>1. /\ phase' = "idle" /\ block' = NoBlock /\ cursor' = 0 /\ batch' = << >>
        /\ done' = 0 /\ dropped' = FALSE
    BY Zenon DEF EndBlock
  <1>2. << >> \in Seq(Descriptor) /\ Len(<< >>) = 0
    BY EmptySeq
  <1>3. NoBlock \in Block
    BY <1>2 DEF NoBlock, Block
  <1>4. 0 \in Nat /\ 0 \in 0 .. Len(<< >>) /\ Len(<< >>) <= MaxDescriptorsPerBlock
    BY <1>2, DeviceAssumption DEF MaxDescriptorsPerBlock
  <1>5. BlockOK'
    BY <1>1, <1>2, <1>3, <1>4, Zenon DEF BlockOK
  <1>6. BlockInv' /\ BatchAnswered'
    BY <1>1, Zenon DEF BlockInv, BatchAnswered
  <1> QED
    BY <1>5, <1>6

LEMMA WriteBlockInv ==
  ASSUME TypeOK, BlockInv, NEW w \in Block, WriteBlock(w)
  PROVE  BlockOK' /\ BlockInv' /\ BatchAnswered'
  <1>1. phase = "idle" /\ UNCHANGED core
    BY DEF WriteBlock
  <1>2. CASE UNCHANGED blockVars
    BY <1>1, <1>2 DEF blockVars, TypeOK, BlockOK, BlockInv, BatchAnswered
  <1>3. CASE /\ w.len <= w.supplied
             /\ phase' = "parse" /\ block' = w /\ entry' = CoreNow
             /\ UNCHANGED <<cursor, batch, done, dropped>>
    <2>1. w \in Block
      BY DeviceAssumption
    <2>2. /\ w.len \in Nat /\ w.supplied \in Nat /\ w.images \in Seq(Descriptor)
      BY <2>1 DEF Block
    <2>3. entry' = CoreNow'
      BY <1>1, <1>3 DEF CoreNow, core
    <2>4. batch' = << >> /\ Len(batch') = 0 /\ done' = 0 /\ ~dropped'
      BY <1>1, <1>3 DEF BlockInv
    <2>5. BlockOK'
      BY <1>3, <2>1 DEF TypeOK, BlockOK
    <2>6. Len(w.images) \in Nat
      BY <2>2
    <2>7. cursor' <= w.len
      <3>1. cursor = 0
        BY <1>1 DEF BlockInv
      <3> QED
        BY <1>3, <2>2, <3>1
    <2> QED
      BY <1>3, <2>2, <2>3, <2>4, <2>5, <2>6, <2>7 DEF BlockInv, BatchAnswered
  <1> QED
    BY <1>2, <1>3 DEF WriteBlock

LEMMA ParseInv ==
  ASSUME TypeOK, BlockInv, ParseDescriptor
  PROVE  BlockOK' /\ BlockInv' /\ BatchAnswered'
  <1> DEFINE n == Len(batch)
             d == block.images[n + 1]
             next == cursor + DescriptorBytes
  <1>1. CASE \E status \in {BadDescriptor, BadBlock} : EndBlock(status)
    BY <1>1, EndBlockInv
  <1>2. CASE /\ d.magic = "good"
             /\ InlineFits(d, next)
             /\ batch' = Append(batch, d)
             /\ cursor' = next + InlineLen(d)
             /\ UNCHANGED <<stage, phase, block, done, dropped, entry>>
    <2>1. /\ phase = "parse" /\ next <= block.len
          /\ n < MaxDescriptorsPerBlock /\ n < Len(block.images)
      BY DEF ParseDescriptor, MoreToParse
    <2>2. /\ block.len \in Nat /\ block.supplied \in Nat
          /\ block.images \in Seq(Descriptor) /\ n \in Nat /\ cursor \in Nat
          /\ batch \in Seq(Descriptor) /\ DescriptorBytes \in Nat
      BY DeviceAssumption DEF TypeOK, BlockOK, Block
    <2>3. d \in Descriptor
      <3>1. n + 1 \in 1 .. Len(block.images)
        BY <2>1, <2>2
      <3> QED
        BY <2>2, <3>1, ElementOfSeq
    <2>4. InlineLen(d) \in Nat
      BY <2>3 DEF InlineLen, Descriptor
    <2> HIDE DEF d
    <2>5. cursor' \in Nat /\ cursor' <= block.len
      BY <1>2, <2>1, <2>2, <2>4 DEF InlineFits
    <2>6. /\ Append(batch, d) \in Seq(Descriptor) /\ Len(Append(batch, d)) = n + 1
          /\ \A k \in 1 .. n : Append(batch, d)[k] = batch[k]
          /\ Append(batch, d)[n + 1] = d
      BY <2>2, <2>3, AppendProperties
    <2>7. MaxDescriptorsPerBlock \in Nat
      BY DeviceAssumption DEF MaxDescriptorsPerBlock
    <2>8. n + 1 <= MaxDescriptorsPerBlock /\ n + 1 <= Len(block.images)
      BY <2>1, <2>2, <2>7
    <2>9. done = 0 /\ ~dropped /\ entry = CoreNow
      BY <2>1 DEF BlockInv
    <2>10. BlockOK'
      <3>1. done' \in 0 .. Len(batch')
        BY <1>2, <2>2, <2>6, <2>9
      <3> QED
        BY <1>2, <2>5, <2>6, <2>8, <3>1 DEF TypeOK, BlockOK
    <2>11. ASSUME NEW k \in 1 .. Len(batch')
           PROVE  batch'[k] = block.images[k] /\ batch'[k].magic = "good"
      <3>1. CASE k \in 1 .. n
        BY <1>2, <2>1, <2>6, <3>1 DEF BlockInv
      <3>2. CASE k = n + 1
        BY <1>2, <2>6, <3>2 DEF d
      <3> QED
        BY <1>2, <2>2, <2>6, <3>1, <3>2
    <2>12. entry' = CoreNow'
      BY <1>2, <2>9 DEF CoreNow, ParseDescriptor, core
    <2>13. block.len <= block.supplied
      BY <2>1 DEF BlockInv
    <2> QED
      BY <1>2, <2>1, <2>5, <2>6, <2>8, <2>9, <2>10, <2>11, <2>12, <2>13
      DEF BlockInv, BatchAnswered
  <1> QED
    BY <1>1, <1>2 DEF ParseDescriptor

LEMMA EndParseInv ==
  ASSUME TypeOK, BlockInv, EndParse
  PROVE  BlockOK' /\ BlockInv' /\ BatchAnswered'
  <1>1. CASE EndBlock(BadDescriptor)
    BY <1>1, EndBlockInv
  <1>2. CASE /\ batch # << >>
             /\ phase' = "run"
             /\ UNCHANGED <<stage, block, cursor, batch, done, dropped, entry>>
    <2>1. phase = "parse" /\ completions' = completions
      BY DEF EndParse, core
    <2>2. done = 0 /\ ~dropped /\ entry.completions = completions
      BY <2>1 DEF BlockInv, CoreNow
    <2>3. /\ completions \in Seq(Completion) /\ Len(completions) \in Nat
          /\ Len(completions) <= QueueDepth /\ QueueDepth \in Nat
      BY DeviceAssumption DEF TypeOK, QueueOK
    <2>4. BlockOK'
      BY <1>2 DEF TypeOK, BlockOK
    <2>5. BlockInv'
      BY <1>2, <2>1, <2>2, <2>3 DEF BlockInv
    <2>6. ~(Len(completions) + 0 > QueueDepth) /\ Len(completions) = Len(completions) + 0
          /\ 1 .. 0 = {}
      BY <2>3
    <2>7. BatchAnswered'
      <3>1. /\ phase' = "run" /\ done' = 0 /\ ~dropped'
            /\ entry'.completions = completions /\ completions' = completions
        BY <1>2, <2>1, <2>2
      <3> QED
        BY <2>6, <3>1, Zenon DEF BatchAnswered
    <2> QED
      BY <2>4, <2>5, <2>7
  <1> QED
    BY <1>1, <1>2 DEF EndParse

LEMMA RunInv ==
  ASSUME TypeOK, MemorySound, BlockInv, BatchAnswered, RunDescriptor
  PROVE  BlockOK' /\ BlockInv' /\ BatchAnswered'
  <1> DEFINE waiting == Len(entry.completions)
  <1>1. /\ phase = "run" /\ done < Len(batch) /\ done' = done + 1
        /\ UNCHANGED <<phase, block, cursor, batch, entry>>
    BY RunEffect
  <1>2. PICK c \in Completion :
          PushCompletion(c) /\ c.seq = batch[done + 1].seq /\ Outcome(c)
    BY RunEffect
  <1>3. QueueOK /\ dropped \in BOOLEAN /\ done \in 0 .. Len(batch) /\ Len(batch) \in Nat
    BY DEF TypeOK, BlockOK
  <1>4. /\ Len(completions) \in Nat /\ QueueDepth \in Nat /\ waiting \in Nat
        /\ waiting <= QueueDepth /\ done \in Nat
    BY <1>1, <1>3, DeviceAssumption DEF QueueOK, BlockInv
  <1>5. dropped' \in BOOLEAN
    BY <1>2, <1>3, PushEffect
  <1>6. done' \in 0 .. Len(batch')
    BY <1>1, <1>3
  <1>7. BlockOK'
    BY <1>1, <1>5, <1>6 DEF TypeOK, BlockOK
  <1>8. BlockInv'
    BY <1>1 DEF BlockInv
  <1> HIDE DEF waiting
  <1>9. /\ dropped <=> waiting + done > QueueDepth
        /\ ~dropped => Len(completions) = waiting + done
        /\ dropped => Len(completions) = QueueDepth
        /\ \A k \in 1 .. waiting : completions[k] = entry.completions[k]
        /\ \A k \in 1 .. done : waiting + k <= QueueDepth =>
             completions[waiting + k].seq = batch[k].seq
    BY <1>1 DEF BatchAnswered, waiting
  <1>10. /\ dropped' <=> waiting + done' > QueueDepth
         /\ ~dropped' => Len(completions') = waiting + done'
         /\ dropped' => Len(completions') = QueueDepth
         /\ \A k \in 1 .. waiting : completions'[k] = entry.completions[k]
         /\ \A k \in 1 .. done' : waiting + k <= QueueDepth =>
              completions'[waiting + k].seq = batch[k].seq
    <2>1. CASE Len(completions) < QueueDepth
      <3>1. /\ Len(completions') = Len(completions) + 1
            /\ completions'[Len(completions) + 1] = c
            /\ \A k \in 1 .. Len(completions) : completions'[k] = completions[k]
            /\ dropped' = dropped
        BY <1>2, <1>3, <2>1, PushEffect
      <3>2. Len(completions) # QueueDepth
        BY <1>4, <2>1
      <3>3. ~dropped
        BY <1>9, <3>2
      <3>4. Len(completions) = waiting + done
        BY <1>9, <3>3
      <3>5. ~dropped' /\ ~(waiting + done' > QueueDepth)
            /\ Len(completions') = waiting + done'
        BY <1>1, <1>4, <2>1, <3>1, <3>3, <3>4
      <3>6. \A k \in 1 .. waiting : completions'[k] = entry.completions[k]
        BY <1>4, <1>9, <3>1, <3>4
      <3>7. \A k \in 1 .. done' : completions'[waiting + k].seq = batch[k].seq
               \/ ~(waiting + k <= QueueDepth)
        <4> TAKE k \in 1 .. done'
        <4>1. CASE k = done + 1
          BY <1>1, <1>2, <1>4, <3>1, <3>4, <4>1
        <4>2. CASE k # done + 1
          <5>1. k \in 1 .. done /\ waiting + k \in 1 .. Len(completions)
            BY <1>1, <1>4, <3>4, <4>2
          <5> QED
            BY <1>9, <3>1, <5>1
        <4> QED
          BY <4>1, <4>2
      <3> QED
        BY <3>5, <3>6, <3>7
    <2>2. CASE ~(Len(completions) < QueueDepth)
      <3>1. Len(completions) = QueueDepth /\ Len(completions) >= QueueDepth
        BY <1>3, <1>4, <2>2 DEF QueueOK
      <3>2. completions' = completions /\ dropped'
        BY <1>2, <1>3, <3>1, PushEffect
      <3>3. waiting + done >= QueueDepth
        BY <1>4, <1>9, <3>1
      <3>4. waiting + done' > QueueDepth
        BY <1>1, <1>4, <3>3
      <3>5. ASSUME NEW k \in 1 .. done', waiting + k <= QueueDepth
            PROVE  completions'[waiting + k].seq = batch[k].seq
        <4>1. k \in 1 .. done
          BY <1>1, <1>4, <3>3, <3>5
        <4> QED
          BY <1>9, <3>2, <3>5, <4>1
      <3> QED
        BY <1>9, <3>1, <3>2, <3>4, <3>5
    <2> QED
      BY <2>1, <2>2
  <1>11. BatchAnswered'
    BY <1>1, <1>10 DEF BatchAnswered, waiting
  <1> QED
    BY <1>7, <1>8, <1>11

LEMMA BlockStep ==
  ASSUME TypeOK, MemorySound, BlockInv, BatchAnswered, [AnyNext]_vars
  PROVE  BlockOK' /\ BlockInv' /\ BatchAnswered'
  <1>1. CASE UNCHANGED vars
    BY <1>1 DEF vars, blockVars, core, TypeOK, BlockOK, BlockInv, BatchAnswered, CoreNow
  <1>2. CASE phase = "idle" /\ UNCHANGED blockVars
    BY <1>2 DEF blockVars, TypeOK, BlockOK, BlockInv, BatchAnswered
  <1>3. CASE \E w \in Block : WriteBlock(w)
    BY <1>3, WriteBlockInv
  <1>4. CASE Process
    <2>1. CASE EndRun
      BY <2>1, EndBlockInv DEF EndRun
    <2> QED
      BY <1>4, <2>1, ParseInv, EndParseInv, RunInv DEF Process
  <1> QED
    BY <1>1, <1>2, <1>3, <1>4, TouchesBlock, BusyStep
-----------------------------------------------------------------------------
(***************************************************************************)
(* The completion queue.  A handle is its slot's number, so QueueNames     *)
(* says what CompletionsNameJobs says without a search of the table.       *)
(***************************************************************************)
Names(c) ==
  /\ c.job \in JobSlots
  /\ jobs[c.job].live
  /\ jobs[c.job].ready
  /\ jobs[c.job].checksum = c.checksum

QueueNames ==
  \A k \in 1 .. Len(completions) : completions[k].status = Ok =>
    /\ Names(completions[k])
    /\ \A j \in 1 .. (k - 1) : completions[j].status = Ok =>
         completions[j].job < completions[k].job

LEMMA NamesAnswer ==
  ASSUME JobTableSound, QueueNames
  PROVE  CompletionsNameJobs
  <1>1. ASSUME NEW c, Names(c)
        PROVE  IsJob(c.job, c.job)
    <2>1. c.job # 0 /\ \A t \in 1 .. (c.job - 1) : t \in JobSlots /\ t # c.job
      BY <1>1, DeviceAssumption DEF Names, JobSlots
    <2> QED
      BY <1>1, <2>1 DEF Names, IsJob, JobTableSound
  <1> QED
    BY <1>1 DEF QueueNames, Names, CompletionsNameJobs

LEMMA QueueStep ==
  ASSUME TypeOK, MemorySound, JobTableSound, QueueNames, [AnyNext]_vars
  PROVE  QueueOK' /\ QueueNames'
  <1>0. /\ QueueOK /\ completions \in Seq(Completion) /\ Len(completions) \in Nat
        /\ QueueDepth \in Nat
    BY DeviceAssumption DEF TypeOK, QueueOK
  <1>1. CASE Reset
    <2>1. completions' = << >> /\ Len(<< >>) = 0 /\ << >> \in Seq(Completion)
      BY <1>1, EmptySeq DEF Reset
    <2> QED
      BY <1>0, <2>1 DEF QueueOK, QueueNames
  <1>2. CASE JobsKept /\ UNCHANGED completions
    <2>1. ASSUME NEW k \in 1 .. Len(completions), completions[k].status = Ok
          PROVE  Names(completions[k])'
      <3>1. Names(completions[k])
        BY <2>1 DEF QueueNames
      <3>2. jobs'[completions[k].job].live /\ jobs'[completions[k].job].ready
            /\ jobs'[completions[k].job].checksum = completions[k].checksum
            /\ completions[k].job \in JobSlots
        BY <1>2, <3>1 DEF JobsKept, Names
      <3> QED
        BY <1>2, <3>2 DEF Names
    <2> QED
      BY <1>0, <1>2, <2>1 DEF QueueOK, QueueNames
  <1>3. CASE JobsKept /\ RunDescriptor
    <2>1. PICK c \in Completion : PushCompletion(c) /\ Outcome(c)
      BY <1>3, RunEffect
    <2>2. dropped \in BOOLEAN
      BY DEF TypeOK, BlockOK
    <2>3. CASE ~(Len(completions) < QueueDepth)
      <3>1. Len(completions) >= QueueDepth
        BY <1>0, <2>3
      <3>2. completions' = completions
        BY <1>0, <2>1, <2>2, <3>1, PushEffect
      <3> QED
        BY <1>2, <1>3, <3>2
    <2>4. CASE Len(completions) < QueueDepth
      <3>1. /\ QueueOK'
            /\ Len(completions') = Len(completions) + 1
            /\ completions'[Len(completions) + 1] = c
            /\ \A k \in 1 .. Len(completions) : completions'[k] = completions[k]
        BY <1>0, <2>1, <2>2, <2>4, PushEffect
      <3>2. ASSUME c.status = Ok
            PROVE  /\ c.job \in JobSlots /\ jobs'[c.job].live /\ jobs'[c.job].ready
                   /\ jobs'[c.job].checksum = c.checksum
                   /\ c.job = nextJob
        <4>1. PICK s \in JobSlots :
                IsFirstFreeJob(s) /\ jobs' = [jobs EXCEPT ![s] = StartedJob(c)]
          BY <2>1, <3>2 DEF Outcome
        <4>2. c.job = nextJob /\ s = nextJob
          BY <2>1, <3>2, <4>1, FirstFreeIsNext DEF Outcome
        <4>3. jobs'[s] = StartedJob(c)
          BY <4>1 DEF TypeOK, JobsOK
        <4> QED
          BY <4>2, <4>3 DEF StartedJob
      <3>3. ASSUME NEW k \in 1 .. Len(completions), completions[k].status = Ok
            PROVE  /\ completions[k].job \in JobSlots
                   /\ jobs'[completions[k].job].live /\ jobs'[completions[k].job].ready
                   /\ jobs'[completions[k].job].checksum = completions[k].checksum
                   /\ completions[k].job < nextJob
        BY <1>3, <3>3 DEF QueueNames, Names, JobsKept, JobTableSound
      <3>4. ASSUME NEW k \in 1 .. Len(completions'), completions'[k].status = Ok
            PROVE  /\ Names(completions[k])'
                   /\ \A j \in 1 .. (k - 1) : completions'[j].status = Ok =>
                        completions'[j].job < completions'[k].job
        <4>1. CASE k = Len(completions) + 1
          <5>1. \A j \in 1 .. (k - 1) : j \in 1 .. Len(completions)
            BY <1>0, <4>1
          <5>2. completions'[k] = c
            BY <3>1, <4>1
          <5> QED
            BY <3>1, <3>2, <3>3, <3>4, <5>1, <5>2 DEF Names
        <4>2. CASE k # Len(completions) + 1
          <5>1. k \in 1 .. Len(completions) /\ \A j \in 1 .. (k - 1) : j \in 1 .. Len(completions)
            BY <1>0, <3>1, <4>2
          <5>2. completions'[k] = completions[k] /\ completions[k].status = Ok
            BY <3>1, <3>4, <5>1
          <5>3. Names(completions[k])'
            BY <3>3, <5>1, <5>2 DEF Names
          <5>4. \A j \in 1 .. (k - 1) : completions[j].status = Ok =>
                  completions[j].job < completions[k].job
            BY <5>1, <5>2 DEF QueueNames
          <5> QED
            BY <3>1, <5>1, <5>2, <5>3, <5>4
        <4> QED
          BY <4>1, <4>2
      <3> QED
        BY <3>1, <3>4 DEF QueueNames
    <2> QED
      BY <2>3, <2>4
  <1>4. CASE JobsKept /\ \E q \in ReadRequest : ReadBlock(q)
    <2>1. PICK q \in ReadRequest : ReadBlock(q)
      BY <1>4
    <2>2. QueueOK'
      BY <2>1, ReadEffect
    <2>3. PICK n \in 0 .. Len(completions) :
              /\ Len(completions') = Len(completions) - n
              /\ \A k \in 1 .. Len(completions') : completions'[k] = completions[n + k]
      BY <2>1, ReadEffect
    <2>4. ASSUME NEW k \in 1 .. Len(completions'), completions'[k].status = Ok
          PROVE  /\ Names(completions[k])'
                 /\ \A j \in 1 .. (k - 1) : completions'[j].status = Ok =>
                      completions'[j].job < completions'[k].job
      <3>1. /\ n + k \in 1 .. Len(completions)
            /\ \A j \in 1 .. (k - 1) :
                 j \in 1 .. Len(completions') /\ n + j \in 1 .. (n + k - 1)
        BY <1>0, <2>3
      <3>2. completions'[k] = completions[n + k]
        BY <2>3
      <3>3. Names(completions[n + k])
        BY <2>4, <3>1, <3>2 DEF QueueNames
      <3>4. Names(completions[k])'
        BY <1>4, <3>2, <3>3 DEF JobsKept, Names
      <3>5. \A j \in 1 .. (k - 1) : completions[n + j].status = Ok =>
              completions[n + j].job < completions[n + k].job
        BY <2>4, <3>1, <3>2 DEF QueueNames
      <3> QED
        BY <2>3, <3>1, <3>2, <3>4, <3>5
    <2> QED
      BY <2>2, <2>4 DEF QueueNames
  <1>5. Reset \/ JobsKept
    BY JobsStep
  <1> QED
    BY <1>1, <1>2, <1>3, <1>4, <1>5, TouchesQueue
-----------------------------------------------------------------------------
(***************************************************************************)
(* The inductive invariant, and the theorems.                              *)
(***************************************************************************)
IInv ==
  /\ TypeOK /\ MemorySound /\ JobTableSound /\ QueueNames /\ BlockInv /\ BatchAnswered

LEMMA InitIInv == Init => IInv
  <1> SUFFICES ASSUME Init PROVE IInv
    OBVIOUS
  <1>1. /\ << >> \in Checksum /\ << >> \in Seq(Descriptor) /\ << >> \in Seq(Completion)
        /\ Len(<< >>) = 0
    BY EmptySeq DEF Checksum
  <1>2. /\ 0 \in Bytes /\ 0 \in Nat /\ 0 \in 0 .. 2 /\ 0 \in 0 .. 0 /\ 1 \in Nat
        /\ 0 <= QueueDepth /\ 0 <= MaxDescriptorsPerBlock
        /\ 1 .. 0 = {} /\ 1 \in 1 .. (MaxJobs + 1)
        /\ \A s \in JobSlots : ~(s < 1)
    BY DeviceAssumption DEF MaxDescriptorsPerBlock, JobSlots
  <1>3. RegsOK
    BY <1>1, <1>2, Zenon DEF Init, RegsOK, BlankPayload
  <1>4. NoAllocation \in Allocation /\ ~NoAllocation.live
    BY PoolAssumption DEF NoAllocation, Allocation, Word
  <1>5. MemoryOK
    BY <1>2, <1>4, Zenon DEF Init, MemoryOK, BlankPool
  <1>6. MemorySound
    BY <1>4 DEF Init, MemorySound, Sound, Overlaps
  <1>7. NoJob \in Job /\ ~NoJob.live
    BY <1>1, <1>2, Zenon DEF NoJob, Job
  <1>8. JobsOK /\ JobTableSound
    BY <1>2, <1>7, Zenon DEF Init, JobsOK, JobTableSound
  <1>9. QueueOK /\ QueueNames
    BY <1>1, <1>2, Zenon DEF Init, QueueOK, QueueNames
  <1>10. NoBlock \in Block
    BY <1>1, <1>2, Zenon DEF NoBlock, Block
  <1>11. BlockOK
    BY <1>1, <1>2, <1>10, Zenon DEF Init, BlockOK
  <1>12. BlockInv /\ BatchAnswered
    BY Zenon DEF Init, BlockInv, BatchAnswered
  <1> QED
    BY <1>3, <1>5, <1>6, <1>8, <1>9, <1>11, <1>12 DEF IInv, TypeOK

LEMMA NextIInv == IInv /\ [AnyNext]_vars => IInv'
  <1> SUFFICES ASSUME IInv, [AnyNext]_vars PROVE IInv'
    OBVIOUS
  <1> USE DEF IInv
  <1>1. MemoryOK' /\ MemorySound'
    BY MemoryStep
  <1>2. RegsOK'
    BY <1>1, RegsStep
  <1>3. JobsOK' /\ JobTableSound'
    BY JobsStep
  <1>4. QueueOK' /\ QueueNames'
    BY QueueStep
  <1>5. BlockOK' /\ BlockInv' /\ BatchAnswered'
    BY BlockStep
  <1> QED
    BY <1>1, <1>2, <1>3, <1>4, <1>5 DEF TypeOK

LEMMA AnyInvariance == AnySpec => []IInv
  BY InitIInv, NextIInv, PTL DEF AnySpec

LEMMA Invariance == Spec => []IInv
  BY GivenSpec, AnyInvariance, PTL

(* Every field of the core keeps its type and its bounds.                  *)
THEOREM Typing == Spec => []TypeOK
  BY Invariance, PTL DEF IInv

(* No sequence of operations, stale handles included, makes two live       *)
(* buffers overlap or one reach past the pool.                             *)
THEOREM MemorySafety == Spec => []MemorySound
  BY Invariance, PTL DEF IInv

(* Job handles are handed out in order and never twice in a session.       *)
THEOREM JobHandles == Spec => []JobTableSound
  BY Invariance, PTL DEF IInv

(* A submitted job's answer is not changed by anything short of Reset.     *)
THEOREM StableAnswers == Spec => AnswersStable
  <1>1. IInv /\ [AnyNext]_vars => [nextJob' # 1 => JobsKept]_vars
    <2> SUFFICES ASSUME IInv, [AnyNext]_vars, nextJob' # 1 PROVE JobsKept
      OBVIOUS
    <2>1. Reset \/ JobsKept
      BY JobsStep DEF IInv
    <2> QED
      BY <2>1 DEF Reset
  <1> QED
    BY <1>1, Invariance, GivenSpec, PTL DEF AnySpec, AnswersStable

(* Every successful completion in the queue names its own finished job.    *)
THEOREM NamedJobs == Spec => []CompletionsNameJobs
  <1>1. IInv => CompletionsNameJobs
    BY NamesAnswer DEF IInv
  <1> QED
    BY <1>1, Invariance, PTL

(* Every descriptor of a running batch is answered once and in order, or   *)
(* the block is known to have lost completions.                            *)
THEOREM EveryDescriptorAnswered == Spec => []BatchAnswered
  BY Invariance, PTL DEF IInv

(* The parser never takes a descriptor or inline bytes from beyond the     *)
(* bytes that were received.                                               *)
THEOREM WithinBlock == Spec => []BatchWithinBlock
  <1>1. IInv => BatchWithinBlock
    BY DEF IInv, BlockInv, BatchWithinBlock
  <1> QED
    BY <1>1, Invariance, PTL

(* A block the parser refuses leaves the core as it found it.              *)
THEOREM RefusalIsNoOp == Spec => RefusedBlockIsNoOp
  <1>1. IInv /\ [AnyNext]_vars => [Refused => CoreNow' = entry]_vars
    <2> SUFFICES ASSUME IInv, [AnyNext]_vars, Refused PROVE CoreNow' = entry
      OBVIOUS
    <2>1. phase # "idle" /\ phase' = "idle"
      BY DEF Refused
    <2>2. Process
      BY <2>1, BusyStep DEF vars, blockVars
    <2>3. CASE ParseDescriptor \/ EndParse
      <3>1. phase = "parse" /\ UNCHANGED core
        BY <2>3 DEF ParseDescriptor, EndParse
      <3> QED
        BY <3>1 DEF IInv, BlockInv, CoreNow, core
    <2>4. CASE RunDescriptor
      BY <2>1, <2>4 DEF RunDescriptor
    <2>5. CASE EndRun
      <3>1. stage' = [stage EXCEPT !["Result"] = IF dropped THEN QueueFull ELSE Ok]
        BY <2>5 DEF EndRun, EndBlock
      <3>2. stage'["Result"] \in {QueueFull, Ok}
        BY <3>1 DEF IInv, TypeOK, RegsOK, StageRegs
      <3> QED
        BY <3>2 DEF Refused, QueueFull, Ok, BadBlock, BadDescriptor
    <2> QED
      BY <2>2, <2>3, <2>4, <2>5 DEF Process
  <1> QED
    BY <1>1, Invariance, GivenSpec, PTL DEF AnySpec, RefusedBlockIsNoOp

(* A copy into one live buffer leaves every other live buffer alone.       *)
LEMMA CopyElsewhere ==
  ASSUME MemoryOK, MemorySound, NEW g, Resolves(allocs, g),
         NEW off \in Nat, NEW n \in Nat, InRange(allocs[g], off, n), NEW src,
         NEW h \in Handles, h # g, allocs[h].live,
         NEW b \in allocs[h].offset .. (End(allocs[h]) - 1)
  PROVE  CopyTo(allocs[g].offset + off, n, src)[b] = pool[b]
  <1>1. /\ g \in Handles /\ allocs[g] \in Allocation /\ allocs[h] \in Allocation
        /\ InPool(allocs[g]) /\ InPool(allocs[h]) /\ allocs[g].live
    BY DEF Resolves, MemoryOK, MemorySound, Sound
  <1>2. ~Overlaps(allocs[g], allocs[h].offset, allocs[h].size)
    BY <1>1 DEF MemorySound, Sound
  <1>3. /\ b \in 0 .. (PoolBytes - 1)
        /\ ~(allocs[g].offset + off <= b /\ b < allocs[g].offset + off + n)
    BY <1>1, <1>2, PoolAssumption DEF Overlaps, InRange, InPool, End, Allocation, Word
  <1> QED
    BY <1>3 DEF CopyTo

(* No step changes the bytes of a live buffer it was not addressed to.     *)
LEMMA IsolationStep == IInv /\ [AnyNext]_vars => [OthersKept]_vars
  <1> SUFFICES ASSUME IInv, [AnyNext]_vars,
                      NEW h \in Handles, allocs[h].live, allocs'[h].live, ~Addressed(h),
                      NEW b \in allocs[h].offset .. (End(allocs[h]) - 1)
               PROVE  pool'[b] = pool[b]
    BY DEF OthersKept
  <1>0. TypeOK /\ MemoryOK /\ MemorySound /\ stage \in [StageRegs -> Nat]
    BY DEF IInv, TypeOK, RegsOK
  <1>1. CASE Reset
    BY <1>1 DEF Reset, NoAllocation
  <1>2. CASE pool' = pool
    BY <1>2
  <1>3. CASE phase = "idle" /\ ExecUpload /\ UploadAllowed
    <2>1. /\ pool' = CopyTo(allocs[stage["Arg0"]].offset + stage["Arg1"],
                            stage["PayloadLen"], payload)
          /\ stage["Arg0"] # h
      BY <1>3 DEF ExecUpload, Addressed
    <2>2. /\ stage["Arg1"] \in Nat /\ stage["PayloadLen"] \in Nat
          /\ Resolves(allocs, stage["Arg0"])
          /\ InRange(allocs[stage["Arg0"]], stage["Arg1"], stage["PayloadLen"])
      BY <1>0, <1>3 DEF UploadAllowed, StageRegs
    <2> QED
      BY <1>0, <2>1, <2>2, CopyElsewhere
  <1>4. CASE RunDescriptor
    <2> DEFINE d == batch[done + 1]
    <2>1. d \in Descriptor /\ d.input # h
      BY <1>0, <1>4, RunningTyped DEF RunDescriptor, Addressed
    <2>2. pool' = pool \/ (InputOk(d) /\ CopyInline(d))
      BY <1>4 DEF RunDescriptor
    <2> HIDE DEF d
    <2>3. CASE InputOk(d) /\ CopyInline(d) /\ d.inline
      <3> DEFINE src == [k \in 0 .. (d.inLen - 1) |-> d.data]
      <3>1. pool' = CopyTo(allocs[d.input].offset + d.inOff, d.inLen, src)
        BY <2>3 DEF CopyInline
      <3>2. /\ d.inOff \in Nat /\ d.inLen \in Nat /\ Resolves(allocs, d.input)
            /\ InRange(allocs[d.input], d.inOff, d.inLen)
        BY <2>1, <2>3 DEF Descriptor, InputOk
      <3> HIDE DEF src
      <3> QED
        BY <1>0, <2>1, <3>1, <3>2, CopyElsewhere
    <2>4. CASE InputOk(d) /\ CopyInline(d) /\ ~d.inline
      BY <2>4 DEF CopyInline
    <2> QED
      BY <2>2, <2>3, <2>4
  <1> QED
    BY <1>1, <1>2, <1>3, <1>4, TouchesMemory
    DEF ExecAlloc, ExecFree, ExecUpload, Fail, core

(* A buffer's bytes change only when the client addressed it.              *)
THEOREM Isolation == Spec => BuffersIsolated
  BY IsolationStep, Invariance, GivenSpec, PTL DEF AnySpec, BuffersIsolated
=============================================================================
