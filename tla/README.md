# GekkoPAK: TLA+ models and proofs

GekkoPAK is a fictional accelerator cartridge for the Nintendo DS card bus.  A
client (a DS program, an ARM guest in an emulator, a host test) speaks a small
wire protocol, NTR_WIRE_V1, to a device that owns a pool of local memory, a
table of jobs and a queue of completions.  The same device core is compiled into
three targets: a host model, an Azahar emulator device and the DSpico firmware.
This directory models the device core, the transports and adapters around it and
the clients that drive it; it checks the models with TLC, and proves the results
that matter most for every value of the constants.

Paths below are relative to the repository root; line numbers are those of the
commit the models were written from.

## 1. Inventory

| Component | State | Operations | Talks to |
|---|---|---|---|
| Device core, `src/device.cpp`, `include/gekkopak/device.h`, `protocol.h` | staging registers, payload window, pool, `allocations_[16]`, `jobs_[16]`, `next_job_`, completion ring, `completed_` | `Reset`, F0 `WriteReg`, F1 `Exec` (HELLO, GET_CAPS, ALLOC, UPLOAD, SUBMIT, POLL, COLLECT, FREE, COMPLETE), F2 `ReadReg`, F3 `WritePayloadWord`, F4 `WriteBlock`, F5 `ReadBlock` | called by an adapter, one call at a time |
| Allocator, `Device::Allocate` | the allocation table | first-fit bump scan, FREE | device core |
| Completion queue, `PushCompletion` / `PopCompletion` | array, read index, write index, count | push, pop, reset | filled by F4, drained by F5 |
| Timing model, `FinishTiming` etc. | none (report registers) | integer estimates | device core |
| Register transport, `include/gekkopak/ntr_register_transport.h` | ROMCNT, command words, the data phase and its cursor | 32-bit loads and stores of the card registers | client above, device core below |
| Host model adapter, `prototype/azahar-ntr/model/` | owns a transport and a device | forwards | tests |
| Azahar device, `prototype/azahar-ntr/azahar_overlay/.../gekkopak_ntr.cpp` | last reported fault and command counts, "announced" flag | `Read32`, `Write32`, `Reset` | emulator above, transport below |
| ARM guest, `prototype/azahar-ntr/guest/gekkopak_guest_ntr.S` | program counter, registers | one session from HELLO to PASS with busy waits | register transport |
| DSpico adapter, `prototype/dspico-v1/overlay/src/gekkopakNtr.cpp` | receive buffer, four diagnostic counters | F0..F5 handlers, the block-complete callback | card emulator hardware, device core |
| DS client, `prototype/dspico-v1/ds-test/source/gekkopak_ntr.c`, `bench.c` | locals of a stage, retry counters | reads repeated until two agree, F4 with retries, drain | DSpico over the card bus |
| USB driver, `prototype/dspico-v1/ds-test/usb/dcd_dspico.c` | per endpoint: length, offset, remaining or received, buffer number, active | transfers in 512-byte blocks over two buffers, event pump, SET_ADDRESS in two halves | controller on the cartridge below, tinyusb above |
| USB stack, `ds-test/usb/tinyusb/` (`device/usbd.c`, `usbd_control.c`, `class/cdc/cdc_device.c`, `common/tusb_fifo.c`) | event queue, count of queued SETUPs, busy flags, configuration, suspended, the control transfer, line state, two ring buffers | `tud_task`, control transfers, `tud_cdc_write`, `tud_cdc_write_flush`, completions, reset | driver below, main loop above |
| Main loop, `ds-test/source/main.c` | `sent`, `sDiagLen` | once a frame: pump, `tud_task`, stream the transcript while the port is open | USB stack |
| Analytic simulator, `src/gekkopak.cpp` | configuration and a byte count | estimate, allocate, release | `sim/main.cpp` |
| Mailbox prototype, `prototype/azahar/gekkopak_guest.S`, `gekkopak_retro_frontend.c` | a page of guest memory; one allocation and one job in the frontend | the guest stores a request word by word and spins; the frontend looks once per frame | each other |

What is hard in this system:

- *Long legal sequences.*  Everything in the core is reached by one client
  writing registers in any order.  The pool fragments, handles go stale and are
  reissued, slots are used up.  Nothing stops a client from using a handle it
  has freed.
- *Limits.*  Sixteen allocations, sixteen jobs, sixteen completions, 512-byte
  blocks, 32-bit sizes: the cases at and one past each of them.
- *Partial work.*  A descriptor block holds up to eight jobs.  It is parsed as a
  whole, then run descriptor by descriptor, and a descriptor can fail after its
  inline input was stored.
- *Loops that must end.*  The allocator's scan and the two loops of
  `ProcessDescriptorBlock`.
- *The bus.*  On hardware the first transaction after a pause is lost, and after
  512-byte writes a second one; a lost read returns undriven data, or zero when it
  times out; commands have side effects before their data crosses (F5 pops before the first word is
  read); a transfer can be abandoned or disturbed in its middle; a cartridge may
  stop answering altogether, and a read then returns all ones.
- *Two parties.*  The USB controller moves one buffer while the driver refills or
  reads the other; the mailbox frontend looks at a page the guest may have
  written half of.
- *A host that starts over.*  A USB host resets the bus, gives a transfer up or
  suspends at any moment, while events of before still wait in two queues, of
  which the first changes some of the stack's state when it is read and the rest
  when it is handled.
- *Busy waits.*  The guest spins on bits that only its own accesses move.

What makes each part correct, in a sentence: the allocator never overlaps two
buffers and grants what it can; the queue is a FIFO that reports what it drops;
a step changes only the buffer it names; a job's answer is settled when it is
submitted; a block is refused without effect or answered descriptor by
descriptor; every call returns; the transport hands the device each accepted
command once, with its own words; a client takes only its own answers for
answers; every byte of a USB transfer, and of the transcript, arrives once and in
order; a control transfer is answered for itself; every session, stage and
transfer ends.

The hazards behind these sentences, each at its line, are listed in
`PROJECT.json` with the properties that watch them.

## 2. Modules

| Module | Models | Notes |
|---|---|---|
| `Pool` | allocation records, `AllocationForHandle`, what first fit and `ALLOC` mean | vocabulary, no state |
| `AllocatorSpec` | what ALLOC and FREE promise | abstract: an answer in one step |
| `PoolAllocator` | `Device::Allocate` (device.cpp:65-115) one statement at a time in wrapping arithmetic, and FREE | implements `AllocatorSpec` |
| `BoundedFifo` | what the completion queue promises | abstract |
| `CompletionRing` | `PushCompletion`, `PopCompletion` (device.cpp:133-151), with stale records left in the array | implements `BoundedFifo` |
| `GekkoDevice` | the device core: every wire operation, and each iteration of `ProcessDescriptorBlock` | the composition: allocator and queue appear by what they are proved to do |
| `DeviceClaims` | what the repository says of repeated blocks | checked and found not to hold |
| `CardBus` | one command, then its words, in order | abstract |
| `RegisterTransport` | every load and store of the register page (`ntr_register_transport.h`) | implements `CardBus` for any client |
| `AzaharDevice` | the emulator's device: reset, accessors, and its log | extends `RegisterTransport` |
| `GuestSession` | the ARM guest's session | composes guest, `RegisterTransport` (by INSTANCE) and `GekkoDevice` |
| `DspicoCard` | the DSpico adapter: F0 to F5, the F4 callback, the counters | extends `GekkoDevice` |
| `DsClient` | the DS test program over a bus that loses transactions, with a cartridge that may fall silent | extends `DspicoCard` |
| `UsbEndpoints` | double-buffered IN and OUT transfers of `dcd_dspico.c` | controller and host are external, modelled from their use |
| `TuFifo` | tinyusb's ring buffer (`tusb_fifo.c`), its 16-bit indices included | operators on a record, no state |
| `UsbStack` | the driver, tinyusb's device core, control transfers and CDC class | each function of the code an operator from device to device; extends `TuFifo` |
| `UsbConsole` | main loop, `UsbStack`, and beside them controller and host | controller and host are external |
| `MailboxSession` | the mailbox guest and its frontend | stores and frames interleave |
| `OperatorLemmas`, `PoolAllocatorProofs`, `QueueProofs`, `GekkoDeviceProofs`, `EmulatorProofs`, `UsbConsoleProofs` | theorems and their proofs | checked by TLAPS; `OperatorLemmas` is about the operators of `Pool` and `TuFifo`, `QueueProofs` about `CompletionRing` and `UsbEndpoints`, `EmulatorProofs` about `RegisterTransport`, `AzaharDevice` and `MailboxSession` |
| `DspicoProofs` | theorems about `DspicoCard` and `DsClient` | extends `GekkoDeviceProofs`, whose invariant it uses |
| `GuestSessionProofs` | theorems about `GuestSession` | extends `GekkoDeviceProofs`, whose invariant it uses |
| `MC*` | instances for TLC | |

How `GekkoDevice` corresponds to the code:

- Each handler is one action, with the refusals as disjuncts in the code's
  order.  `Answer` stands for `ClearOutputs` and the stores that follow it:
  every F1 command replaces RESULT and the OUT registers.
- `WriteBlock` accepts or refuses the transfer; `ParseDescriptor` and `EndParse`
  are the parsing loop, `RunDescriptor` and `EndRun` the executing one.  While
  `phase` is not `"idle"` no other operation runs: the core is single threaded
  and adapters call it synchronously.  The steps exist so that properties can
  speak about the middle of a batch.
- A descriptor in a block is what the parser can tell about the bytes at its
  place: padding, malformed, or well formed with these fields.  Inline input is
  a number of equal bytes that follow the descriptor.
- A checksum is modelled by the sequence of bytes it is taken over.  FNV-1a can
  collide; the model does not, so statements about checksums are statements
  about the bytes covered.
- Timing figures, the work-unit registers and F2 are left out: F2 changes
  nothing, and the figures are written to registers nothing in the core reads.
- `RegWrites`, `PayloadWrites`, `Commands`, `Blocks` and `Reads` are what the
  client may send.  Handles, offsets and lengths that the client has no right to
  are among them.
- `entry` is a history variable: the core as it was when a block arrived.

How the other modules correspond to the code:

- `RegisterTransport` keeps the page's three registers as records, a word on the
  bus as a value, and 512 bytes as `BlockWords` words.  The device below it
  appears as `call`, the last call made, and as a free choice of what it answers.
  A command that starts with `'G'`, `'K'` is valid whatever its opcode, as in
  `DecodeCommand`: with an unknown one it is a fault if it asks for a block, and is
  latched without a call if it asks for none.  In `GuestSession` that choice is replaced by `GekkoDevice`.
- `GuestSession` lists the guest's transactions as data (`Script`) and models what
  every transaction does to the bus as actions: `stage_cmd` is three stores, and
  `wait_ready` and `wait_idle` are loops that may spin.
- `AzaharDevice` models the log by how many lines of each kind it holds.
- `DspicoCard` takes an F4, its data phase and the callback as one step followed by
  the core's own: the firmware around the adapter, which is not in the
  repository, is taken to deliver nothing in between.  So the callback's second look
  at the command words (`gekkopakNtr.cpp:70-76`) finds those of the handler, and an
  F4 whose payload was not captured (49-56) does not occur; `F4Agrees` says nothing
  of either.
- `DsClient` has one step per card transaction.  `risk` is how many of the next
  transactions may be lost: one after an EXEC, a `swiDelay`, the clearing of a block
  and at the start of a stage (`docs/HARDWARE_DSPICO_V1.md:100`), two after a block
  (`gekkopak_ntr.h:168-175`).  A transaction that is heard ends the risk.  A lost
  register read returns undriven data, or the zero that `gpk_cmd_read32` starts from
  and returns when it times out or never finds `DATA_READY`; a silent cartridge gives
  all ones or zero.  A round trip runs with or without priming of its block reads, as
  the F5 matrix of `bench.c` does, and any F5 may come back shifted, primed or not:
  `main.c:893-897` leaves open whether latency, a dropped transaction or the
  structure of the command is the cause.  Once, between any two transactions, the cartridge may fall silent (pulled, or its firmware
  hung): it then drives nothing until the stage is over, and comes back as it was
  or reset.  A silence that ends within a stage is not modelled; it could leave a
  completion of the stage before in the queue.
- `UsbEndpoints` names each byte by transfer and position, so that a stale,
  repeated or lost one is seen.
- `UsbStack` keeps the whole device in one record `d`, so that a chain of calls is
  a composition of operators and an event is handled in one step, as the single
  thread does.  `UsbConsole` then has one step per pumped event, per handled event
  and per frame's write, and lets controller and host act between any two of them.
  Packets are at most `PacketSize` bytes, so the driver's second buffer stays out
  (`UsbEndpoints` has it).  `claimed` is left out: it is set only within calls that
  go on to set `busy` or give it back.  The transcript is the numbers 1, 2, 3, ...,
  so that a lost, repeated or reordered byte is seen.
- What `UsbConsole` assumes of the parts that are not in the repository: a SETUP
  withdraws what was prepared on endpoint 0, a reset or unplugging withdraws
  everything and returns to address 0 (`Quiesced`), the host sends only to the
  address the device has, and no more than `CtlDepth` events wait.  The host may
  send a SETUP whenever there is room for one: it does not wait for the stack, which
  runs once a frame and not at all during a test stage.  `host.hurried` records
  whether the last SETUP came before the stack had heard of the packets of a transfer
  that was cut off (`~Unhurried`); a SETUP at the heels of a transfer that ended is
  not hurried.  `host.done` says that the last transfer ended and was not hurried,
  `host.astray` that the host took a hurried SET_CONFIGURATION for done.  These three
  are history: no action but the recording of `hurried` and `astray` looks at them.
  The properties except a hurried transfer itself, for the reason given as finding 5,
  and hold for every one after it that is not hurried in turn.
- `MailboxSession` stores one field per step.  A frame ends between any two of
  them, and `Frame` then runs `service_gekkopak`.

Definitions called deviations (`CopyOnePast`, `FlushedAlways`, ...) are
plausible mistakes in the definition that follows them.  No specification uses
them; they exist to show that the property they are paired with in
`PROJECT.json` notices the mistake.

## 3. Runs

Constants shrink the code's numbers, never the cases.  Sizes keep their ratio to
the 4-byte alignment, and the machine word (`WordMod`) is small enough for TLC
to reach the requests whose rounding wraps.

| Run | Instance | Shows |
|---|---|---|
| `allocator` | 3 slots, 18-byte pool, 6-bit word, requests 0..17 and 61..63 | The scan ends for every table reachable by ALLOC and FREE, never overlaps, takes the lowest fit, and implements `AllocatorSpec`.  Three slots are the fewest with a hole between two live buffers while a third is placed; 18 is not a multiple of 4; 61..63 wrap when rounded. |
| `completion_ring` | 4 slots, 3 records | The ring is a FIFO while it wraps, fills and drains over stale records, from every alignment of the indices. |
| `device_blocks` | 3 descriptors to a block, 2 jobs, queue of 2, 2 buffers | Every refusal of the parser and of the executor, full job table, full queue, partial and refused reads, with SUBMIT, POLL and COLLECT in between.  Three descriptors into a queue of two is the case in which a batch overruns it half way. |
| `repeated_job` | as `device_blocks` | Fails as described under Findings. |
| `azahar_transport` | 2 words to a block, 2 word values, counters modulo 2, tracing on | The register page under the Azahar device, driven by a guest that stores anything anywhere at any time.  The cursor stays inside the buffer, the transport implements `CardBus`, only a store to ROMCNT during a transfer can falsify the bits that clients spin on, and the log has one line for each fault, command and completion, also across the wrap.  Two words are the fewest for which a transfer has a middle; two values tell a rewritten command word from the latched one. |
| `guest_session` | requests of 5, 8 and 9 bytes in a pool of 10, blocks of 6 words | The session ends, passes exactly when the memory is there (9 bytes round up past the pool), and returns all it took. |
| `usb_endpoints` | 2-byte blocks, lengths 0, 2, 4, 5, the host ending OUT anywhere | Both directions at once.  The lengths are an empty transfer, one block, two blocks and a partial third. |
| `dspico_card` | 2 buffers, 10-byte pool, transfers of 0, 5 and 9 bytes to a block of 8, a foreign selector, counters modulo 2 | ALLOC, UPLOAD and FREE and an unknown command in every order, with stale and unknown handles, offsets inside and past the end and lengths past the payload window, together with blocks through the adapter, one of which writes its inline byte and then fails: buffers stay disjoint and untouched by what does not name them, and adapter and core agree on every F4 in every state of the core. |
| `ds_client` | 2 attempts of 2 polls, at most 3 reads of a register, 2 rounds of draining, 2 jobs, 2 buffers, queue of 2, pattern of 3 bytes, one silence | Stages in any order and number under the measured loss rules, and a cartridge that falls silent at any transaction.  Two attempts are the fewest in which an answer of the first can meet the second; two polls the fewest with one that is not right behind the block; three reads the fewest of which two can be true after a lost one; two jobs and two buffers run out.  The diagnostic counters of F4 play no part and have one value. |
| `usb_control` | 2-byte packets, answers of 2 and 3 bytes to a request for 3, receive buffer of 3, 2 waiting events, one reset, one transfer given up, any number of unplugs | Every kind of control request in any order, right behind one another, cut off anywhere and hurried: two waiting events are a packet of one transfer and the SETUP of the next.  Two bytes are an answer that ends in a full packet and needs an empty one behind it; three one that ends in a short packet; a receive buffer of 3 has room left, but not for a packet. |
| `usb_stream` | 2-byte packets, ring buffer of 2, transcript of 3 that grows to 4, 2 waiting events, one reset, one suspend | The port opened and closed any number of times while the transcript flows.  A buffer of one packet wraps its indices after two writes and is full most of the time; the transcript ends once in a short and once in a full packet. |
| `mailbox` | the guest's own session, 14 frames instead of 90 | The interleavings of stores and frames.  The session needs ten frames, so up to four may be lost at any place. |

Deadlock is checked in every run but `mailbox`, whose frontend really stops after
its last frame.

**Fairness.**  `PoolAllocator!FairSpec` and `GekkoDevice!FairSpec` assume weak
fairness of the steps inside a call (`Serve`, `Process`) and nothing of the
client.  Those steps are straight single-threaded code with no wait in them;
once the adapter has called the core, the processor runs it.  No liveness
property of these two rests on a client doing anything.  The other liveness
properties are about programs, so they assume that the program runs:
`GuestSession` that the emulated processor executes the guest (`Guest`) and that
a store returns (`DeviceStep`); `DsClient` that the test program, which has no
other thread to wait for, goes on (`Program`) and that the cartridge finishes a
block it took (`Cartridge`), with no fairness of the bus: every transaction that
may be lost can be lost each time; `UsbEndpoints` that the main loop calls
`gpk_usb_task` and that the host goes on asking for and sending data.
`UsbConsole` states the same of its main loop by `[]<><<MainLoop>>_usbVars`: some
step of the loop is always enabled, so this is what fairness of it means, and the
code's loop does run a frame after the other.  Of the host it assumes that it goes
on with a control transfer it has begun, and that it reads a port it has opened, also
if it finds room for a report only now and then between control transfers that fill
the event queue (strong fairness of `TakeIn2`: a host polls bulk endpoints again and
again).  It need never start, resume or end anything.

## 4. Proofs

The theorems hold for every number of slots, jobs and queue entries, every pool
size, and every set of client inputs, under these assumptions:

- `PoolAssumption`: at least one slot, and `2 * PoolBytes + 4 <= WordMod` with
  `WordMod` a multiple of 4.  With 32-bit words that is a pool below 2 GiB; the
  adapters use 64 KiB and 32 MiB.  Without it the sums in the scan would wrap.
- `DeviceAssumption`: at least one job and one queue entry, a descriptor of at
  least one byte, and inputs of the right type.
- `ClientAssumption`: every bound of the test program's loops is at least one and the
  polls are at least two (with one poll, right behind the block, an answer could never
  be told from two lost reads), the pattern fits the payload window, a completion record fits a block, and the byte of
  the pattern is a byte.
- `MailboxAssumption`: the guest uploads four words, and they fit the buffer it asks
  for (both are written into the guest).
- `CardAssumption`, `DepthAssumption`, `RecordAssumption`, `RequestsAssumption`,
  `TransportAssumption`, `UsbAssumption`, `UsbStackAssumption`: sizes are positive, and
  inputs have the right type.
- `UsbConsoleAssumption`: no more events wait between two frames than the stack's queue
  holds, and a request with a data stage (a read, or SET_LINE_CODING, whose data are
  seven bytes) is for at least a byte: one for none has no data stage, and the host of
  the model would wait for one.

**Allocator** (`PoolAllocatorProofs`).  `Soundness`, `FirstFit` and
`GrantCovers` are invariants or step properties of the statement-level scan;
`Refinement` shows each of its steps is a step of `AllocatorSpec` or a stutter.
The inductive invariant adds to the properties what the loop knows at each
point: the rounded request fits the pool, `candidate` is aligned and has skipped
no fit, and inside the inner loop the allocations compared so far either do not
overlap or end at or below `bump`.  The bound on `PoolBytes` turns each wrapping
sum into a plain one.  `OperatorLemmas` holds the facts about tables that need no
state: placing a first fit, releasing, and raising an upload mark keep a table
sound, and a lowest fit is aligned.

**Queue** (`QueueProofs`).  The invariant is that the write index is the
read index plus the count, around the ring, and that the slots between them hold
records.  From it `RingIsFifo` follows: pushing appends to the mapped queue and
popping takes its head.

**Device** (`GekkoDeviceProofs`).  One inductive invariant
(`IInv`) conjoins the types, `MemorySound`, `JobTableSound`, `BatchAnswered`,
and two strengthenings.  `QueueNames` says of each successful completion in the
queue that its job is in the table, ready, with the same checksum, and that job
numbers rise along the queue.  `BlockInv` says what holds in each phase of a
block: nothing is left over when idle; while parsing, the core still equals
`entry` (this is why a refused block has no effect); and the batch is always a
prefix of the images with the cursor inside the block.  There is one lemma per
group of actions and part of the invariant, since most actions leave most parts
alone.  Nine theorems follow, among them `Isolation`: no step changes a byte of
a live buffer it was not addressed to.  It uses that live buffers are disjoint
and that a write stays within the range `InRange` accepted.  The invariant is proved
for `AnySpec`, whose client sends any operation with any well-typed argument; `Spec`,
the DSpico card and the test program are such clients.

**Transport** (`EmulatorProofs`).  The theorems are about `AnySpec`, in
which the client may make any access at any time.  `TransportTypeOK` is inductive
as it stands, since each store and load that moves the word counter first compares
it with the words of the transfer.  `BitsFollow` needs only those types.
`TransportIsBus` shows a step-by-step correspondence: a start is `Command`,
`OpenRead` or `OpenWrite`, a load of the data port is `TakeWord`, a store to it is
`PutWord`, a load outside a read is `NothingToTake`, a reset is `PowerUp`, and
every other access leaves the mapped bus alone.  The words still
owed are the part of the buffer behind the counter; the lemma `WordsBehind` says
that moving the counter by one takes the head of that part and leaves its tail.
Every access of the Azahar device is one of `AnyNext`, so all of this holds behind it
(`AzaharOnBus`).  `LogExact` needs that the device compares counters after every
access (`LogCurrent`): a counter that moved by one is never seen as unchanged, since
`CounterMod` is at least two.

**Card and test program** (`DspicoProofs`).  `CardMemory` and `CardIsolation` carry the
core's results to the card.  `F4Agreement` needs that the counters stay below `F4Mod`,
so that an increment always changes them.

The theorems about `DsClient` rest on two invariants, the second proved over the
first.

- `ClientInv` says what the program may rely on at each place.  Its parts are the
  core's `IInv`; `ClientTyped`; `VoteInv` (of two reads in a row the second is at risk
  only at the first poll behind a block, and the third never); `BlockKnown` (a
  cartridge that is heard is idle except from the block to the end of the round trip,
  and idle again once a later poll returned, since the core answers no read while it
  works) and `FewRecords` (one record at most waits, none while a job may still run).
  `TrueReads` follows from `VoteInv`: a read that is not at risk is true, and one that
  agrees with it is too, whatever the lost one came back as.  It excepts the first
  poll behind a block (`BehindBlock`), where both reads may be lost alike.
  `TripInv` and `HeardInv` describe a round trip by where it is.  They are two because
  a cartridge that fell silent stops hearing, but may still run a block it has: what
  the record and the job count say survives a silence (`TripInv`), what the program
  knows of the card does not (`HeardInv`).  The heart is in `poll`, `polled` and
  `Fetching`: either the job may still run, or nothing was run and nothing waits, or
  the record of this attempt waits.  The program may come to `fetch` on a false depth,
  but from a false zero only to a second poll, whose answer is true; so a block is
  sent again only if it was not run (`AtMostOnce`), a record that is read is the
  stage's own (`HonestPass`), and when a job has run its record is still at the front
  of the queue when the program reads it, primed or not (`AnswerStays`).  That the
  read then returns it is not claimed: it may be shifted.
- `BufferInv` counts buffers.  Where a stage has a buffer it is live and large enough,
  and all other live ones belong to stages that gave up or were cut off
  (`Accounted`).  It is kept because ALLOC and FREE, and the stores of their
  arguments, follow other traffic and are not lost (`NotPaused`, `Argued`).  `NoLeak`
  is this at rest.

**ARM guest** (`GuestSessionProofs`).  For every payload, allocation size and capacity
of the core that `SessionAssumption` admits: the buffer it asks for holds its inline
bytes, and a descriptor with them fits a block (16 of 4096, and 64 + 16 of 512).  The guest sends one script
of transactions, each in steps of its own: set up, start, move words, wait.
`SessionInv` has three parts.  The core's `IInv` gives the types of the tables.
`CardInv` says how page and guest agree inside a transaction: while a transfer is
open, the words left on both sides are the same number and the buffer holds the words
moved so far; outside one the page is closed, and what was read is the right answer
(`RightAnswer`).  `GuestInv` says what the transactions before the present one have
achieved (`Reached`): from which on a buffer is held, when the one job is recorded and
its completion waits, and that nothing is left once it is read and the buffer freed;
while the card works on the block of descriptors, `Working` says how far it is.  So
the session passes exactly when the pool can hold the buffer, and either way leaves no
buffer, completion or open transfer behind (`CleanSession`).
`GuestIsClient` says that the guest is one of the clients of the core's `AnySpec`, so
every theorem about the core holds under it.

**USB transfers** (`QueueProofs`).  For every block size and every length.  The
invariant names, for each direction and each place of the driver, the owner of both
buffers and what they hold: the block being sent and the one prepared ahead
(`InSending`, `InSent`, `InAhead`), the block expected, arrived or being read
(`OutExpecting`, `OutArrived`, `OutReading`).  At most one event per direction waits.
`InDelivery`, `OutDelivery` and `Ownership` follow.

**USB control transfers** (`UsbConsoleProofs`).  For every set of requests, every
packet and queue size, and any number of resets, unplugs, suspends and transfers given
up or hurried.  The inductive invariant is `ConsoleInv == Core /\ (host.hurried \/
UsbInv)`.  `Core` holds at all times: types, and that the stack's counter is the number
of SETUPs in its queue, so that it skips all but the last.  `UsbInv` holds from a
transfer that is not hurried until the next that is.  After a hurried one it is gone,
but a SETUP that is not hurried restores it from `Core` and from what does not wait at
that moment.  A transfer of the host may have to wait in either queue behind the remains
of others, so `UsbInv` follows it from its SETUP to its status stage:

- `QueuesInv`: while `tud_task` runs, not both queues hold a SETUP (`PumpsApart`); the
  last SETUP is that of the host's transfer, and every bus reset is ahead of it, so that
  the reset does not take away the request that follows it.
- `PendingInv`: until that SETUP is handled, nothing is prepared on endpoint 0, and
  nothing is reported but the last packet of the transfer before, ahead of the SETUP
  (`Closing`), which the stack takes for what it is (`Agreed`).
- `TransferInv`: afterwards the request was refused; or it is a read whose packets are
  offered, taken and reported in turn, with the host having read exactly up to where
  the stack believes it to be (`Offered`, `Taken`, `AllRead`); or at most an empty
  packet is sent.  `RightAnswers` follows.
- `AddressInv`: the address is in force, or the status packet of SET_ADDRESS is alone
  on its way to the stack (`Naming`), or it was booked on a transfer that had been cut
  off (`Misled`, the case of finding 2).  `AddressKept` follows.
- `DoneInv`: behind a transfer that ended nothing waits but that last packet, which is
  why the next one may follow at once.

Events of endpoint 2 and the two bus signals that only suspend or resume pass between
the queues without touching any of this: one lemma (`NoisyStep`) covers every step that
moves such an event, and `Kept` says of each function of the CDC class that it leaves
endpoint 0 alone.

**Mailbox** (`EmulatorProofs`).  For every payload, allocation size, memory and
number of frames.  The invariant says which stores of the request in hand are in the
page (`Stored`), that the two sequence numbers are equal or differ by the one request
announced (`Handshake`), what each finished request achieved in the frontend
(`Achieved`), how often a job was polled (`PollsCounted`), and how frames relate to
requests (`FramesCounted`).

**Ring buffer** (`OperatorLemmas`).  For every depth up to 32768, the largest whose
indices fit 16 bits.  `AdvanceWraps` says that `advance_index`, which skips
the unused part of the word by letting a sum overflow, adds modulo twice the
depth; its two cases are the sum that passes `2 * depth` and, from a depth of
21846 on, the one that overflows before that.  `WriteCounts`, `ReadCounts` and
`CorrectionFills` follow: a write of what fits and a read of what is there change
the count by exactly that, keep the indices in range and never make a full buffer
look empty, and after an overflow the corrected index leaves a full buffer.  What
the slots hold is checked by TLC: `FifoAgrees` in `MCUsbConsole` compares the
buffer with the sequence it stands for, over buffers of up to four items.

Only model-checked: the liveness properties `CallIsAnswered`, `SessionEnds`,
`StageEnds`, `TransfersEnd`, `ControlEnds` and `TranscriptArrives` (fairness is out
of the prover's reach); and `ReceivedKept` and `StreamWhole` of `UsbConsole`.
`ReceivedKept` sums over a queue with a fold, and `StreamWhole` reads the contents of a
ring buffer: what these compute for every length needs induction over data, which the
provers cannot do.  `TypeOK` and `TransportTypeOK` are proved and no longer run.

## 5. Findings

1. *Jobs are never released* (`repeated_job`).  No command clears a job's `live`
   flag.  After sixteen jobs every SUBMIT and every descriptor is refused until
   Reset, although the queue is drained.  The repeated frame job of
   `docs/NTR_WIRE_V1.md:180` and the batches of `bench.c` run into it.

Five more came up while modelling.  They have no run of their own; the properties
they bear on say where they stop.

2. *A transfer that was cut off is never closed* (`dcd_dspico.c:198-213`).  Nothing
   clears `active` of an IN transfer that a SETUP or a bus reset withdrew.  The
   status packet of SET_ADDRESS is the controller's own (`BEGIN_SET_ADDR`), so no
   new transfer replaces the old one: its completion is booked on the old transfer,
   found to leave bytes, and a packet of the old data is handed to the controller
   instead of a report.  `FINISH_SET_ADDR` is not sent and the device stays at
   address 0.  `AddressTaken` is therefore stated for a driver whose endpoint 0 has
   no transfer left over; without that guard TLC shows the sequence.
3. *A full FIFO does not always resume* (`main.c:836-838` says "a full CDC FIFO
   simply resumes on the next frame").  A suspend takes effect when it is pumped,
   the completion before it when `tud_task` handles it.  That completion then
   flushes nothing, and if the buffer is full when the bus resumes, the loop finds no
   room, writes nothing, and so never flushes.  `TranscriptArrives` excepts
   exactly this state (`Jammed`); a reset ends it.
4. *UPLOAD past the mark* (`device.cpp:260`).  The device keeps one high-water mark
   per buffer and raises it to `offset + len` whatever lies below, so an upload past
   it makes checksums cover bytes the client never sent; `protocol.h:235` says
   "FNV-1a over uploaded bytes".  A client that appends is not affected.
5. *A hurried SETUP is answered for the transfer before it* (`usbd.c:583-662`,
   `usbd_control.c:207-209`, `dcd_dspico.c:204-212`).  A host gives up transfer A after
   one of its packets and sends SETUP B, both before the next frame or during a test
   stage.  The queue then holds A's completion and, behind it, SETUP B.  `tud_task`
   handles the completion first and arms A's next packet, on an endpoint that already
   serves B: a host that reads B may take it.  If it does so before SETUP B is handled,
   its completion is booked on B's transfer, the unsigned `remaining` can wrap past
   zero, and B's IN never completes.  In the same way `TU_ASSERT(0 == xferred_bytes)`
   (`usbd_control.c:163`) can fail, a hurried SET_CONFIGURATION can look done to the
   host before it is (bytes written to the port are then lost), and the status packet
   of a SET_ADDRESS, handled behind a reset, gives the device an address it no longer
   has.  Without the exception of hurried transfers TLC refutes `ControlAnswers` within
   some 1,200 states, and `ControlEnds`.  `AddressTaken` it does not refute within the
   bounds of its run; there the exception is what the proof needs.
6. *Agreement does not reject two lost reads* (`gekkopak_ntr.h:177` says "Requiring
   agreement rejects a dropped transaction").  At the first poll behind a block both
   reads may be lost, as the lines above that comment record, and both may be the zero
   of a timeout or the same undriven value.  `ReadsAreTrue` excepts this poll.  The
   round trip survives it: the false zero is polled again, and a false depth leads to a
   read that finds the record of this attempt or none.

## 6. Not modelled, and what is left

- *Most of `ds-test/usb/tinyusb/`* (some 79,000 of the repository's 84,000 lines of
  implementation) is vendored and not part of the program: `tusb_config.h` enables
  one CDC device and no host, and the driver is the repository's own, so the host
  stack, the ports to other controllers and the other classes are neither compiled
  nor called.  Modelling them would say nothing about this system.  Of what is
  compiled, `usbd.c`, `usbd_control.c`, `cdc_device.c` and `tusb_fifo.c` are modelled
  except for: halting and clearing endpoints other than 0, remote wakeup, interface
  requests and GET_STATUS (they answer or refuse like the modelled ones), start of
  frame (never enabled), descriptors as data, and the FIFO's stream and linear-buffer
  variants, which the program does not use.
- *The timing figures* (`device.cpp:153-187`): integer estimates written to report
  registers, on which nothing depends.
- *Limits of three properties.*  `BatchAnswered` says that each descriptor of a block
  is answered or known to be dropped, not that RESULT then reads `QueueFull`.  The run
  of `AnswersStable` has no UPLOAD and no FREE, so what it shows of stored answers is
  about batches, SUBMIT, POLL and COLLECT; for every set of commands it is proved
  (`StableAnswers`).  `F4Agrees` takes handler, data phase and
  callback as one step (section 2).
- *More events than the stack's queue holds* (`usbd.c:1219`): listed as a hazard; how
  many the cartridge keeps is not known from the repository.
- The discovery sweep and the benchmark loops of `bench.c` (they time the modelled
  transactions), the counting allocator of `src/gekkopak.cpp` (an estimate),
  `sim/main.cpp`, the NTR frontend and the test program's screens (printing and
  argument parsing), the host model adapter (it only forwards), the build and overlay
  scripts, the host shim, the conformance runner and the result parsers.

Worth proving next: `ReceivedKept`, once what is under way to the class is described
without a sum (at most one packet of endpoint 2 waits between the two queues).
