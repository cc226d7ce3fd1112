---------------------------- MODULE AzaharDevice ----------------------------
(***************************************************************************)
(* The Azahar cartridge device (azahar_overlay/src/core/hle/device/        *)
(* gekkopak_ntr.cpp): it forwards each access of the guest to the register *)
(* transport and afterwards compares counters to decide what to log.  The  *)
(* log is modelled by how many lines of each kind it holds since Reset.    *)
(***************************************************************************)
EXTENDS RegisterTransport

CONSTANTS
  CompleteIndex,  \* kComplete, the F1 command that ends a session
  TraceEnabled    \* whether GEKKOPAK_TRACE is set

ASSUME AzaharAssumption ==
  CompleteIndex \in Indices /\ TraceEnabled \in BOOLEAN

VARIABLES
  completed,       \* core.completed()
  mapped,          \* mapped
  reportedFaults,  \* reported_faults
  tracedCommands,  \* traced_commands
  announced,       \* announced_complete
  lines            \* the log since Reset: trace, fault and announcement lines

azaharVars ==
  <<transportVars, completed, mapped, reportedFaults, tracedCommands, announced, lines>>

NoLines == [trace |-> 0, fault |-> 0, complete |-> 0]

AzaharInit ==
  /\ TransportInit
  /\ completed = FALSE
  /\ mapped = FALSE
  /\ reportedFaults = 0 /\ tracedCommands = 0 /\ announced = FALSE
  /\ lines = NoLines

Reset ==
  /\ TransportReset
  /\ completed' = FALSE
  /\ mapped' = TRUE
  /\ reportedFaults' = 0 /\ tracedCommands' = 0 /\ announced' = FALSE
  /\ lines' = NoLines

(* The core's part of an access: COMPLETE sets its flag.                   *)
CoreCompletes ==
  completed' = (completed \/ (/\ call' # call
                              /\ call'.op = "Exec"
                              /\ call'.index = CompleteIndex))

(***************************************************************************)
(* The three checks that follow an access, each as whether it logs.        *)
(***************************************************************************)
Traces == TraceEnabled /\ commands' # tracedCommands

TraceCommand ==
  tracedCommands' = IF Traces THEN commands' ELSE tracedCommands

(* A deviation for Reports: only the first fault is told.                  *)
ReportsFirst == reportedFaults = 0 /\ faultCount' # 0

Reports == faultCount' # reportedFaults

ReportFaults == reportedFaults' = IF Reports THEN faultCount' ELSE reportedFaults

(* A deviation for Announces: the announcement is repeated.                *)
AnnouncesAgain == completed'

Announces == ~announced /\ completed'

AnnounceCompletion == announced' = (announced \/ completed')

Plus(n, logs) == IF logs THEN (n + 1) % CounterMod ELSE n

Read32 ==
  /\ mapped
  /\ ReadFifo
  /\ ReportFaults
  /\ lines' = [trace |-> lines.trace, complete |-> lines.complete,
               fault |-> Plus(lines.fault, Reports)]
  /\ UNCHANGED <<completed, mapped, tracedCommands, announced>>

Stores ==
  \/ \E h \in HeadStores : WriteCmd0(h)
  \/ \E w \in Values : WriteCmd1(w)
  \/ \E w \in Values : WriteFifo(w)
  \/ \E r \in RomCntStores : WriteRomCnt(r)

Write32 ==
  /\ mapped
  /\ Stores
  /\ CoreCompletes
  /\ TraceCommand
  /\ ReportFaults
  /\ AnnounceCompletion
  /\ lines' = [trace |-> Plus(lines.trace, Traces),
               fault |-> Plus(lines.fault, Reports),
               complete |-> Plus(lines.complete, Announces)]
  /\ UNCHANGED mapped

(* Before the first Reset every access finds no device.                    *)
Unmapped ==
  /\ ~mapped
  /\ got' = 0
  /\ UNCHANGED <<pageRegs, phaseVars, counters, call, completed, mapped,
                 reportedFaults, tracedCommands, announced, lines>>

AzaharNext == Reset \/ Read32 \/ Write32 \/ Unmapped

AzaharSpec == AzaharInit /\ [][AzaharNext]_azaharVars
-----------------------------------------------------------------------------
(* Between accesses the log is complete and has no line twice: one line    *)
(* for each fault of the bus, one for each command when tracing, and one   *)
(* for a completed session, although each is found by comparing counters   *)
(* that wrap, on some accesses only (gekkopak_ntr.cpp:56-89, 122-141).     *)
LogAgrees ==
  /\ lines.fault = faultCount
  /\ lines.trace = IF TraceEnabled THEN commands ELSE 0
  /\ lines.complete = IF completed THEN 1 ELSE 0
=============================================================================
