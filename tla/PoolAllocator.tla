---------------------------- MODULE PoolAllocator ----------------------------
(***************************************************************************)
(* Device::Allocate (device.cpp:65-115) statement by statement, in 32-bit  *)
(* arithmetic: the checks before and after rounding, the search for a free *)
(* slot, and the scan that bumps a candidate offset past every allocation  *)
(* it overlaps.  The caller's FREE runs between calls; nothing else of the *)
(* device runs during one.                                                 *)
(***************************************************************************)
EXTENDS Pool

CONSTANT Requests      \* the byte counts a client asks for

ASSUME RequestsAssumption == Requests \subseteq Word

VARIABLES
  allocs,     \* allocations_
  pending,    \* the request being served, NoCall between calls
  reply,      \* what the last call returned: a handle, 0 when refused
  pc,         \* where Allocate is: "idle", "check", "scan" or "inner"
  bytes,      \* the request after rounding
  slot,       \* the first slot that is not live
  candidate,  \* the offset being tried
  i,          \* the inner loop's index
  overlap, bump

vars == <<allocs, pending, reply, pc, bytes, slot, candidate, i, overlap, bump>>

NoCall == -1

-----------------------------------------------------------------------------
Add32(a, b) == IF a + b < WordMod THEN a + b ELSE a + b - WordMod

AlignUp4(v) == Add32(v, 3) - (Add32(v, 3) % 4)

(* A deviation for Max32: the smaller end wins, and the candidate stays.   *)
SmallerEnd(a, b) == IF a < b THEN a ELSE b

Max32(a, b) == IF a > b THEN a ELSE b

Init ==
  /\ allocs = [h \in Handles |-> NoAllocation]
  /\ pending = NoCall
  /\ reply = 0
  /\ pc = "idle"
  /\ bytes = 0 /\ slot = 0 /\ candidate = 0 /\ i = 0
  /\ overlap = FALSE /\ bump = 0

(* What Allocate does when it returns h, the locals dead from then on.     *)
Return(h) ==
  /\ reply' = h
  /\ pending' = NoCall
  /\ pc' = "idle"
  /\ bytes' = 0 /\ slot' = 0 /\ candidate' = 0 /\ i' = 0
  /\ overlap' = FALSE /\ bump' = 0

Allocate(n) ==
  /\ pc = "idle"
  /\ pending' = n
  /\ pc' = "check"
  /\ UNCHANGED <<allocs, reply, bytes, slot, candidate, i, overlap, bump>>

(* A deviation for Acceptable: round up first and check afterwards.        *)
RoundThenCheck(n) == n # 0 /\ AlignUp4(n) <= PoolBytes

(* Before rounding: a request that would wrap must not reach AlignUp4.     *)
Acceptable(n) == n # 0 /\ n <= PoolBytes /\ AlignUp4(n) <= PoolBytes

Reject ==
  /\ pc = "check"
  /\ \/ ~Acceptable(pending)
     \/ \A h \in Handles : allocs[h].live
  /\ Return(0)
  /\ UNCHANGED allocs

(* A deviation for PickSlot: any slot that is not live, not the first.     *)
PickAnySlot ==
  /\ pc = "check"
  /\ Acceptable(pending)
  /\ \E h \in Handles : ~allocs[h].live /\ slot' = h
  /\ bytes' = AlignUp4(pending)
  /\ candidate' = 0
  /\ pc' = "scan"
  /\ UNCHANGED <<allocs, pending, reply, i, overlap, bump>>

PickSlot ==
  /\ pc = "check"
  /\ Acceptable(pending)
  /\ \E h \in Handles : IsFirstFreeSlot(allocs, h) /\ slot' = h
  /\ bytes' = AlignUp4(pending)
  /\ candidate' = 0
  /\ pc' = "scan"
  /\ UNCHANGED <<allocs, pending, reply, i, overlap, bump>>

TryCandidate ==
  /\ pc = "scan"
  /\ Add32(candidate, bytes) <= PoolBytes
  /\ overlap' = FALSE
  /\ bump' = candidate
  /\ i' = 1
  /\ pc' = "inner"
  /\ UNCHANGED <<allocs, pending, reply, bytes, slot, candidate>>

NoRoom ==
  /\ pc = "scan"
  /\ Add32(candidate, bytes) > PoolBytes
  /\ Return(0)
  /\ UNCHANGED allocs

(* A deviation for Skipped: compares with where the allocation starts.     *)
SkippedPastStart(a) ==
  \/ ~a.live
  \/ Add32(candidate, bytes) <= a.offset
  \/ candidate >= a.offset

Skipped(a) ==
  \/ ~a.live
  \/ Add32(candidate, bytes) <= a.offset
  \/ candidate >= Add32(a.offset, a.size)

Compare ==
  /\ pc = "inner"
  /\ i <= MaxAllocations
  /\ IF Skipped(allocs[i])
     THEN UNCHANGED <<overlap, bump>>
     ELSE /\ overlap' = TRUE
          /\ bump' = Max32(bump, Add32(allocs[i].offset, allocs[i].size))
  /\ i' = i + 1
  /\ UNCHANGED <<allocs, pending, reply, pc, bytes, slot, candidate>>

Take ==
  /\ pc = "inner"
  /\ i > MaxAllocations
  /\ ~overlap
  /\ allocs' = [allocs EXCEPT ![slot] =
       [offset |-> candidate, size |-> bytes, uploaded |-> 0, live |-> TRUE]]
  /\ Return(slot)

(* A deviation for Bump: the next candidate is one word past the end.      *)
BumpOnePast ==
  /\ pc = "inner"
  /\ i > MaxAllocations
  /\ overlap
  /\ candidate' = AlignUp4(Add32(bump, 1))
  /\ pc' = "scan"
  /\ UNCHANGED <<allocs, pending, reply, bytes, slot, i, overlap, bump>>

Bump ==
  /\ pc = "inner"
  /\ i > MaxAllocations
  /\ overlap
  /\ candidate' = AlignUp4(bump)
  /\ pc' = "scan"
  /\ UNCHANGED <<allocs, pending, reply, bytes, slot, i, overlap, bump>>

Free(h) ==
  /\ pc = "idle"
  /\ Resolves(allocs, h)
  /\ allocs' = Release(allocs, h)
  /\ UNCHANGED <<pending, reply, pc, bytes, slot, candidate, i, overlap, bump>>

Serve ==
  \/ Reject \/ PickSlot \/ TryCandidate \/ NoRoom \/ Compare \/ Take \/ Bump

Next ==
  \/ \E n \in Requests : Allocate(n)
  \/ Serve
  \/ \E h \in Handles : Free(h)

Spec == Init /\ [][Next]_vars

(* The loop of a call that was made runs to its end: it is straight code.  *)
FairSpec == Spec /\ WF_vars(Serve)

-----------------------------------------------------------------------------
TypeOK ==
  /\ allocs \in [Handles -> Allocation]
  /\ pending \in Word \cup {NoCall}
  /\ reply \in Handles \cup {0}
  /\ pc \in {"idle", "check", "scan", "inner"}
  /\ bytes \in Word
  /\ slot \in Handles \cup {0}
  /\ candidate \in Word
  /\ i \in 0 .. (MaxAllocations + 1)
  /\ overlap \in BOOLEAN
  /\ bump \in Word

(***************************************************************************)
(* Whatever was allocated and freed before, live allocations are nonempty  *)
(* aligned ranges of the pool and no two share a byte (device.cpp:89-113). *)
(***************************************************************************)
AllocationsSound == Sound(allocs)

(***************************************************************************)
(* The scan skips no offset that would have fitted, so that the offset it  *)
(* takes is the lowest and running off the end of the pool means that no   *)
(* offset fits (device.cpp:88-114).                                        *)
(***************************************************************************)
ScanSkipsNoFit ==
  pc \in {"scan", "inner"} =>
    \A c \in 0 .. (candidate - 1) : ~FitsAt(allocs, c, bytes)

(***************************************************************************)
(* A granted buffer is never smaller than what was asked for, for requests *)
(* near UINT32_MAX too, where rounding up wraps (device.cpp:66-75).        *)
(***************************************************************************)
GrantCoversRequest ==
  [][pending # NoCall /\ reply' # 0 /\ pending' = NoCall =>
       allocs'[reply'].size >= pending]_vars

(***************************************************************************)
(* Every call is answered: a bumped candidate always moves on, so the scan *)
(* cannot stay at one offset (device.cpp:89-113).                          *)
(***************************************************************************)
CallIsAnswered == (pending # NoCall) ~> (pending = NoCall)

(***************************************************************************)
(* The loop implements the promise of AllocatorSpec: the answer is the     *)
(* first free slot at the lowest offset that fits, or a refusal when there *)
(* is none (device.cpp:65-115).                                            *)
(***************************************************************************)
Promise == INSTANCE AllocatorSpec

RefinesAllocatorSpec == Promise!AbstractSpec
=============================================================================
