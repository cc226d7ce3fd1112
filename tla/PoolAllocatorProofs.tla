------------------------- MODULE PoolAllocatorProofs -------------------------
(***************************************************************************)
(* The allocator's scan is correct for every pool size, table size and     *)
(* history of requests: see THEOREM Soundness, FirstFit and Refinement.    *)
(***************************************************************************)
EXTENDS PoolAllocator, OperatorLemmas

(***************************************************************************)
(* The inductive invariant.  While a call is being served its slot is the  *)
(* first free one, the candidate is aligned and inside the pool, and       *)
(* nothing below it fits; in the inner loop, either nothing seen so far    *)
(* overlaps or bump is the end of an allocation that does.                 *)
(***************************************************************************)
ServingInv ==
  /\ pc = "idle" <=> pending = NoCall
  /\ pc \in {"scan", "inner"} =>
       /\ Acceptable(pending)
       /\ bytes = AlignUp4(pending)
       /\ IsFirstFreeSlot(allocs, slot)
       /\ candidate <= PoolBytes
       /\ candidate % 4 = 0

InnerInv ==
  pc = "inner" =>
    /\ candidate + bytes <= PoolBytes
    /\ i >= 1
    /\ ~overlap => \A h \in 1 .. (i - 1) : ~Overlaps(allocs[h], candidate, bytes)
    /\ overlap => \E h \in Handles :
                    /\ Overlaps(allocs[h], candidate, bytes)
                    /\ bump = End(allocs[h])
    /\ ~overlap => bump = candidate

IInv == TypeOK /\ AllocationsSound /\ ScanSkipsNoFit /\ ServingInv /\ InnerInv

-----------------------------------------------------------------------------
(* Rounding up an acceptable request neither wraps nor shrinks it.         *)
LEMMA RoundingExact ==
  ASSUME NEW n \in 0 .. PoolBytes
  PROVE  /\ AlignUp4(n) = Rounded(n)
         /\ AlignUp4(n) \in Word
         /\ AlignUp4(n) % 4 = 0
         /\ AlignUp4(n) >= n
         /\ n % 4 = 0 => AlignUp4(n) = n
  BY PoolAssumption DEF AlignUp4, Add32, Rounded, Word

(* The sum of two offsets of the pool does not wrap.                       *)
LEMMA AddExact ==
  ASSUME NEW a \in 0 .. PoolBytes, NEW b \in 0 .. PoolBytes
  PROVE  Add32(a, b) = a + b /\ a + b \in Word
  BY PoolAssumption DEF Add32, Word

(* The 32-bit comparison of the inner loop decides exactly overlap.        *)
LEMMA SkippedExact ==
  ASSUME NEW h \in Handles, TypeOK, AllocationsSound,
         candidate \in 0 .. PoolBytes, bytes \in 0 .. PoolBytes
  PROVE  /\ Skipped(allocs[h]) <=> ~Overlaps(allocs[h], candidate, bytes)
         /\ allocs[h].live =>
              /\ Add32(allocs[h].offset, allocs[h].size) = End(allocs[h])
              /\ End(allocs[h]) \in 0 .. PoolBytes
              /\ End(allocs[h]) % 4 = 0
  <1>1. allocs[h] \in Allocation
    BY DEF TypeOK
  <1>2. Add32(candidate, bytes) = candidate + bytes
    BY AddExact
  <1>3. CASE ~allocs[h].live
    BY <1>3 DEF Skipped, Overlaps
  <1>4. CASE allocs[h].live
    <2>1. InPool(allocs[h])
      BY <1>4 DEF AllocationsSound, Sound
    <2>2. /\ allocs[h].offset \in 0 .. PoolBytes
          /\ allocs[h].size \in 0 .. PoolBytes
          /\ End(allocs[h]) \in 0 .. PoolBytes
          /\ End(allocs[h]) % 4 = 0
      BY <1>1, <2>1, PoolAssumption DEF Allocation, InPool, End, Word
    <2>3. Add32(allocs[h].offset, allocs[h].size) = End(allocs[h])
      BY <2>2, AddExact DEF End
    <2> QED
      BY <1>2, <1>4, <2>2, <2>3, PoolAssumption DEF Skipped, Overlaps, End
  <1> QED
    BY <1>3, <1>4

(***************************************************************************)
(* An offset below the end of an allocation that the candidate overlaps    *)
(* does not fit either: why the scan may jump to bump.                     *)
(***************************************************************************)
LEMMA BumpSkipsNoFit ==
  ASSUME TypeOK, NEW h \in Handles, NEW n \in Nat, NEW c \in Nat,
         Overlaps(allocs[h], c, n),
         NEW d \in Nat, c <= d, d < End(allocs[h])
  PROVE  ~FitsAt(allocs, d, n)
  <1>1. allocs[h] \in Allocation
    BY DEF TypeOK
  <1>2. Overlaps(allocs[h], d, n)
    BY <1>1 DEF Overlaps, Allocation, Word, End
  <1> QED
    BY <1>2 DEF FitsAt

-----------------------------------------------------------------------------
LEMMA InitIInv == Init => IInv
  <1> SUFFICES ASSUME Init PROVE IInv
    OBVIOUS
  <1>1. NoAllocation \in Allocation /\ ~NoAllocation.live
    BY PoolAssumption DEF NoAllocation, Allocation, Word
  <1>2. TypeOK
    <2>1. overlap \in BOOLEAN
      BY Zenon DEF Init
    <2>2. 0 \in Word /\ 0 \in 0 .. (MaxAllocations + 1)
      BY PoolAssumption DEF Word
    <2> QED
      BY <1>1, <2>1, <2>2, Zenon DEF Init, TypeOK
  <1>3. \A h \in Handles : ~allocs[h].live
    BY <1>1 DEF Init
  <1>4. AllocationsSound
    BY <1>3 DEF AllocationsSound, Sound
  <1> QED
    BY <1>2, <1>4 DEF Init, IInv, ScanSkipsNoFit, ServingInv, InnerInv, NoCall

LEMMA NextIInv == IInv /\ [Next]_vars => IInv'
  <1> SUFFICES ASSUME IInv, [Next]_vars PROVE IInv'
    OBVIOUS
  <1> USE DEF NoCall
  <1>a. TypeOK /\ AllocationsSound /\ ScanSkipsNoFit /\ ServingInv /\ InnerInv
    BY DEF IInv
  <1>1. ASSUME NEW n \in Requests, Allocate(n) PROVE IInv'
    BY <1>a, <1>1, RequestsAssumption, PoolAssumption
    DEF Allocate, IInv, TypeOK, AllocationsSound, ScanSkipsNoFit, ServingInv,
        InnerInv, Word
  <1>2. ASSUME Return(0), UNCHANGED allocs PROVE IInv'
    <2>1. 0 \in Word /\ 0 \in 0 .. (MaxAllocations + 1)
      BY PoolAssumption DEF Word
    <2>2. TypeOK'
      BY <1>a, <1>2, <2>1, Zenon DEF Return, TypeOK
    <2>3. AllocationsSound' /\ ScanSkipsNoFit' /\ ServingInv' /\ InnerInv'
      BY <1>a, <1>2
      DEF Return, AllocationsSound, ScanSkipsNoFit, ServingInv, InnerInv
    <2> QED
      BY <2>2, <2>3 DEF IInv
  <1>3. CASE PickSlot
    <2>1. PICK h \in Handles : IsFirstFreeSlot(allocs, h) /\ slot' = h
      BY <1>3 DEF PickSlot
    <2>2. pending \in 0 .. PoolBytes
      BY <1>a, <1>3, PoolAssumption
      DEF PickSlot, ServingInv, TypeOK, Acceptable, Word
    <2>3. AlignUp4(pending) \in Word
      BY <2>2, RoundingExact
    <2>4. TypeOK'
      BY <1>a, <1>3, <2>1, <2>3, PoolAssumption DEF PickSlot, TypeOK, Word
    <2>5. AllocationsSound' /\ ScanSkipsNoFit' /\ InnerInv'
      BY <1>a, <1>3 DEF PickSlot, AllocationsSound, ScanSkipsNoFit, InnerInv
    <2>6. ServingInv'
      BY <1>a, <1>3, <2>1, PoolAssumption
      DEF PickSlot, ServingInv, Acceptable, AlignUp4, Add32, IsFirstFreeSlot
    <2> QED
      BY <2>4, <2>5, <2>6 DEF IInv
  <1> DEFINE Serving == pc \in {"scan", "inner"}
  <1>b. ASSUME Serving
        PROVE  /\ pending \in 0 .. PoolBytes /\ pending # 0
               /\ bytes \in 1 .. PoolBytes /\ bytes % 4 = 0
               /\ bytes = Rounded(pending)
               /\ candidate \in 0 .. PoolBytes /\ candidate % 4 = 0
               /\ Add32(candidate, bytes) = candidate + bytes
               /\ slot \in Handles /\ ~allocs[slot].live
    <2>1. pending \in 0 .. PoolBytes /\ pending # 0
      BY <1>a, <1>b, PoolAssumption DEF ServingInv, TypeOK, Acceptable, Word
    <2>2. bytes \in 1 .. PoolBytes /\ bytes % 4 = 0 /\ bytes = Rounded(pending)
      BY <1>a, <1>b, <2>1, RoundingExact, PoolAssumption
      DEF ServingInv, Acceptable, Word
    <2>3. candidate \in 0 .. PoolBytes /\ candidate % 4 = 0
      BY <1>a, <1>b DEF ServingInv, TypeOK, Word
    <2>4. Add32(candidate, bytes) = candidate + bytes
      BY <2>2, <2>3, AddExact
    <2> QED
      BY <1>a, <1>b, <2>1, <2>2, <2>3, <2>4 DEF ServingInv, IsFirstFreeSlot
  <1>4. CASE TryCandidate
    <2>1. Serving
      BY <1>4 DEF TryCandidate
    <2>2. TypeOK'
      <3>1. 1 \in 0 .. (MaxAllocations + 1)
        BY PoolAssumption
      <3> QED
        BY <1>a, <1>4, <3>1, Zenon DEF TryCandidate, TypeOK
    <2>3. AllocationsSound' /\ ScanSkipsNoFit' /\ ServingInv'
      BY <1>a, <1>4
      DEF TryCandidate, AllocationsSound, ScanSkipsNoFit, ServingInv, Acceptable,
          AlignUp4, Add32, IsFirstFreeSlot
    <2>4. InnerInv'
      BY <1>4, <1>b, <2>1 DEF TryCandidate, InnerInv
    <2> QED
      BY <2>2, <2>3, <2>4 DEF IInv
  <1>5. CASE Compare
    <2>1. Serving
      BY <1>5 DEF Compare
    <2>2. i \in Handles
      BY <1>a, <1>5 DEF Compare, InnerInv, TypeOK, Handles
    <2>3. /\ Skipped(allocs[i]) <=> ~Overlaps(allocs[i], candidate, bytes)
          /\ allocs[i].live =>
               /\ Add32(allocs[i].offset, allocs[i].size) = End(allocs[i])
               /\ End(allocs[i]) \in 0 .. PoolBytes
      BY <1>a, <1>b, <2>1, <2>2, SkippedExact
    <2>4. AllocationsSound' /\ ScanSkipsNoFit' /\ ServingInv'
      BY <1>a, <1>5
      DEF Compare, AllocationsSound, ScanSkipsNoFit, ServingInv, Acceptable,
          AlignUp4, Add32, IsFirstFreeSlot
    <2>5. CASE Skipped(allocs[i])
      <3>1. TypeOK'
        BY <1>a, <1>5, <2>2, <2>5, PoolAssumption DEF Compare, TypeOK, Handles
      <3>2. InnerInv'
        BY <1>a, <1>5, <2>2, <2>3, <2>5, PoolAssumption
        DEF Compare, InnerInv, Handles, Overlaps, End
      <3> QED
        BY <2>4, <3>1, <3>2 DEF IInv
    <2>6. CASE ~Skipped(allocs[i])
      <3>1. Overlaps(allocs[i], candidate, bytes)
        BY <2>3, <2>6
      <3>2. /\ allocs[i].live
            /\ Add32(allocs[i].offset, allocs[i].size) = End(allocs[i])
            /\ End(allocs[i]) \in 0 .. PoolBytes
        BY <2>3, <3>1 DEF Overlaps
      <3>3. overlap' = TRUE /\ bump' = Max32(bump, End(allocs[i]))
        BY <1>5, <2>6, <3>2 DEF Compare
      <3>4. bump' \in Word
        BY <1>a, <3>2, <3>3, PoolAssumption DEF TypeOK, Max32, Word
      <3>5. TypeOK'
        BY <1>a, <1>5, <2>2, <3>3, <3>4, PoolAssumption DEF Compare, TypeOK, Handles
      <3>6. \E h \in Handles : /\ Overlaps(allocs[h], candidate, bytes)
                               /\ bump' = End(allocs[h])
        <4>1. CASE bump' = End(allocs[i])
          BY <2>2, <3>1, <4>1
        <4>2. CASE bump' # End(allocs[i])
          <5>1. bump' = bump /\ bump > End(allocs[i])
            BY <3>3, <4>2 DEF Max32
          <5>2. candidate < End(allocs[i])
            BY <3>1 DEF Overlaps
          <5>3. overlap
            BY <1>a, <1>5, <1>b, <2>1, <3>2, <5>1, <5>2, PoolAssumption
            DEF InnerInv, Compare, TypeOK
          <5> QED
            BY <1>a, <1>5, <5>1, <5>3 DEF InnerInv, Compare
        <4> QED
          BY <4>1, <4>2
      <3>7. InnerInv'
        BY <1>a, <1>5, <2>2, <3>3, <3>6, PoolAssumption
        DEF Compare, InnerInv, Handles, Overlaps, End
      <3> QED
        BY <2>4, <3>5, <3>7 DEF IInv
    <2> QED
      BY <2>5, <2>6
  <1>6. CASE Take
    <2>1. Serving
      BY <1>6 DEF Take
    <2>2. i = MaxAllocations + 1
      BY <1>a, <1>6, PoolAssumption DEF Take, TypeOK
    <2>3. FitsAt(allocs, candidate, bytes)
      BY <1>a, <1>6, <2>2, PoolAssumption DEF Take, InnerInv, FitsAt, Handles
    <2>4. AllocationsSound'
      <3>1. allocs \in [Handles -> Allocation] /\ Sound(allocs)
        BY <1>a DEF TypeOK, AllocationsSound
      <3>2. allocs' = [allocs EXCEPT ![slot] =
               [offset |-> candidate, size |-> bytes, uploaded |-> 0, live |-> TRUE]]
        BY <1>6 DEF Take
      <3>3. Sound(allocs')
        BY <1>b, <2>1, <2>3, <3>1, <3>2, PlaceSound
      <3> QED
        BY <3>3 DEF AllocationsSound
    <2>5. TypeOK'
      <3>1. [offset |-> candidate, size |-> bytes, uploaded |-> 0, live |-> TRUE]
              \in Allocation
        BY <1>b, <2>1, PoolAssumption DEF Allocation, Word
      <3>2. allocs' \in [Handles -> Allocation]
        BY <1>a, <1>6, <3>1 DEF Take, TypeOK
      <3>3. 0 \in Word /\ 0 \in 0 .. (MaxAllocations + 1)
        BY PoolAssumption DEF Word
      <3> QED
        BY <1>6, <1>b, <2>1, <3>2, <3>3, Zenon DEF Take, Return, TypeOK
    <2>6. ScanSkipsNoFit' /\ ServingInv' /\ InnerInv'
      BY <1>6 DEF Take, Return, ScanSkipsNoFit, ServingInv, InnerInv
    <2> QED
      BY <2>4, <2>5, <2>6 DEF IInv
  <1>7. CASE Bump
    <2>1. Serving
      BY <1>7 DEF Bump
    <2>2. PICK h \in Handles : /\ Overlaps(allocs[h], candidate, bytes)
                               /\ bump = End(allocs[h])
      BY <1>a, <1>7 DEF Bump, InnerInv
    <2>3. bump \in 0 .. PoolBytes /\ bump % 4 = 0
      BY <1>a, <1>b, <2>1, <2>2, SkippedExact DEF Overlaps
    <2>4. candidate' = bump
      BY <1>7, <2>3, RoundingExact DEF Bump
    <2>5. \A c \in 0 .. (bump - 1) : ~FitsAt(allocs, c, bytes)
      <3> SUFFICES ASSUME NEW c \in 0 .. (bump - 1)
                   PROVE  ~FitsAt(allocs, c, bytes)
        OBVIOUS
      <3>1. CASE c < candidate
        BY <1>a, <1>b, <2>1, <2>3, <3>1 DEF ScanSkipsNoFit
      <3>2. CASE candidate <= c
        BY <1>a, <1>b, <2>1, <2>2, <2>3, <3>2, BumpSkipsNoFit, PoolAssumption
      <3> QED
        BY <1>b, <2>1, <2>3, <3>1, <3>2
    <2>6. TypeOK'
      BY <1>a, <1>7, <2>3, <2>4, PoolAssumption DEF Bump, TypeOK, Word
    <2>7. AllocationsSound'
      BY <1>a, <1>7 DEF Bump, AllocationsSound
    <2>8. ScanSkipsNoFit'
      BY <1>7, <2>4, <2>5 DEF Bump, ScanSkipsNoFit, FitsAt, Overlaps, End
    <2>9. ServingInv' /\ InnerInv'
      BY <1>a, <1>7, <2>3, <2>4
      DEF Bump, ServingInv, InnerInv, Acceptable, AlignUp4, Add32, IsFirstFreeSlot
    <2> QED
      BY <2>6, <2>7, <2>8, <2>9 DEF IInv
  <1>8. ASSUME NEW h \in Handles, Free(h) PROVE IInv'
    <2>1. allocs' = Release(allocs, h)
      BY <1>8 DEF Free
    <2>2. allocs' \in [Handles -> Allocation] /\ Sound(allocs')
      BY <1>a, <2>1, ReleaseSound DEF TypeOK, AllocationsSound
    <2> QED
      BY <1>a, <1>8, <2>2
      DEF Free, IInv, TypeOK, AllocationsSound, ScanSkipsNoFit, ServingInv, InnerInv
  <1>9. CASE UNCHANGED vars
    BY <1>a, <1>9
    DEF vars, IInv, TypeOK, AllocationsSound, ScanSkipsNoFit, ServingInv, InnerInv,
        Acceptable, AlignUp4, Add32, IsFirstFreeSlot
  <1> QED
    BY <1>1, <1>2, <1>3, <1>4, <1>5, <1>6, <1>7, <1>8, <1>9
    DEF Next, Serve, Reject, NoRoom

LEMMA Invariance == Spec => []IInv
  BY InitIInv, NextIInv, PTL DEF Spec

(***************************************************************************)
(* Live allocations are nonempty aligned ranges of the pool and never      *)
(* share a byte, for every pool, table and sequence of ALLOC and FREE.     *)
(***************************************************************************)
THEOREM Soundness == Spec => []AllocationsSound
  <1>1. IInv => AllocationsSound
    BY DEF IInv
  <1> QED
    BY <1>1, Invariance, PTL

(***************************************************************************)
(* The scan never passes an offset at which the request would have fitted. *)
(***************************************************************************)
THEOREM FirstFit == Spec => []ScanSkipsNoFit
  <1>1. IInv => ScanSkipsNoFit
    BY DEF IInv
  <1> QED
    BY <1>1, Invariance, PTL

(***************************************************************************)
(* No request, however close to UINT32_MAX, is granted a smaller buffer.   *)
(***************************************************************************)
THEOREM GrantCovers == Spec => GrantCoversRequest
  <1> DEFINE Covers == pending # NoCall /\ reply' # 0 /\ pending' = NoCall
                         => allocs'[reply'].size >= pending
  <1>1. IInv /\ [Next]_vars => [Covers]_vars
    <2> SUFFICES ASSUME IInv, Next PROVE Covers
      OBVIOUS
    <2>1. TypeOK /\ ServingInv
      BY DEF IInv
    <2>2. CASE Take
      <3>1. /\ pending \in 0 .. PoolBytes
            /\ bytes = AlignUp4(pending)
            /\ slot \in Handles
        BY <2>1, <2>2, PoolAssumption
        DEF Take, ServingInv, TypeOK, Acceptable, Word, IsFirstFreeSlot, NoCall
      <3>2. bytes >= pending
        BY <3>1, RoundingExact
      <3>3. allocs'[slot].size = bytes /\ reply' = slot
        BY <2>1, <2>2, <3>1 DEF Take, Return, TypeOK
      <3> QED
        BY <3>2, <3>3
    <2>3. CASE ~Take
      BY <2>1, <2>3
      DEF Next, Serve, Allocate, Reject, PickSlot, TryCandidate, NoRoom, Compare,
          Bump, Free, Return, ServingInv
    <2> QED
      BY <2>2, <2>3
  <1> QED
    BY <1>1, Invariance, PTL DEF Spec, GrantCoversRequest

(* The promise's vocabulary is the one of this module.                     *)
LEMMA SameWords ==
  /\ Promise!Handles = Handles
  /\ Promise!NoCall = NoCall
  /\ \A t, h : Promise!IsFirstFreeSlot(t, h) <=> IsFirstFreeSlot(t, h)
  /\ \A t, c, n : Promise!FitsAt(t, c, n) <=> FitsAt(t, c, n)
  /\ \A t, c, n : Promise!IsFirstFit(t, c, n) <=> IsFirstFit(t, c, n)
  /\ \A n : Promise!Rounded(n) = Rounded(n)
  /\ \A t, h, c, n : Promise!Place(t, h, c, n) = Place(t, h, c, n)
  /\ \A t, n : Promise!Grantable(t, n) <=> Grantable(t, n)
  /\ \A t, h : Promise!Resolves(t, h) <=> Resolves(t, h)
  /\ \A t, h : Promise!Release(t, h) = Release(t, h)
  <1> USE DEF Handles, Promise!Handles
  <1>1. \A t, c, n : Promise!FitsAt(t, c, n) <=> FitsAt(t, c, n)
    BY DEF FitsAt, Promise!FitsAt, Overlaps, Promise!Overlaps, End, Promise!End
  <1>2. \A n : Promise!Rounded(n) = Rounded(n)
    BY DEF Rounded, Promise!Rounded
  <1>3. \A t, c, n : Promise!IsFirstFit(t, c, n) <=> IsFirstFit(t, c, n)
    BY <1>1 DEF IsFirstFit, Promise!IsFirstFit
  <1>4. \A t, n : Promise!Grantable(t, n) <=> Grantable(t, n)
    BY <1>1, <1>2 DEF Grantable, Promise!Grantable
  <1>5. \A t, h, c, n : Promise!Place(t, h, c, n) = Place(t, h, c, n)
    BY <1>2 DEF Place, Promise!Place
  <1>6. \A t, h : Promise!Release(t, h) = Release(t, h)
    BY DEF Release, Promise!Release, Freed, Promise!Freed
  <1> QED
    BY <1>1, <1>2, <1>3, <1>4, <1>5, <1>6
    DEF NoCall, Promise!NoCall, IsFirstFreeSlot, Promise!IsFirstFreeSlot,
        Resolves, Promise!Resolves

(* What Take grants is exactly what the promise grants.                    *)
LEMMA TakeGrants == IInv /\ Take => Promise!Grant
  <1> SUFFICES ASSUME IInv, Take PROVE Promise!Grant
    OBVIOUS
  <1> USE DEF NoCall
  <1>1. /\ TypeOK /\ AllocationsSound /\ ScanSkipsNoFit /\ ServingInv /\ InnerInv
        /\ pc = "inner"
    BY DEF IInv, Take
  <1>2. /\ pending \in 0 .. PoolBytes /\ pending # 0
        /\ bytes = AlignUp4(pending)
        /\ candidate \in 0 .. PoolBytes
        /\ IsFirstFreeSlot(allocs, slot)
    BY <1>1, PoolAssumption DEF ServingInv, TypeOK, Acceptable, Word
  <1>3. bytes = Rounded(pending)
    BY <1>2, RoundingExact
  <1>4. i = MaxAllocations + 1
    BY <1>1, PoolAssumption DEF Take, TypeOK
  <1>5. FitsAt(allocs, candidate, bytes)
    BY <1>1, <1>4, PoolAssumption DEF Take, InnerInv, FitsAt, Handles
  <1>6. IsFirstFit(allocs, candidate, Rounded(pending))
    BY <1>1, <1>2, <1>3, <1>5 DEF IsFirstFit, ScanSkipsNoFit
  <1>7. allocs' = Place(allocs, slot, candidate, pending) /\ reply' = slot
    BY <1>3 DEF Take, Return, Place
  <1>8. pending' = -1 /\ slot \in Handles
    BY <1>2 DEF Take, Return, IsFirstFreeSlot
  <1> QED
    BY <1>2, <1>6, <1>7, <1>8, SameWords DEF Promise!Grant

(* A refusal is right: with no slot, or no offset, there was no grant.     *)
LEMMA RejectRefuses == IInv /\ Reject => Promise!Refuse
  <1> SUFFICES ASSUME IInv, Reject PROVE Promise!Refuse
    OBVIOUS
  <1> USE DEF NoCall
  <1>1. TypeOK /\ ServingInv /\ pc = "check"
    BY DEF IInv, Reject
  <1>2. pending \in Word
    BY <1>1 DEF TypeOK, ServingInv
  <1>3. ~Grantable(allocs, pending)
    <2>1. CASE \A h \in Handles : allocs[h].live
      BY <2>1 DEF Grantable
    <2>2. CASE ~Acceptable(pending)
      <3>1. CASE pending = 0
        BY <3>1 DEF Grantable
      <3>2. CASE pending > PoolBytes
        <4>1. Rounded(pending) > PoolBytes
          BY <1>2, <3>2, PoolAssumption DEF Rounded, Word
        <4> QED
          BY <4>1, <1>2, PoolAssumption DEF Grantable, FitsAt, Rounded, Word
      <3>3. CASE pending # 0 /\ pending <= PoolBytes
        <4>1. pending \in 0 .. PoolBytes
          BY <1>2, <3>3 DEF Word
        <4>2. Rounded(pending) > PoolBytes /\ Rounded(pending) \in Nat
          BY <2>2, <3>3, <4>1, RoundingExact, PoolAssumption DEF Acceptable, Word
        <4> QED
          BY <4>2, PoolAssumption DEF Grantable, FitsAt
      <3> QED
        BY <1>2, <3>1, <3>2, <3>3, PoolAssumption DEF Word
    <2> QED
      BY <2>1, <2>2 DEF Reject
  <1> QED
    BY <1>1, <1>2, <1>3, SameWords, PoolAssumption
    DEF Promise!Refuse, Reject, Return, Word

LEMMA NoRoomRefuses == IInv /\ NoRoom => Promise!Refuse
  <1> SUFFICES ASSUME IInv, NoRoom PROVE Promise!Refuse
    OBVIOUS
  <1> USE DEF NoCall
  <1>1. TypeOK /\ ScanSkipsNoFit /\ ServingInv /\ pc = "scan"
    BY DEF IInv, NoRoom
  <1>2. /\ pending \in 0 .. PoolBytes
        /\ bytes = AlignUp4(pending)
        /\ candidate \in 0 .. PoolBytes
    BY <1>1, PoolAssumption DEF ServingInv, TypeOK, Acceptable, Word
  <1>3. bytes = Rounded(pending) /\ bytes \in 0 .. PoolBytes
    BY <1>1, <1>2, RoundingExact DEF ServingInv, Acceptable, Word
  <1>4. candidate + bytes > PoolBytes
    BY <1>2, <1>3, AddExact DEF NoRoom
  <1>5. ASSUME NEW c \in 0 .. PoolBytes PROVE ~FitsAt(allocs, c, bytes)
    <2>1. CASE c < candidate
      BY <1>1, <1>2, <2>1 DEF ScanSkipsNoFit
    <2>2. CASE c >= candidate
      BY <1>2, <1>3, <1>4, <2>2, PoolAssumption DEF FitsAt
    <2> QED
      BY <1>2, <2>1, <2>2, PoolAssumption
  <1>6. ~Grantable(allocs, pending)
    BY <1>3, <1>5 DEF Grantable
  <1> QED
    BY <1>1, <1>2, <1>6, SameWords, PoolAssumption
    DEF Promise!Refuse, NoRoom, Return

(***************************************************************************)
(* The scan implements the promise: every answer it gives is the one       *)
(* AllocatorSpec gives, and its inner steps are invisible.                 *)
(***************************************************************************)
THEOREM Refinement == Spec => RefinesAllocatorSpec
  <1>1. Init => Promise!SpecInit
    BY SameWords DEF Init, Promise!SpecInit, Promise!NoAllocation, NoAllocation
  <1>2. IInv /\ [Next]_vars => [Promise!SpecNext]_(Promise!specVars)
    <2> SUFFICES ASSUME IInv, [Next]_vars
                 PROVE  Promise!SpecNext \/ UNCHANGED <<allocs, pending, reply>>
      BY DEF Promise!specVars
    <2>1. ASSUME NEW n \in Requests, Allocate(n) PROVE Promise!SpecNext
      <3>1. n \in Promise!Word
        BY RequestsAssumption DEF Word, Promise!Word
      <3>2. Promise!Call(n)
        BY <2>1, SameWords DEF Allocate, Promise!Call, IInv, ServingInv
      <3> QED
        BY <3>1, <3>2 DEF Promise!SpecNext
    <2>2. ASSUME NEW h \in Handles, Free(h) PROVE Promise!SpecNext
      <3>1. Promise!Free(h)
        BY <2>2, SameWords DEF Free, Promise!Free, IInv, ServingInv
      <3> QED
        BY <3>1, SameWords DEF Promise!SpecNext
    <2>3. CASE Reject \/ NoRoom \/ Take
      BY <2>3, RejectRefuses, NoRoomRefuses, TakeGrants DEF Promise!SpecNext
    <2>4. CASE PickSlot \/ TryCandidate \/ Compare \/ Bump \/ UNCHANGED vars
      BY <2>4 DEF PickSlot, TryCandidate, Compare, Bump, vars
    <2> QED
      BY <2>1, <2>2, <2>3, <2>4 DEF Next, Serve
  <1> QED
    BY <1>1, <1>2, Invariance, PTL
    DEF Spec, RefinesAllocatorSpec, Promise!AbstractSpec
=============================================================================
