-------------------------------- MODULE Pool --------------------------------
(***************************************************************************)
(* The device-local memory pool and its allocation table (device.h:104-109 *)
(* and the allocator of device.cpp), as a vocabulary: what an allocation   *)
(* is, when a range of the pool is clear of every live allocation, and     *)
(* what ALLOC promises.  The loop that finds the range is PoolAllocator.   *)
(***************************************************************************)
EXTENDS Integers

CONSTANTS
  MaxAllocations,  \* kMaxAllocations, 16 in the code
  PoolBytes,       \* config_.pool_bytes: 64 KiB on the RP2040, 32 MiB emulated
  WordMod          \* the number of values of a u32 register, 2^32 in the code

(***************************************************************************)
(* No adapter gives the core a pool of 2 GiB or more, so the sum of two    *)
(* offsets in the pool fits in a word.                                     *)
(***************************************************************************)
ASSUME PoolAssumption ==
  /\ MaxAllocations \in Nat \ {0}
  /\ PoolBytes \in Nat
  /\ WordMod \in Nat
  /\ WordMod % 4 = 0
  /\ 2 * PoolBytes + 4 <= WordMod

Word == 0 .. (WordMod - 1)

Handles == 1 .. MaxAllocations      \* a handle is the slot number plus one

Allocation == [offset : Word, size : Word, uploaded : Word, live : BOOLEAN]

NoAllocation == [offset |-> 0, size |-> 0, uploaded |-> 0, live |-> FALSE]

(* AllocationForHandle: 0, a handle past the table and a freed one miss.   *)
Resolves(t, h) == h \in Handles /\ t[h].live

End(a) == a.offset + a.size

Overlaps(a, c, n) == a.live /\ c < End(a) /\ a.offset < c + n

FitsAt(t, c, n) ==
  /\ c + n <= PoolBytes
  /\ \A h \in Handles : ~Overlaps(t[h], c, n)

IsFirstFit(t, c, n) ==
  /\ c \in 0 .. PoolBytes
  /\ FitsAt(t, c, n)
  /\ \A d \in 0 .. (c - 1) : ~FitsAt(t, d, n)

IsFirstFreeSlot(t, h) ==
  /\ h \in Handles
  /\ ~t[h].live
  /\ \A g \in 1 .. (h - 1) : t[g].live

Rounded(n) == ((n + 3) \div 4) * 4

(***************************************************************************)
(* What ALLOC promises.  A request is granted when a slot is free and the  *)
(* rounded size fits somewhere; it then gets the first free slot and the   *)
(* lowest offset.  Otherwise it is refused.                                *)
(***************************************************************************)
Grantable(t, n) ==
  /\ n # 0
  /\ \E h \in Handles : ~t[h].live
  /\ \E c \in 0 .. PoolBytes : FitsAt(t, c, Rounded(n))

Place(t, h, c, n) ==
  [t EXCEPT ![h] =
     [offset |-> c, size |-> Rounded(n), uploaded |-> 0, live |-> TRUE]]

(* The body of FREE: offset and size keep their stale values.              *)
Freed(a) ==
  [offset |-> a.offset, size |-> a.size, uploaded |-> 0, live |-> FALSE]

Release(t, h) == [t EXCEPT ![h] = Freed(t[h])]

(***************************************************************************)
(* What makes the table sound: every live allocation is a nonempty aligned *)
(* range of the pool, and no two of them share a byte.                     *)
(***************************************************************************)
InPool(a) ==
  /\ a.size > 0
  /\ a.offset % 4 = 0
  /\ a.size % 4 = 0
  /\ End(a) <= PoolBytes
  /\ a.uploaded <= a.size

Sound(t) ==
  /\ \A h \in Handles : t[h].live => InPool(t[h])
  /\ \A h \in Handles : \A g \in Handles :
       h # g /\ t[h].live =>
         ~Overlaps(t[g], t[h].offset, t[h].size)
=============================================================================
