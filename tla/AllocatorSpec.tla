---------------------------- MODULE AllocatorSpec ----------------------------
(***************************************************************************)
(* What ALLOC and FREE promise, with no loop: a call is pending until it   *)
(* is answered, the answer is the first free slot at the lowest offset     *)
(* that fits, and a refusal means that no slot or no offset existed.       *)
(***************************************************************************)
EXTENDS Pool

VARIABLES allocs, pending, reply

NoCall == -1

specVars == <<allocs, pending, reply>>

SpecInit ==
  /\ allocs = [h \in Handles |-> NoAllocation]
  /\ pending = NoCall
  /\ reply = 0

Call(n) ==
  /\ pending = NoCall
  /\ pending' = n
  /\ UNCHANGED <<allocs, reply>>

Grant ==
  /\ pending # NoCall
  /\ pending # 0
  /\ \E h \in Handles, c \in 0 .. PoolBytes :
       /\ IsFirstFreeSlot(allocs, h)
       /\ IsFirstFit(allocs, c, Rounded(pending))
       /\ allocs' = Place(allocs, h, c, pending)
       /\ reply' = h
  /\ pending' = NoCall

Refuse ==
  /\ pending # NoCall
  /\ ~Grantable(allocs, pending)
  /\ reply' = 0
  /\ pending' = NoCall
  /\ UNCHANGED allocs

Free(h) ==
  /\ pending = NoCall
  /\ Resolves(allocs, h)
  /\ allocs' = Release(allocs, h)
  /\ UNCHANGED <<pending, reply>>

SpecNext ==
  \/ \E n \in Word : Call(n)
  \/ Grant
  \/ Refuse
  \/ \E h \in Handles : Free(h)

AbstractSpec == SpecInit /\ [][SpecNext]_specVars
=============================================================================
