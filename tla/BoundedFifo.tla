----------------------------- MODULE BoundedFifo -----------------------------
(***************************************************************************)
(* What the completion queue promises: records leave in the order they     *)
(* were accepted, each once, and a record that finds the queue full is     *)
(* refused without disturbing the ones in it.                              *)
(***************************************************************************)
EXTENDS Integers, Sequences

CONSTANTS Records, NoRecord, Depth

VARIABLES
  queue,    \* the records accepted and not yet taken, oldest first
  answer    \* what the last operation returned, with the record it took

fifoVars == <<queue, answer>>

Returned(ok, r) == [ok |-> ok, record |-> r]

FifoInit == queue = << >> /\ answer = Returned(FALSE, NoRecord)

FifoPush(r) ==
  \/ /\ Len(queue) < Depth
     /\ queue' = Append(queue, r)
     /\ answer' = Returned(TRUE, NoRecord)
  \/ /\ Len(queue) = Depth
     /\ answer' = Returned(FALSE, NoRecord)
     /\ UNCHANGED queue

FifoPop ==
  \/ /\ queue # << >>
     /\ answer' = Returned(TRUE, Head(queue))
     /\ queue' = Tail(queue)
  \/ /\ queue = << >>
     /\ answer' = Returned(FALSE, NoRecord)
     /\ UNCHANGED queue

FifoClear == queue' = << >> /\ answer' = Returned(FALSE, NoRecord)

FifoNext == (\E r \in Records : FifoPush(r)) \/ FifoPop \/ FifoClear

FifoSpec == FifoInit /\ [][FifoNext]_fifoVars
=============================================================================
