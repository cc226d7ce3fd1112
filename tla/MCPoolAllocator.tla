--------------------------- MODULE MCPoolAllocator ---------------------------
(***************************************************************************)
(* PoolAllocator for TLC: a pool of four words, three slots, and a 6-bit   *)
(* word, so that fragmented pools, full tables and requests whose rounding *)
(* wraps all occur.                                                        *)
(***************************************************************************)
EXTENDS PoolAllocator

MCRequests == {0, 1, 4, 5, 8, 13, 16, 17, 61, 62, 63}
=============================================================================
