--------------------------- MODULE MCCompletionRing ---------------------------
(***************************************************************************)
(* CompletionRing for TLC: four slots and three records, so that the ring  *)
(* wraps, fills up and drains with stale records in every slot.            *)
(***************************************************************************)
EXTENDS CompletionRing
=============================================================================
