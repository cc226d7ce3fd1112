----------------------------- MODULE MCDsClient -----------------------------
(***************************************************************************)
(* DsClient for TLC: two buffers, two jobs, a queue of two completions,    *)
(* three reads in a call of gpk_read_reg, two attempts of two polls and a  *)
(* pattern of three bytes.  The F4 counters, which no property of this run *)
(* reads, have one value.                                                  *)
(***************************************************************************)
EXTENDS DsClient

MCNone == {}
=============================================================================
