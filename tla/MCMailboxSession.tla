-------------------------- MODULE MCMailboxSession --------------------------
(* Four words uploaded into a buffer of five; four frames to spare. *)
EXTENDS MailboxSession

MCWords == <<"w1", "w2", "w3", "w4">>
=============================================================================
