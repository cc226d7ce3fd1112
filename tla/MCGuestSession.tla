--------------------------- MODULE MCGuestSession ---------------------------
(***************************************************************************)
(* GuestSession for TLC: blocks of six words, a pool that holds one of the *)
(* two buffers a guest may ask for.                                        *)
(***************************************************************************)
EXTENDS GuestSession

MCNone == {}
=============================================================================
