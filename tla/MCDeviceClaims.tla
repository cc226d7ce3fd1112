--------------------------- MODULE MCDeviceClaims ---------------------------
(***************************************************************************)
(* DeviceClaims for TLC, on the blocks and reads of MCDeviceBlocks.        *)
(***************************************************************************)
EXTENDS DeviceClaims, MCDeviceBlocks
=============================================================================
