---------------------------- MODULE DeviceClaims ----------------------------
(***************************************************************************)
(* What the repository's docs say of repeated descriptor blocks and the    *)
(* code does not do: no command releases a job (device.cpp sets live to    *)
(* true at 295 and 476, and to false only in Reset).                       *)
(***************************************************************************)
EXTENDS GekkoDevice

(* The descriptor that the next RunDescriptor step executes.               *)
Running == batch[done + 1]

(* docs/NTR_WIRE_V1.md, Persistent-memory flow: "A repeated frame job      *)
(* should therefore not repeat ALLOC or asset uploads", and bench.c counts *)
(* a batch as ok only if every completion of a block sent to a drained     *)
(* queue is Ok.  A sound descriptor that comes first in a block sent while *)
(* no completion waits is run (device.cpp:450-461).                        *)
DrainedDeviceRunsJob ==
  [][/\ phase = "run" /\ done = 0 /\ done' = 1
     /\ entry.completions = << >>
     /\ Executable(Running)
     => nextJob' = nextJob + 1]_vars
=============================================================================
