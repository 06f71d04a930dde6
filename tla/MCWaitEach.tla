-------------------------- MODULE MCWaitEach --------------------------
(* WaitEach of a few operations; the runs differ in their .cfg. *)
EXTENDS WaitEach
==============================================================================
