-------------------------- MODULE MCCancelableFuture --------------------------
(* CancelableFuture with a few waits and calls of cancel(). *)
EXTENDS CancelableFuture
==============================================================================
