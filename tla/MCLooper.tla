-------------------------- MODULE MCLooper --------------------------
(* Looper with a few coroutines. *)
EXTENDS Looper
==============================================================================
