-------------------------- MODULE MCSharedSemaphore --------------------------
(* SharedSemaphore on two coroutines and two releasers. *)
EXTENDS SharedSemaphore
==============================================================================
