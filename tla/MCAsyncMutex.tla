----------------------------- MODULE MCAsyncMutex -----------------------------
(* AsyncMutex on a small set of tasks. *)
EXTENDS AsyncMutex
==============================================================================
