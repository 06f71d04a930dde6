----------------------------- MODULE MCIoService -----------------------------
(* IoService with two clients, a ring of one entry, and three operations. *)
EXTENDS IoService
==============================================================================
