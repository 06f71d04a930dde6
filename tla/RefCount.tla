------------------------------- MODULE RefCount -------------------------------
(***************************************************************************)
(* The counts behind rc_ptr (include/ptr/rc_ptr.hpp) and intrusive_ptr     *)
(* (include/ptr/intrusive_ptr.hpp).  A pointer is somebody who holds one:  *)
(* copying adds a holder, destroying or resetting removes one, moving      *)
(* changes the holder and leaves the count alone.                          *)
(***************************************************************************)
EXTENDS Naturals

\* Mutant: the copy constructor forgets to count.
AddNothing(n) == n

\* inc(), intrusive_ptr_add_ref()
AddRef(n) == n + 1

\* dec(), intrusive_ptr_release(): the count, and whether the object goes.
Release(n) == n - 1
IsLast(n) == n = 1
==============================================================================
