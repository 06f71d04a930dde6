------------------------- MODULE MCCountingSemaphore -------------------------
(* CountingSemaphore on a small set of tasks. *)
EXTENDS CountingSemaphore, TLC

TaskSymmetry == Permutations(Tasks)

\* release(2), release(1) and withdrawals, one of more permits than there are
\* at first (main.cpp:82 withdraws three, of three).
Amounts == {2, 1, -1, -3}
==============================================================================
