--------------------------- MODULE MCPromiseBuffer ---------------------------
(* Three slots, the dispatcher thread d and two engine threads. *)
EXTENDS PromiseBuffer, TLC

CONSTANTS d, e1, e2

MCThreads == {d, e1, e2}
MCPoppers == {d}
Symmetry == Permutations({e1, e2})

=============================================================================
