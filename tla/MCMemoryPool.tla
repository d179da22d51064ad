---------------------------- MODULE MCMemoryPool -----------------------------
(* Small instances of MemoryPool: a pool of a few units of two bytes. *)
EXTENDS MemoryPool, TLC

CONSTANTS h1, h2, h3

MCHandles == {h1, h2, h3}

Symmetry == Permutations(MCHandles)

(* Half a unit, whole units, and more than the pool. *)
MCRequests == {1, 3, 4, 5, 11}

(* The same with an empty request. *)
MCRequestsWithZero == {0, 1, 3}

=============================================================================
