---------------------------- MODULE MCKvmContext ----------------------------
(* KvmContext with pages of two bytes and contexts of four pages. *)
EXTENDS KvmContext

Extent(offset, size) == [offset |-> offset, size |-> size]
MCWrites == {Extent(0, 2), Extent(1, 1), Extent(1, 4), Extent(2, 2), Extent(3, 3), Extent(5, 3), Extent(6, 3)}
Run(start, end) == [start |-> start, end |-> end]
MCRuns == {Run(0, 2), Run(2, 6), Run(4, 6)}
Move(to, from, size) == [to |-> to, from |-> from, size |-> size]
MCTransfers == {Move(0, 0, 6), Move(2, 0, 2), Move(2, 4, 3), Move(3, 1, 4), Move(3, 3, 1),
                Move(1, 2, 3), Move(5, 1, 3), Move(4, 5, 4)}
=============================================================================
