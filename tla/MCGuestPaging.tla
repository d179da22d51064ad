--------------------------- MODULE MCGuestPaging ---------------------------
EXTENDS GuestPaging

(* Pieces the overlay of a context is put together from. *)
Spans == {<<1, 1>>, <<1, 3>>, <<2, 2>>, <<3, 4>>, <<4, 7>>, <<3, 8>>, <<6, 9>>, <<12, 15>>}
Apart(set) == \A a, b \in set : a # b => a[2] < b[1] \/ b[2] < a[1]

MCLayouts ==
    UNION {{[last \in {span[2] : span \in set} |->
                LET span == CHOOSE x \in set : x[2] = last
                IN  Piece(span[1], IF span \in shared
                                   THEN [context |-> 1, offset |-> span[1]] ELSE NoItem)]
            : shared \in SUBSET set}
           : set \in {x \in SUBSET Spans : Cardinality(x) <= 2 /\ Apart(x)}}
=============================================================================
