----------------------------- MODULE KvmOverlay -----------------------------
(***************************************************************************)
(* The overlay of a kvm context (machine_interface/src/memory_domain/      *)
(* kvm.rs): a map from the last position of a piece to its start and to    *)
(* the place the piece comes from.  A piece without an item was written    *)
(* into the storage of the context itself; a piece with an item is shared  *)
(* with another context, from an offset on.  Positions that no piece       *)
(* covers hold nothing.                                                    *)
(***************************************************************************)
EXTENDS Naturals, Sequences, SequencesExt, FiniteSetsExt, TLC

NoItem == [context |-> 0, offset |-> 0]
Piece(start, item) == [start |-> start, item |-> item]

(* Item as seen n positions further on. *)
Shifted(item, n) == IF item = NoItem THEN item ELSE [item EXCEPT !.offset = @ + n]

NextMultiple(x, n) == ((x + n - 1) \div n) * n
RoundDown(x, n) == (x \div n) * n

(* BTreeMap::range(from..): the keys from a position on, in order. *)
KeysFrom(overlay, from) ==
    SetToSortSeq({last \in DOMAIN overlay : last >= from}, LAMBDA a, b : a < b)
Before(position) == IF position = 0 THEN 0 ELSE position - 1

Without(overlay, gone) == [last \in DOMAIN overlay \ gone |-> overlay[last]]
Pieces(last, piece) == last :> piece

(* Mutant: the part of a shared piece behind the new one keeps its offset. *)
Unshifted(piece, start) == Piece(start, piece.item)

(* A piece shortened to begin at start. *)
Shortened(piece, start) == Piece(start, Shifted(piece.item, start - piece.start))

(* One turn of the loop of insert_into_overlay, at the piece that ends at  *)
(* last: what sticks out in front of the new piece is kept, what is        *)
(* covered is removed, what sticks out behind is shortened, and pieces of  *)
(* the context's own storage that touch are merged.                        *)
Visited(st, last, newEnd, item) ==
    LET piece == st.overlay[last]
        both == item = NoItem /\ piece.item = NoItem
        sticksOut == piece.start < st.start
        start == IF sticksOut /\ both THEN piece.start ELSE st.start
        front == IF sticksOut /\ ~both THEN Pieces(st.start - 1, piece) ELSE st.front
    IN  IF st.done THEN st
        ELSE IF piece.start >= newEnd
        THEN IF both /\ piece.start = newEnd
             THEN [st EXCEPT !.overlay[last].start = st.start, !.insert = FALSE, !.done = TRUE]
             ELSE [st EXCEPT !.done = TRUE]
        ELSE IF newEnd - 1 > last
        THEN [st EXCEPT !.start = start, !.front = front, !.gone = @ \cup {last}]
        ELSE IF both
        THEN [st EXCEPT !.overlay[last].start = start, !.insert = FALSE, !.done = TRUE]
        ELSE [st EXCEPT !.overlay[last] = Shortened(piece, newEnd), !.front = front, !.done = TRUE]

(* insert_into_overlay: a piece from start up to, not including, newEnd. *)
insert_into_overlay(overlay, start, newEnd, item) ==
    LET begin == [overlay |-> overlay, start |-> start, front |-> <<>>,
                  gone |-> {}, insert |-> TRUE, done |-> FALSE]
        st == FoldLeft(LAMBDA s, last : Visited(s, last, newEnd, item),
                       begin, KeysFrom(overlay, Before(start)))
        kept == st.front @@ Without(st.overlay, st.gone)
    IN  IF st.insert THEN Pieces(newEnd - 1, Piece(st.start, item)) @@ kept ELSE kept

(* The piece that a position lies in. *)
Covered(overlay, position) ==
    \E last \in DOMAIN overlay : overlay[last].start <= position /\ position <= last
PieceAt(overlay, position) ==
    overlay[CHOOSE last \in DOMAIN overlay :
                overlay[last].start <= position /\ position <= last]

(* Pieces do not overlap, and are not empty. *)
WellFormed(overlay) ==
    /\ \A last \in DOMAIN overlay : overlay[last].start <= last
    /\ \A last, other \in DOMAIN overlay :
           last < other => last < overlay[other].start
=============================================================================
