----------------------------- MODULE KvmContext -----------------------------
(***************************************************************************)
(* The content of kvm contexts (machine_interface/src/memory_domain/       *)
(* kvm.rs), byte by byte: ContextTrait's write, read and get_chunk_ref,    *)
(* transfer_into, which shares whole pages instead of copying them, and    *)
(* the pages a function wrote.  Contexts are filled one after the other:   *)
(* once a context is behind an Arc, to be a source of transfers, it does   *)
(* not change any more.                                                    *)
(*                                                                         *)
(* "content" is history: what every byte should hold.                      *)
(***************************************************************************)
EXTENDS KvmOverlay

CONSTANTS
    PAGE_SIZE,   \* bytes of a page
    Size,        \* bytes of a context
    Contexts,    \* contexts 1 .. n, in the order they are filled
    Writes,      \* writes of the host: offset and size
    Runs,        \* runs of pages a function writes: first and past the last
    Transfers,   \* destination offset, source offset and size
    MaxSteps     \* bound: operations

ASSUME WholePages == PAGE_SIZE \in Nat \ {0} /\ Size % PAGE_SIZE = 0

VARIABLES
    overlay,  \* overlay of each context
    storage,  \* storage of each context
    content,  \* history: content of each context
    open,     \* the context that can still be written
    steps,    \* operations so far
    result    \* "ok", "error" or "panic"

vars == <<overlay, storage, content, open, steps, result>>

Bytes == 0 .. Size - 1
Unset == 0
Zero == 1
Junk == 2
(* Byte i of what operation number step writes. *)
Value(step, i) == 10 * (step + 1) + i

Init ==
    /\ overlay = [c \in Contexts |-> <<>>]
    /\ storage = [c \in Contexts |-> [b \in Bytes |-> Junk]]
    /\ content = [c \in Contexts |-> [b \in Bytes |-> Unset]]
    /\ open = 1
    /\ steps = 0
    /\ result = "ok"

PageStart(b) == RoundDown(b, PAGE_SIZE)
PageEnd(b) == NextMultiple(b, PAGE_SIZE)
Smaller(a, b) == IF a < b THEN a ELSE b

(* A context while it is being changed. *)
Self(c) == [overlay |-> overlay[c], storage |-> storage[c], result |-> "ok"]
Store(st, offset, data) ==
    [st EXCEPT !.storage = [b \in offset .. offset + Len(data) - 1 |-> data[b - offset + 1]] @@ @]
Zeros(n) == [i \in 1 .. n |-> Zero]

-----------------------------------------------------------------------------
(* Reading. *)

Owns(c, b) == Covered(overlay[c], b) /\ PieceAt(overlay[c], b).item = NoItem
(* Where byte b of a piece with an item is. *)
Place(piece, b) == piece.item.offset + b - piece.start

(* A byte that is covered.  The context of an item owns what is shared, as *)
(* NoChains states, so one level is all there is to follow.                *)
Byte(c, b) ==
    LET piece == PieceAt(overlay[c], b)
    IN  IF piece.item = NoItem THEN storage[c][b]
        ELSE IF Owns(piece.item.context, Place(piece, b))
        THEN storage[piece.item.context][Place(piece, b)]
        ELSE Junk

(* What get_chunk_ref returns the length of, 0 for InvalidRead: the rest   *)
(* of the piece that offset lies in.                                       *)
ChunkLength(c, offset, length) ==
    IF offset + length > Size \/ ~Covered(overlay[c], offset) THEN 0
    ELSE LET end == Min({last \in DOMAIN overlay[c] : last >= offset}) + 1
         IN  Smaller(end - offset, length)

get_chunk_ref(c, offset, length) ==
    [i \in 1 .. ChunkLength(c, offset, length) |-> Byte(c, offset + i - 1)]

RECURSIVE readPieces(_, _, _)
readPieces(c, offset, length) ==
    LET chunk == get_chunk_ref(c, offset, length)
    IN  IF Len(chunk) \in {0, length} THEN chunk
        ELSE chunk \o readPieces(c, offset + Len(chunk), length - Len(chunk))

(* read: piece after piece, InvalidRead (nothing) if there is a gap. *)
read(c, offset, length) ==
    LET bytes == readPieces(c, offset, length)
    IN  IF Len(bytes) = length THEN bytes ELSE <<>>

(* What is read through an item of a piece, which is shared already. *)
ItemBytes(piece, from, upTo) ==
    [i \in 1 .. upTo - from |->
        Byte(piece.item.context, Place(piece, from + i - 1))]

-----------------------------------------------------------------------------
(* Writing. *)

(* One turn of the loop of write, at the piece that ends at last. *)
VisitedByWrite(st, last, offset, end) ==
    LET piece == st.overlay[last]
        own == piece.item = NoItem
        pageEnd == PageEnd(end)
        atHeader == st.start < offset /\ piece.start <= offset
        atTrailer == pageEnd - 1 <= last /\ end < pageEnd
        headed == IF ~atHeader THEN st
                  ELSE IF own THEN [st EXCEPT !.header = offset]
                  ELSE [Store(st, PageStart(offset), ItemBytes(piece, PageStart(offset), offset))
                            EXCEPT !.header = offset]
        fronted == IF piece.start >= st.start THEN headed
                   ELSE IF own THEN [headed EXCEPT !.start = piece.start]
                   ELSE [headed EXCEPT !.front = Pieces(st.start - 1, piece)]
        trailed == IF ~atTrailer THEN fronted
                   ELSE IF own THEN [fronted EXCEPT !.trailer = end]
                   ELSE [Store(fronted, end, ItemBytes(piece, end, pageEnd))
                            EXCEPT !.trailer = end]
    IN  IF st.done THEN st
        ELSE IF last = Before(st.start)
        THEN IF own THEN [st EXCEPT !.gone = @ \cup {last}, !.start = piece.start] ELSE st
        ELSE IF piece.start >= pageEnd
        THEN IF own /\ piece.start = pageEnd
             THEN [st EXCEPT !.overlay[last].start = st.start, !.insert = FALSE, !.done = TRUE]
             ELSE [st EXCEPT !.done = TRUE]
        ELSE IF pageEnd - 1 > last
        THEN [trailed EXCEPT !.gone = @ \cup {last}]
        ELSE IF own
        THEN [trailed EXCEPT !.overlay[last].start = trailed.start, !.insert = FALSE, !.done = TRUE]
        ELSE [trailed EXCEPT !.overlay[last] = Shortened(piece, pageEnd), !.done = TRUE]

(* Mutant: behind a write nothing is cleared. *)
ClearHeader(st, offset, end) == Store(st, st.header, Zeros(offset - st.header))

(* The parts of the touched pages that nothing was in before are cleared. *)
ClearRest(st, offset, end) ==
    Store(Store(st, st.header, Zeros(offset - st.header)), end, Zeros(st.trailer - end))

(* KvmContext::write on the context st. *)
write(st, offset, data) ==
    LET end == offset + Len(data)
        begin == [start |-> PageStart(offset), front |-> <<>>, gone |-> {}, insert |-> TRUE,
                  header |-> PageStart(offset), trailer |-> PageEnd(end), done |-> FALSE,
                  overlay |-> st.overlay, storage |-> st.storage]
        seen == FoldLeft(LAMBDA s, last : VisitedByWrite(s, last, offset, end),
                         begin, KeysFrom(st.overlay, Before(PageStart(offset))))
        kept == seen.front @@ Without(seen.overlay, seen.gone)
        after == Store(ClearRest(seen, offset, end), offset, data)
    IN  IF st.result # "ok" THEN st
        ELSE IF end > Size THEN [st EXCEPT !.result = "error"]
        ELSE [st EXCEPT
                !.overlay = IF seen.insert
                            THEN Pieces(PageEnd(end) - 1, Piece(seen.start, NoItem)) @@ kept
                            ELSE kept,
                !.storage = after.storage]

-----------------------------------------------------------------------------
(* Transfers between contexts. *)

RECURSIVE CopyChunks(_, _, _, _, _)
(* The copying loops of transfer_into: chunk after chunk of the source, the *)
(* error of the first one that cannot be read or written.                  *)
CopyChunks(st, source, to, from, size) ==
    LET length == ChunkLength(source, from, size)
    IN  IF size = 0 \/ st.result # "ok" THEN st
        ELSE IF length = 0 THEN [st EXCEPT !.result = "error"]
        ELSE CopyChunks(write(st, to, get_chunk_ref(source, from, size)),
                        source, to + length, from + length, size - length)

(* Mutant: a piece that is shared already is shared through the source. *)
ChainedItem(source, piece, from, overlayed) ==
    [context |-> source, offset |-> from + overlayed]

(* Mutant: the item starts where the piece of the source starts. *)
ItemOfWholePiece(source, piece, from, overlayed) ==
    IF piece.item = NoItem THEN [context |-> source, offset |-> from + overlayed]
    ELSE piece.item

(* The item that shares a piece of the source from a position on, when     *)
(* some bytes are overlayed already.                                       *)
SharedItem(source, piece, from, overlayed) ==
    IF piece.item = NoItem THEN [context |-> source, offset |-> from + overlayed]
    ELSE [piece.item EXCEPT !.offset = @ + from - piece.start]

(* One turn of the loop that shares whole pages: from is the first page of *)
(* the source, upTo its end, to the first page of the destination.         *)
Overlayed(st, source, last, to, from, upTo) ==
    LET piece == overlay[source][last]
        bytes == Smaller(last + 1, upTo) - from + st.bytes
    IN  IF st.result # "ok" \/ st.bytes >= upTo - from \/ piece.start >= upTo THEN st
        ELSE IF piece.start > from + st.bytes THEN [st EXCEPT !.result = "panic"]
        ELSE [st EXCEPT !.bytes = @ + bytes,
                        !.overlay = insert_into_overlay(@, to + st.bytes, to + st.bytes + bytes,
                                        SharedItem(source, piece, from, st.bytes))]

(* Whole pages from "from" on are shared; the debug assertion behind the   *)
(* loop is that all of them were found.                                    *)
ShareWholePages(st, source, to, from, size) ==
    LET seen == FoldLeft(LAMBDA s, last : Overlayed(s, source, last, to, from, from + size),
                         [bytes |-> 0] @@ st, KeysFrom(overlay[source], from))
    IN  IF st.result # "ok" \/ size = 0 THEN st
        ELSE [overlay |-> seen.overlay, storage |-> st.storage,
              result |-> IF seen.bytes = size THEN seen.result ELSE "panic"]

transfer_into(st, source, to, from, size) ==
    LET toPage == PageEnd(to)
        fromPage == PageEnd(from)
        whole == PageStart(to + size) - toPage
        headed == CopyChunks(st, source, to, from, toPage - to)
        trailed == CopyChunks(headed, source, toPage + whole, fromPage + whole,
                              to + size - (toPage + whole))
    IN  IF from + size > Size \/ to + size > Size THEN [st EXCEPT !.result = "error"]
        ELSE IF size < PAGE_SIZE \/ from % PAGE_SIZE # to % PAGE_SIZE
        THEN CopyChunks(st, source, to, from, size)
        ELSE ShareWholePages(trailed, source, toPage, fromPage, whole)

-----------------------------------------------------------------------------
(* Actions.  The history of an operation on the bytes from offset on: the  *)
(* bytes themselves, and zeros in the rest of pages that held nothing.     *)

Touched(c, offset, data) ==
    LET end == offset + Len(data)
    IN  [b \in Bytes |->
            IF b \in offset .. end - 1 THEN data[b - offset + 1]
            ELSE IF b \in PageStart(offset) .. PageEnd(end) - 1 /\ content[c][b] = Unset
            THEN Zero ELSE content[c][b]]

Becomes(c, st, offset, data) ==
    /\ overlay' = [overlay EXCEPT ![c] = st.overlay]
    /\ storage' = [storage EXCEPT ![c] = st.storage]
    /\ result' = st.result
    /\ content' = IF st.result = "ok"
                  THEN [content EXCEPT ![c] = Touched(c, offset, data)] ELSE content
    /\ steps' = steps + 1
    /\ UNCHANGED open

Running == result = "ok" /\ steps < MaxSteps

NewData(n) == [i \in 1 .. n |-> Value(steps, i)]

(* A write of the host into the context. *)
Write(w) ==
    /\ Running
    /\ LET data == NewData(w.size)
       IN  Becomes(open, write(Self(open), w.offset, data), w.offset, data)

(* A function wrote whole pages: they are in the storage when it ends, and *)
(* become pieces of the context.                                           *)
GuestWrote(run) ==
    /\ Running
    /\ LET data == NewData(run.end - run.start)
           st == Store(Self(open), run.start, data)
       IN  Becomes(open,
                   [st EXCEPT !.overlay = insert_into_overlay(@, run.start, run.end, NoItem)],
                   run.start, data)

(* A transfer from a context that is filled. *)
Transfer(source, t) ==
    /\ Running
    /\ source < open
    /\ Becomes(open, transfer_into(Self(open), source, t.to, t.from, t.size), t.to,
               [i \in 1 .. t.size |->
                    IF t.from + i - 1 \in Bytes THEN content[source][t.from + i - 1] ELSE Unset])

(* The context is put behind an Arc and the next one is acquired. *)
Share ==
    /\ Running
    /\ open + 1 \in Contexts
    /\ open' = open + 1
    /\ UNCHANGED <<overlay, storage, content, steps, result>>

Next ==
    \/ \E w \in Writes : Write(w)
    \/ \E run \in Runs : GuestWrote(run)
    \/ \E source \in Contexts, t \in Transfers : Transfer(source, t)
    \/ Share

Spec == Init /\ [][Next]_vars

-----------------------------------------------------------------------------
(* Properties. *)

(* The overlay consists of whole pages that do not overlap, as the comment *)
(* on KvmContext::overlay requires, and stays within the context.          *)
TypeOK ==
    /\ open \in Contexts /\ steps \in 0 .. MaxSteps
    /\ result \in {"ok", "error", "panic"}
    /\ \A c \in Contexts :
           /\ DOMAIN storage[c] = Bytes /\ DOMAIN content[c] = Bytes
           /\ result # "panic" =>
                /\ WellFormed(overlay[c])
                /\ \A last \in DOMAIN overlay[c] :
                       /\ last \in Bytes
                       /\ (last + 1) % PAGE_SIZE = 0
                       /\ overlay[c][last].start % PAGE_SIZE = 0

Expected(c, offset, length) ==
    IF offset + length <= Size /\ \A b \in offset .. offset + length - 1 : content[c][b] # Unset
    THEN SubSeq([i \in 1 .. Size |-> content[c][i - 1]], offset + 1, offset + length)
    ELSE <<>>

(* Whatever was written, shared, copied and overwritten before, in this    *)
(* context or in the ones it shares pages with, a read returns the bytes   *)
(* that were put there last, zeros for the rest of touched pages, and      *)
(* fails exactly when it meets a page that holds nothing.                  *)
ReadsBack ==
    result = "ok" =>
        /\ \A offset \in Bytes : \A length \in 1 .. Size - offset :
               read(open, offset, length) = Expected(open, offset, length)
        /\ \A c \in Contexts, offset \in Bytes : read(c, offset, 1) = Expected(c, offset, 1)

(* The overlay is made of whole pages that do not overlap, and a shared    *)
(* piece refers to a context that does not change any more, and to bytes   *)
(* in its own storage: there are no chains of references.                  *)
NoChains ==
    /\ TypeOK
    /\ result = "ok" =>
           \A c \in Contexts : \A last \in DOMAIN overlay[c] :
               LET piece == overlay[c][last]
               IN  piece.item # NoItem =>
                       /\ piece.item.context < c
                       /\ \A b \in piece.start .. last : Owns(piece.item.context, Place(piece, b))

(* A transfer of bytes that the source holds succeeds. *)
TransfersSucceed ==
    [][\A source \in Contexts, t \in Transfers :
           /\ Transfer(source, t)
           /\ t.to + t.size <= Size
           /\ read(source, t.from, t.size) # <<>>
           => result' = "ok"]_vars
=============================================================================
