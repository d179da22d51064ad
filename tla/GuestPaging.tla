---------------------------- MODULE GuestPaging ----------------------------
(***************************************************************************)
(* A function run by the kvm engine (compute_driver/kvm.rs): the pages a   *)
(* context shares with others are mapped behind its memory, the interrupt  *)
(* table and the page tables are laid out below them (kvm/x86_64.rs), the  *)
(* guest runs and its page faults are served inside the guest by the       *)
(* handler of kvm/x86_64_asm.rs, and the pages it wrote, taken from the    *)
(* dirty log, become pieces of the overlay.                                *)
(*                                                                         *)
(* Addresses are page numbers and a page holds one value.  The memory of   *)
(* a context is recycled, so pages and table entries begin as junk.        *)
(***************************************************************************)
EXTENDS KvmOverlay

CONSTANTS
    TABLE_SIZE,      \* entries of a table, pages of a large page
    HandlersLeaveRoom, \* descriptor tables fit in the page of the handlers
    WordBits,        \* pages per word of the dirty log
    PageCounts,      \* sizes of the context, in pages
    Layouts,         \* overlays of the context when the engine receives it
    SystemPage,      \* page of the system data struct
    MaxAccesses      \* bound: memory accesses and faults of the guest

VARIABLES
    pages,     \* pages of the context
    overlay,   \* overlay of the context, in pages
    mem,       \* guest physical memory: storage and what is mapped over it
    table,     \* the joint array of p2 and p1 tables
    layout,    \* stack start, where the tables begin; interrupt pages; mapped pieces
    dirty,     \* physical pages the guest wrote
    state,     \* "new", "running", "stopped", "done", "error", "overlap", "panic", "nested"
    accesses,  \* accesses and faults so far
    expected,  \* history: what the function should find in its memory
    written    \* history: pages with content, from the host or the function

vars == <<pages, overlay, mem, table, layout, dirty, state, accesses, expected, written>>

Junk == <<"junk">>
Zero == <<"zero">>
System == <<"system">>
ItemPage(page) == <<"item", page>>
SystemData(heapEnd) == <<"system data", heapEnd>>
GuestData(n) == <<"guest", n>>

LargeStart(page) == RoundDown(page, TABLE_SIZE)
Huge == TABLE_SIZE * TABLE_SIZE

(* A table entry: flags and the page it points to. *)
Entry(flags, page) == [flags |-> flags, page |-> page]
ALL_ALLOWED == {"present", "rw", "user"}
NotPresent == Entry({}, 0)
Stale == Entry(ALL_ALLOWED \cup {"stale"}, 0)

(* An array with one entry, or the entries of a range, replaced. *)
Set(array, index, entry) == index :> entry @@ array
Fill(array, from, upTo, entry) == [i \in from .. upTo - 1 |-> entry] @@ array

NoLayout == [stack |-> 0, interrupt |-> 0, shared |-> 0]

Init ==
    /\ pages \in PageCounts
    /\ overlay \in Layouts
    /\ mem = [p \in 0 .. pages - 1 |->
                 IF Covered(overlay, p) /\ PieceAt(overlay, p).item = NoItem
                 THEN ItemPage(p) ELSE Junk]
    /\ table = <<>>
    /\ layout = NoLayout
    /\ dirty = {}
    /\ state = "new"
    /\ accesses = 0
    /\ expected = [p \in 0 .. pages - 1 |-> IF Covered(overlay, p) THEN ItemPage(p) ELSE Zero]
    /\ written = {p \in 0 .. pages - 1 : Covered(overlay, p)}

-----------------------------------------------------------------------------
(* Page tables. *)

(* Index of the p2 table, and of the entry in it, that a page is under. *)
p2_base(page) == (page \div Huge) * (TABLE_SIZE + 1) * TABLE_SIZE
p2_index(page) == p2_base(page) + ((page \div TABLE_SIZE) % TABLE_SIZE)
p1_base(page) == p2_base(page) + (1 + ((page \div TABLE_SIZE) % TABLE_SIZE)) * TABLE_SIZE
p1_index(page) == p1_base(page) + (page % TABLE_SIZE)

(* The p2 entry that points to the p1 table of a page. *)
ToTable(tables, page) == Entry(ALL_ALLOWED, tables + (p1_base(page) \div TABLE_SIZE))

(* The while loop of set_range: whole large pages get an entry in the p2   *)
(* table, other pages one in a p1 table, which the p2 entry points to from *)
(* the first page of a large page on.                                      *)
MapPages(array, tables, start, upTo, flags, physical) ==
    LET large == {p \in start .. upTo - 1 : p % TABLE_SIZE = 0 /\ p + TABLE_SIZE <= upTo}
        small == {p \in start .. upTo - 1 : LargeStart(p) \notin large}
        first == {p \in small : p % TABLE_SIZE = 0}
        For(i, set) == CHOOSE p \in set : i \in {p1_index(p), p2_index(p)}
        place(p) == physical + (p - start)
    IN  [i \in {p2_index(p) : p \in large} |-> Entry(flags \cup {"page"}, place(For(i, large)))]
        @@ [i \in {p2_index(p) : p \in first} |-> ToTable(tables, For(i, first))]
        @@ [i \in {p1_index(p) : p \in small} |-> Entry(flags, place(For(i, small)))]
        @@ array

(* The p1 table of the first page of a range has to be set up: the range   *)
(* before it ended under another p2 entry.                                 *)
NeedsTable(start, previous) ==
    NextMultiple(previous, TABLE_SIZE) <= start /\ start % TABLE_SIZE # 0

(* Mutant: the rest of the last p1 table is left as it was. *)
Untouched(array, page) == array

(* The entries behind the last page of a range, if its p1 table was begun. *)
ClearRest(array, page) ==
    IF page % TABLE_SIZE = 0 THEN array
    ELSE Fill(array, p1_index(page), NextMultiple(p1_index(page), TABLE_SIZE), NotPresent)

(* set_range: map pages start to upTo - 1 from a physical page on. *)
set_range(array, tables, start, upTo, flags, physical, previous) ==
    LET begun == IF NeedsTable(start, previous)
                 THEN Fill(Set(array, p2_index(start), ToTable(tables, start)),
                           p1_base(start), p1_index(start), NotPresent)
                 ELSE array
    IN  ClearRest(MapPages(begun, tables, start, upTo, flags, physical), upTo)

PageRange(start, upTo, flags, physical) ==
    [start |-> start, upTo |-> upTo, flags |-> flags, physical |-> physical]

(* Mutant: shared pieces are mapped like the context's own. *)
PieceRangeWritable(mapping) ==
    PageRange(mapping.start, mapping.last + 1, ALL_ALLOWED, mapping.physical)

(* A piece of the overlay: a shared one is read only. *)
PieceRange(mapping) ==
    PageRange(mapping.start, mapping.last + 1,
              IF mapping.shared THEN {"present", "user"} ELSE ALL_ALLOWED, mapping.physical)

(* The mapped pieces at their physical place, for the handler. *)
SharedRange(l) == PageRange(l.shared, pages, {"present"}, l.shared)

(* The ranges set_page_table installs, in order: the pieces of the         *)
(* overlay, the large page below the stack start, and for the handler only *)
(* the tables, the interrupt pages and the mapped pieces.                  *)
PageRanges(mappings, l) ==
    [i \in DOMAIN mappings |-> PieceRange(mappings[i])]
    \o <<PageRange(LargeStart(l.stack), l.stack, ALL_ALLOWED, LargeStart(l.stack)),
         PageRange(l.stack, l.interrupt, {"present", "rw"}, l.stack),
         PageRange(l.interrupt, l.shared, {"present", "rw"}, l.interrupt),
         SharedRange(l)>>

(* The debug assertion of set_range: a range begins behind the last one. *)
InOrder(ranges) == \A i \in 1 .. Len(ranges) - 1 : ranges[i].upTo <= ranges[i + 1].start

(* set_page_table on the joint array, whose p2 tables were cleared. *)
Installed(ranges, tables) ==
    LET huge == NextMultiple(pages, Huge) \div Huge
        cleared == [i \in 0 .. huge * (TABLE_SIZE + 1) * TABLE_SIZE - 1 |->
                       IF i % ((TABLE_SIZE + 1) * TABLE_SIZE) < TABLE_SIZE
                       THEN NotPresent ELSE Stale]
        step(st, range) ==
            [array |-> set_range(st.array, tables, range.start, range.upTo, range.flags,
                                 range.physical, st.previous),
             previous |-> range.upTo]
    IN  FoldLeft(step, [array |-> cleared, previous |-> 0], ranges).array


-----------------------------------------------------------------------------
(* Preparing the run. *)

(* Mutant: a shared piece is mapped right behind the one before. *)
Unaligned(start, place) == 0

(* What a mapping is moved down by, so that it lies in its large page as   *)
(* the piece lies in the one it is mapped for.                             *)
AdditionalOffset(start, place) ==
    LET piece == NextMultiple(start, TABLE_SIZE) - start
        mapping == NextMultiple(place, TABLE_SIZE) - place
    IN  IF piece >= mapping THEN piece - mapping ELSE piece + TABLE_SIZE - mapping

(* One turn of the loop over the overlay in run: a shared piece is mapped  *)
(* below what was mapped already, private to this context.  An unsigned    *)
(* subtraction that would go below zero panics.                            *)
MapPiece(st, last) ==
    LET piece == st.overlay[last]
        size == last - piece.start + 1
        shared == piece.item # NoItem
        offset == AdditionalOffset(piece.start, st.stack - size)
        place == st.stack - size - offset
        mapping(physical) == [start |-> piece.start, last |-> last,
                              shared |-> shared, physical |-> physical]
    IN  IF st.panic THEN st
        ELSE IF ~shared THEN [st EXCEPT !.mappings = Append(@, mapping(piece.start))]
        ELSE IF size > st.stack \/ offset > st.stack - size THEN [st EXCEPT !.panic = TRUE]
        ELSE [st EXCEPT
                !.stack = place,
                !.mappings = Append(@, mapping(place)),
                !.mem = [p \in place .. place + size - 1 |->
                            ItemPage(piece.item.offset + p - place)] @@ @]

(* setup_input_structs writes the system data struct, so that its page is  *)
(* one of the context's own.                                               *)
SetUp(o) == insert_into_overlay(o, SystemPage, SystemPage + 1, NoItem)

(* set_interrupt_table: a page with the handlers, and with the descriptor  *)
(* tables unless they need one of their own, and the interrupt stack.      *)
interrupt_pages == IF HandlersLeaveRoom THEN 2 ELSE 3

(* The p4 and the p3 table, and for every huge page a p2 table and the p1  *)
(* tables under it.                                                        *)
table_pages == 2 + (NextMultiple(pages, Huge) \div Huge) * (1 + TABLE_SIZE)
Placed == interrupt_pages + table_pages

(* init_vcpu: all of this below the mapped pieces, and the stack below it. *)
init_vcpu(shared) ==
    [shared |-> shared, interrupt |-> shared - interrupt_pages, stack |-> shared - Placed]

(* KvmLoop::run up to the start of the guest: the system data is written,  *)
(* shared pieces are mapped, interrupt pages and tables are placed below   *)
(* them, and the heap end is written last.  ContextFull and SmallContext,  *)
(* when the last item fills the page below the stack start, end the run,   *)
(* and so does the debug assertion of set_range.                           *)
Start ==
    LET begin == [stack |-> pages, mappings |-> <<>>, panic |-> FALSE,
                  overlay |-> SetUp(overlay), mem |-> mem]
        st == FoldLeft(MapPiece, begin, KeysFrom(begin.overlay, 0))
        l == init_vcpu(st.stack)
        ranges == PageRanges(st.mappings, l)
        end == Max(DOMAIN st.overlay) + 1
        fail(outcome) == /\ state' = outcome
                         /\ UNCHANGED <<overlay, mem, table, layout, expected, written>>
    IN  /\ state = "new"
        /\ IF st.panic \/ Placed > st.stack THEN fail("panic")
           ELSE IF l.stack < end THEN fail("error")
           ELSE IF ~InOrder(ranges) THEN fail("overlap")
           ELSE \/ /\ end = l.stack
                   /\ fail("error")
                \/ /\ state' = "running"
                   /\ layout' = l
                   /\ table' = Installed(ranges, l.stack)
                   /\ overlay' = insert_into_overlay(st.overlay, SystemPage, SystemPage + 1, NoItem)
                   /\ mem' = [p \in DOMAIN mem |->
                                 IF p = SystemPage THEN SystemData(l.stack)
                                 ELSE IF LargeStart(l.stack) <= p /\ p < l.stack THEN Zero
                                 ELSE IF l.stack <= p /\ p < l.shared THEN System
                                 ELSE st.mem[p]]
                   /\ expected' = [expected EXCEPT ![SystemPage] = SystemData(l.stack)]
                   /\ written' = written \cup {SystemPage}
        /\ UNCHANGED <<pages, dirty, accesses>>

-----------------------------------------------------------------------------
(* The guest. *)

(* The page walk: that of the processor, in which a large page has to be   *)
(* aligned, and that of the check behind set_page_table.                   *)
Walk(array, page) ==
    LET p2 == array[p2_index(page)]
        p1 == array[p1_index(page)]
    IN  IF "present" \notin p2.flags THEN NotPresent
        ELSE IF "page" \in p2.flags
        THEN IF p2.page % TABLE_SIZE # 0 THEN NotPresent
             ELSE Entry(p2.flags, p2.page + (page % TABLE_SIZE))
        ELSE IF "present" \in p1.flags THEN p1 ELSE NotPresent

Readable(page) == {"present", "user"} \subseteq Walk(table, page).flags
Writable(page) == ALL_ALLOWED \subseteq Walk(table, page).flags

GuestWrite(page) ==
    /\ state = "running" /\ accesses < MaxAccesses
    /\ Writable(page)
    /\ LET physical == Walk(table, page).page
       IN  /\ mem' = [mem EXCEPT ![physical] = GuestData(accesses)]
           /\ dirty' = dirty \cup {physical}
    /\ expected' = [expected EXCEPT ![page] = GuestData(accesses)]
    /\ written' = written \cup {page}
    /\ accesses' = accesses + 1
    /\ UNCHANGED <<pages, overlay, table, layout, state>>

(* The page of the joint array that holds an entry. *)
TablePage(index) == layout.stack + (index \div TABLE_SIZE)

(* The page a shared page is copied from: the offset of the page in the    *)
(* large page that the old entry points into.                              *)
CopySource(old, page) == LargeStart(old.page) + (page % TABLE_SIZE)

(* The handler's p2 path without a table: a cleared p1 table. *)
NewTable(array, page) ==
    Set(Fill(array, p1_base(page), p1_base(page) + TABLE_SIZE, NotPresent),
        p2_index(page), ToTable(layout.stack, page))

(* A shared large page becomes a table of shared pages. *)
SplitTable(array, page) ==
    LET old == array[p2_index(page)]
        pieces == [i \in p1_base(page) .. p1_base(page) + TABLE_SIZE - 1 |->
                      Entry(old.flags \cap {"present", "user"}, old.page + (i - p1_base(page)))]
    IN  Set(pieces @@ array, p2_index(page), ToTable(layout.stack, page))

(* Mutant: the page stays read only. *)
ReadOnlyPage(page) == Entry({"present", "user"}, page)

(* The entry the handler installs. *)
OwnPage(page) == Entry(ALL_ALLOWED, page)

(* The rest of the handler: the page is mapped to itself and filled, with  *)
(* zeros or with the copy of the shared page.  It reads and writes by      *)
(* virtual addresses: if one is not mapped for it the fault is nested.     *)
Resolve(page, array, content, source) ==
    LET mapped == Set(array, p1_index(page), OwnPage(page))
        touched == {TablePage(p1_index(page)), TablePage(p2_index(page))}
    IN  /\ IF /\ \A p \in touched : "rw" \in Walk(table, p).flags /\ Walk(table, p).page = p
              /\ "present" \in Walk(mapped, source).flags
           THEN /\ table' = mapped
                /\ mem' = [mem EXCEPT ![page] = content]
                /\ state' = state
           ELSE /\ state' = "nested"
                /\ UNCHANGED <<table, mem>>
        /\ dirty' = dirty \cup touched \cup {page, layout.interrupt}

DemandPage(page, array) == Resolve(page, array, Zero, page)
CopyPage(page, array, old) ==
    LET source == CopySource(old, page)
    IN  Resolve(page, array, mem[Walk(array, source).page], source)

(* page_fault_exception_handler, for a page that cannot be accessed. *)
PageFault(page) ==
    LET p2 == table[p2_index(page)]
        p1 == table[p1_index(page)]
    IN  /\ state = "running" /\ accesses < MaxAccesses
        /\ ~Writable(page)
        /\ \/ /\ "present" \notin p2.flags
              /\ DemandPage(page, NewTable(table, page))
           \/ /\ {"present", "user", "page"} \subseteq p2.flags
              /\ CopyPage(page, SplitTable(table, page), p2)
           \/ /\ {"present", "user"} \subseteq p2.flags /\ "page" \notin p2.flags
              /\ \/ /\ "present" \notin p1.flags
                    /\ DemandPage(page, table)
                 \/ /\ {"present", "user"} \subseteq p1.flags
                    /\ CopyPage(page, table, p1)
                 \/ /\ "present" \in p1.flags /\ "user" \notin p1.flags
                    /\ state' = "stopped"
                    /\ UNCHANGED <<table, mem, dirty>>
           \/ /\ "present" \in p2.flags /\ "user" \notin p2.flags
              /\ state' = "stopped"
              /\ UNCHANGED <<table, mem, dirty>>
        /\ accesses' = accesses + 1
        /\ UNCHANGED <<pages, overlay, layout, expected, written>>

(* The guest halts, or exits for a reason that is taken as its end. *)
Stop ==
    /\ state = "running"
    /\ state' = "stopped"
    /\ UNCHANGED <<pages, overlay, mem, table, layout, dirty, accesses, expected, written>>

-----------------------------------------------------------------------------
(* The dirty log. *)

(* The runs of dirty pages found so far, and the length of one that        *)
(* reaches up to the next word.                                            *)
Flushed(st, end) ==
    IF st.contiguous = 0 THEN st
    ELSE [runs |-> Append(st.runs, <<end - st.contiguous, end>>), contiguous |-> 0]

(* The inner loop over the bits of a word, from bit on. *)
RECURSIVE WordRuns(_, _, _, _)
WordRuns(st, base, word, bit) ==
    LET ones == {b \in word : b >= bit}
        first == Min(ones)
        past == Min({b \in first .. WordBits : b \notin word})
        longer == [st EXCEPT !.contiguous = @ + past - first]
    IN  IF ones = {} THEN st
        ELSE IF past >= WordBits THEN longer
        ELSE WordRuns(Flushed(longer, base + past), base, word, past)

(* Mutant: a run that the next word does not continue is forgotten. *)
NextWordForgets(st, index, word) ==
    IF word = 0 .. WordBits - 1 THEN [st EXCEPT !.contiguous = @ + WordBits]
    ELSE WordRuns([st EXCEPT !.contiguous = 0], index * WordBits, word, 0)

(* One word of the log: clear, all dirty, or mixed. *)
NextWord(st, index, word) ==
    IF word = {} THEN Flushed(st, index * WordBits)
    ELSE IF word = 0 .. WordBits - 1 THEN [st EXCEPT !.contiguous = @ + WordBits]
    ELSE WordRuns(IF 0 \in word THEN st ELSE Flushed(st, index * WordBits),
                  index * WordBits, word, 0)

(* The loop of run over the log. *)
DirtyRuns ==
    LET words == NextMultiple(pages, WordBits) \div WordBits
        word(i) == {b \in 0 .. WordBits - 1 : i * WordBits + b \in dirty}
        step(st, i) == NextWord(st, i - 1, word(i - 1))
    IN  Flushed(FoldLeft(step, [runs |-> <<>>, contiguous |-> 0], [i \in 1 .. words |-> i]),
                words * WordBits).runs

(* What the guest wrote is content of the context from now on. *)
Collect ==
    /\ state = "stopped"
    /\ overlay' = FoldLeft(LAMBDA o, r : insert_into_overlay(o, r[1], r[2], NoItem),
                           overlay, DirtyRuns)
    /\ state' = "done"
    /\ UNCHANGED <<pages, mem, table, layout, dirty, accesses, expected, written>>

Next ==
    \/ Start
    \/ \E page \in 0 .. pages - 1 : GuestWrite(page)
    \/ \E page \in 0 .. pages - 1 : PageFault(page)
    \/ Stop
    \/ Collect

Spec == Init /\ [][Next]_vars

-----------------------------------------------------------------------------
(* Pages keep their number and tables their size; the overlay is a set of  *)
(* pieces that do not overlap.                                             *)
TypeOK ==
    /\ DOMAIN mem = 0 .. pages - 1
    /\ dirty \subseteq 0 .. pages - 1
    /\ state \in {"new", "running", "stopped", "done", "error", "overlap", "panic", "nested"}
    /\ accesses \in 0 .. MaxAccesses
    /\ WellFormed(overlay)

(* Whatever the function reads below the stack start is what the host or   *)
(* the function itself put there, and zero in a page nobody wrote, though  *)
(* the memory and the tables are recycled and shared pages are mapped      *)
(* elsewhere, in large pages where they fit.                               *)
GuestSeesItsMemory ==
    state = "running" =>
        \A page \in 0 .. layout.stack - 1 :
            LET entry == Walk(table, page)
            IN  IF entry = NotPresent THEN expected[page] = Zero
                ELSE "user" \in entry.flags /\ mem[entry.page] = expected[page]

(* The function writes only to its own pages below the stack start, and    *)
(* reads besides them only pieces that were mapped for it: the tables and  *)
(* the interrupt pages are out of its reach.                               *)
GuestIsConfined ==
    state = "running" =>
        \A page \in 0 .. pages - 1 :
            /\ Readable(page) => page < layout.stack
            /\ Writable(page) => Walk(table, page).page = page
            /\ Readable(page) /\ ~Writable(page) => Walk(table, page).page >= layout.shared

(* When the handler returns, the access that faulted succeeds: a function  *)
(* does not fault on the same page for ever.  And the handler does not     *)
(* fault itself: the tables are mapped where it writes them, and the page  *)
(* it copies from is mapped at its physical address.                       *)
FaultIsServed ==
    [][\A page \in DOMAIN mem : PageFault(page) =>
           state' # "nested" /\ (state' = "running" => Writable(page)')]_vars

(* Pages that are shared with other contexts are never written. *)
SharedPagesKept ==
    [][state = "running" => \A page \in layout.shared .. pages - 1 : mem'[page] = mem[page]]_vars

(* After the run every page that the host or the function wrote reads back *)
(* from the context as the function left it: the dirty log has it, and     *)
(* pieces that were not written are still those of their source, and the   *)
(* pieces do not overlap.                                                  *)
OutputsReadBack ==
    state = "done" =>
        /\ WellFormed(overlay)
        /\ \A page \in {p \in written : p < layout.stack} :
               /\ Covered(overlay, page)
               /\ LET last == Min({l \in DOMAIN overlay : l >= page})
                      piece == overlay[last]
                  IN  expected[page] = IF piece.item = NoItem THEN mem[page]
                                       ELSE ItemPage(piece.item.offset + page - piece.start)

(* "there is never overlap between the previous and the current range":    *)
(* the large page of the stack begins behind the last piece.               *)
RangesNeverOverlap == state # "overlap"
=============================================================================
