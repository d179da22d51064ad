-------------------------- MODULE ContextOccupation --------------------------
(***************************************************************************)
(* The occupation list of a Context (machine_interface/src/                *)
(* memory_domain.rs): a sorted vector of occupied positions from which     *)
(* free space for inputs is found.  It begins with an empty position at 0  *)
(* and one at the end of the context.                                      *)
(*                                                                         *)
(* A context is prepared by one engine: the sections of the function are   *)
(* marked with occupy_space from 0 on (load_static), inputs are placed     *)
(* with get_free_space, or with get_transfer_offset if the kvm domain can  *)
(* share whole pages, then names and tables are placed with the alignment  *)
(* of their type, and the heap begins at get_last_item_end.                *)
(* After the function ran, clear_metadata empties the list and             *)
(* read_output_structs marks the outputs wherever the function put them.   *)
(*                                                                         *)
(* "marked" is history: the bytes the caller asked to be occupied.         *)
(***************************************************************************)
EXTENDS Naturals, Sequences

CONSTANTS
    Size,        \* size of the context
    Sizes,       \* sizes of items, zero included
    Align,       \* alignment of input items (128)
    TypeAligns,  \* alignments of names and tables
    Page,        \* PAGE_SIZE
    MaxOutputs   \* bound: output items that are marked

ASSUME SizesAreNaturals == Size \in Nat \ {0} /\ Sizes \subseteq Nat
ASSUME AlignmentsAreNested ==
    /\ Align \in Nat \ {0} /\ Page \in Nat \ {0} /\ TypeAligns \subseteq Nat \ {0}
    /\ Page % Align = 0 /\ Size % Page = 0
    /\ MaxOutputs \in Nat

VARIABLES
    occupation,  \* sequence of positions
    stage,       \* "new", "loaded", "placed", "started", "output", "failed"
    outputs,     \* output items marked so far
    marked,      \* bytes that should be occupied
    reply        \* what the last call returned

vars == <<occupation, stage, outputs, marked, reply>>

Position(offset, size) == [offset |-> offset, size |-> size]
End(p) == p.offset + p.size
Bytes(offset, size) == {b \in 0 .. Size : offset <= b /\ b < offset + size}
Empty == <<Position(0, 0), Position(Size, 0)>>
Reply(kind) == [kind |-> kind, offset |-> 0, size |-> 0, align |-> 1, rest |-> 0]

Init ==
    /\ occupation = Empty
    /\ stage = "new"
    /\ outputs = 0
    /\ marked = {}
    /\ reply = Reply("none")

-----------------------------------------------------------------------------
(* The loop of Context::insert: position c absorbs the positions after it, *)
(* taking over the end of each, as long as the next one begins no later    *)
(* than the end reached so far.                                            *)
Merged(list, c) ==
    LET touches(j) == list[j + 1].offset <= End(list[j])
        last == CHOOSE n \in c .. Len(list) :
                    /\ \A j \in c .. n - 1 : touches(j)
                    /\ n = Len(list) \/ ~touches(n)
    IN  SubSeq(list, 1, c - 1)
        \o <<Position(list[c].offset, End(list[last]) - list[c].offset)>>
        \o SubSeq(list, last + 1, Len(list))

(* Mutant: a seamless extension forgets the size it extends. *)
InsertedAnew(list, index, offset, size) ==
    IF End(list[index]) = offset
    THEN Merged([list EXCEPT ![index].size = size], index)
    ELSE Merged(SubSeq(list, 1, index) \o <<Position(offset, size)>>
                \o SubSeq(list, index + 1, Len(list)), index + 1)

(* Context::insert: extend the position at index if it ends at offset,     *)
(* insert a new one behind it otherwise, then merge.                       *)
Inserted(list, index, offset, size) ==
    IF End(list[index]) = offset
    THEN Merged([list EXCEPT ![index].size = @ + size], index)
    ELSE Merged(SubSeq(list, 1, index) \o <<Position(offset, size)>>
                \o SubSeq(list, index + 1, Len(list)), index + 1)

Windows == 1 .. Len(occupation) - 1

(* occupy_space *)
OccupySpace(offset, size) ==
    \/ /\ offset + size > Size
       /\ reply' = Reply("InvalidWrite")
       /\ UNCHANGED <<occupation, marked>>
    \/ /\ offset + size <= Size
       /\ \/ \E i \in Windows :
                /\ occupation[i].offset <= offset
                /\ offset < occupation[i + 1].offset
                /\ occupation' = Inserted(occupation, i, offset, size)
          \/ /\ \A i \in Windows : ~(/\ occupation[i].offset <= offset
                                     /\ offset < occupation[i + 1].offset)
             /\ UNCHANGED occupation
       /\ marked' = marked \cup Bytes(offset, size)
       /\ reply' = Reply("ok")

(* Bytes that remain in window i behind an allocation that starts at       *)
(* "start"; the subtraction saturates.                                     *)
Available(i, start) ==
    IF start < occupation[i + 1].offset THEN occupation[i + 1].offset - start ELSE 0

(* Window i is the first of the smallest windows that are large enough. *)
BestFit(i, size, start) ==
    /\ Available(i, start[i]) >= size
    /\ \A j \in Windows : Available(j, start[j]) >= size =>
        \/ Available(i, start[i]) < Available(j, start[j])
        \/ Available(i, start[i]) = Available(j, start[j]) /\ i <= j

(* Place "size" bytes at start[i] of the best window, or report            *)
(* ContextFull.  Starts are "rest" modulo "align".                         *)
Place(size, align, rest, start) ==
    LET answer == [Reply("ContextFull") EXCEPT !.size = size, !.align = align,
                                               !.rest = rest]
    IN  \/ \E i \in Windows :
            /\ BestFit(i, size, start)
            /\ occupation' = Inserted(occupation, i, start[i], size)
            /\ marked' = marked \cup Bytes(start[i], size)
            /\ reply' = [answer EXCEPT !.kind = "granted", !.offset = start[i]]
        \/ /\ \A i \in Windows : Available(i, start[i]) < size
           /\ reply' = answer
           /\ UNCHANGED <<occupation, marked>>

(* Mutant: an aligned number is rounded up as well. *)
MultipleAbove(n, alignment) == (n \div alignment + 1) * alignment

(* usize::next_multiple_of *)
NextMultiple(n, alignment) == ((n + alignment - 1) \div alignment) * alignment

(* get_free_space *)
GetFreeSpace(size, alignment) ==
    LET start == [i \in Windows |-> NextMultiple(End(occupation[i]), alignment)]
    IN  Place(size, alignment, 0, start)

(* Mutant: the position inside the page is added to the end as it is. *)
TransferPastEnd(i, pageOffset) == End(occupation[i]) + pageOffset

(* The first address behind window i's lower end with the position inside  *)
(* the page that the source has.                                           *)
TransferStart(i, pageOffset) ==
    LET lower == End(occupation[i])
    IN  (lower \div Page) * Page
        + (IF lower % Page > pageOffset THEN Page ELSE 0) + pageOffset

(* transfer_data_item into a kvm context *)
GetTransferOffset(size, pageOffset) ==
    LET start == [i \in Windows |-> TransferStart(i, pageOffset)]
    IN  /\ size > 2 * Page
        /\ Place(size, Page, pageOffset, start)

-----------------------------------------------------------------------------
(* A call that returns an error ends the work on the context. *)
Continue(next) ==
    stage' = IF reply'.kind \in {"ok", "granted"} THEN next ELSE "failed"

(* load_static: the pages up to the end of the last section. *)
LoadStatic ==
    /\ stage = "new"
    /\ \E pages \in 0 .. Size \div Page + 1 : OccupySpace(0, pages * Page)
    /\ Continue("loaded")
    /\ UNCHANGED outputs

(* transfer_data_item: kvm looks for shared pages if the source is aligned.*)
PlaceInput ==
    /\ stage = "loaded"
    /\ \E size \in Sizes :
        \/ GetFreeSpace(size, Align)
        \/ \E pageOffset \in {n \in 0 .. Page - 1 : n % Align = 0} :
                GetTransferOffset(size, pageOffset)
    /\ Continue("loaded")
    /\ UNCHANGED outputs

(* setup_input_structs: names, which are skipped if empty, and tables.     *)
(* Only the table of the items can be empty, when there are none.  All     *)
(* positions then start at multiples of its alignment, so that its empty   *)
(* position is merged at once and the list stays as it is; that call is    *)
(* left out.                                                               *)
PlaceStructure ==
    /\ stage \in {"loaded", "placed"}
    /\ \E size \in Sizes \ {0}, alignment \in TypeAligns : GetFreeSpace(size, alignment)
    /\ Continue("placed")
    /\ UNCHANGED outputs

(* get_last_item_end: the last but one position; with a single position    *)
(* left the index underflows.                                              *)
LastItemEnd ==
    /\ stage = "placed"
    /\ reply' = IF Len(occupation) < 2
                THEN Reply("panic")
                ELSE [Reply("end") EXCEPT !.offset = End(occupation[Len(occupation) - 1])]
    /\ stage' = "started"
    /\ UNCHANGED <<occupation, outputs, marked>>

(* clear_metadata, at the start of read_output_structs *)
ClearMetadata ==
    /\ stage = "started"
    /\ reply.kind # "panic"
    /\ occupation' = Empty
    /\ marked' = {}
    /\ reply' = Reply("none")
    /\ stage' = "output"
    /\ UNCHANGED outputs

(* read_output_structs: an output item where the function put it. *)
MarkOutput ==
    /\ stage = "output"
    /\ outputs < MaxOutputs
    /\ \E offset \in 0 .. Size, size \in Sizes : OccupySpace(offset, size)
    /\ outputs' = outputs + 1
    /\ Continue("output")

(* A missing set, sections that do not match the requirements, a transfer  *)
(* or a read that fails: an error that has nothing to do with the list.    *)
OtherError ==
    /\ stage \in {"new", "loaded", "placed", "output"}
    /\ reply' = Reply("error")
    /\ stage' = "failed"
    /\ UNCHANGED <<occupation, outputs, marked>>

Next ==
    \/ LoadStatic \/ PlaceInput \/ PlaceStructure
    \/ LastItemEnd \/ ClearMetadata \/ MarkOutput \/ OtherError

Spec == Init /\ [][Next]_vars

-----------------------------------------------------------------------------
Occupied == UNION {Bytes(occupation[i].offset, occupation[i].size) :
                       i \in 1 .. Len(occupation)}

(* Every variable holds a value of its kind; positions stay inside the     *)
(* context.                                                                *)
TypeOK ==
    /\ \A i \in 1 .. Len(occupation) :
        /\ occupation[i] \in [offset : Nat, size : Nat]
        /\ End(occupation[i]) <= Size
    /\ stage \in {"new", "loaded", "placed", "started", "output", "failed"}
    /\ outputs \in 0 .. MaxOutputs
    /\ marked \subseteq 0 .. Size - 1
    /\ reply \in [kind : {"none", "ok", "InvalidWrite", "granted", "ContextFull",
                          "end", "panic", "error"},
                  offset : Nat, size : Nat, align : Nat, rest : Nat]

(* While space is searched the list is sorted and its positions neither    *)
(* touch nor overlap, so that its windows are the free runs; and while     *)
(* inputs are placed it says exactly which bytes are in use.               *)
ListIsExact ==
    /\ TypeOK
    /\ stage \in {"new", "loaded", "placed", "started"} =>
           \A i \in Windows : End(occupation[i]) < occupation[i + 1].offset
    /\ stage \in {"loaded", "placed", "started"} => Occupied = marked

(* get_free_space and the kvm placement never hand out a byte that is in   *)
(* use or outside the context, and the address has the alignment, or the   *)
(* position inside its page, that was asked for.                           *)
GrantsAreFree ==
    [][reply'.kind = "granted" /\ occupation' # occupation =>
        /\ Bytes(reply'.offset, reply'.size) \cap marked = {}
        /\ reply'.offset + reply'.size <= Size
        /\ reply'.offset % reply'.align = reply'.rest]_vars

(* ContextFull is reported only if no free run of that length, with no     *)
(* empty item inside it, begins at an address of that alignment.           *)
NoFalseContextFull ==
    [][reply'.kind = "ContextFull" /\ reply'.size > 0 =>
        \A a \in 0 .. Size - reply'.size :
            a % reply'.align = reply'.rest =>
                \/ Bytes(a, reply'.size) \cap marked # {}
                \/ \E i \in 1 .. Len(occupation) :
                       /\ occupation[i].size = 0
                       /\ a < occupation[i].offset
                       /\ occupation[i].offset < a + reply'.size]_vars

(* What the comment of occupy_space says, line 169: "Make sure all space   *)
(* between offset and size is marked as occupied, ignoring overlap with    *)
(* previous occupation".                                                   *)
OutputsMarked == stage = "output" => marked \subseteq Occupied

(* The heap of the function begins behind every input (interface.rs line   *)
(* 251: "correct lower bound").                                            *)
HeapBehindInputs ==
    stage = "started" =>
        /\ reply.kind = "end"
        /\ \A b \in marked : b < reply.offset

=============================================================================
