---------------------------- MODULE PromiseProofs ----------------------------
(***************************************************************************)
(* Proofs about Promise: the plain memory that a promise and its debt      *)
(* share is safe, however their steps interleave, because of what the one  *)
(* atomic byte says.                                                       *)
(***************************************************************************)
EXTENDS Promise, TLAPS

(* The solvers are given time, for slow or busy machines. *)
USE SMTT(60), ZenonT(30)

(* The debt announced its content. *)
Announced == dpc \in {"fetch", "wake", "release", "gone"} /\ ~unpaid

(* The promise has not claimed the content yet. *)
Open == polls = 0 /\ ppc \in {"idle", "write", "cas"}

(* A bit of the byte for each end, which it clears when it is dropped, and *)
(* the slot is freed with the second of them.                              *)
AliveInv ==
    /\ flags.promise <=> ppc # "gone"
    /\ flags.debt <=> dpc # "gone"
    /\ FreedByTheLast

(* The content bit is set by the announcement and cleared at most once, by *)
(* the poll that claims the content.                                       *)
ContentInv ==
    /\ unpaid => dpc \in {"release", "gone"}
    /\ flags.content => Announced
    /\ Announced /\ Open => flags.content
    /\ ppc = "take" => Announced /\ polls = 0
    /\ polls = 1 => ppc \in {"idle", "gone"} /\ outcome = "Value"

(* The result cell holds the value from before the announcement on until   *)
(* the promise takes it.                                                   *)
ResultInv ==
    /\ dpc = "announce" => results = "Value"
    /\ Announced /\ polls = 0 => results = "Value"
    /\ OnlyTheValue

(* Only the promise moves the index, and not after the announcement unless *)
(* it claims the content: a poll that goes on works on the index it        *)
(* loaded, and the debt on the one that it read.                           *)
IndexInv ==
    /\ ppc \in {"write", "cas"} => loaded.index = flags.index
    /\ ppc \in {"write", "cas"} /\ loaded.content => flags.content
    /\ Open /\ dpc = "fetch" => index = flags.index

(* The waker of the latest poll is on its way to be woken: the index       *)
(* points to it, the debt holds it, or the task has been woken.            *)
WakerInv ==
    /\ ppc = "cas" => wakers[WakerCell] = "new"
    /\ ppc \in {"write", "cas"} /\ ~Announced /\ ~unpaid => loaded = flags
    /\ ppc = "idle" /\ outcome = "Pending" /\ ~unpaid =>
           /\ dpc \in {"owed", "store", "announce", "fetch"} => wakers[flags.index] = "new"
           /\ dpc = "wake" => held = "new"
           /\ dpc \in {"release", "gone"} => woken

Inv == TypeOK /\ AliveInv /\ ContentInv /\ ResultInv /\ IndexInv /\ WakerInv

(* A task whose latest poll returned Pending has been woken by the time a  *)
(* debt that was fulfilled is gone.                                        *)
PaidWakes == Waits /\ ~unpaid => woken

-----------------------------------------------------------------------------
(* Setting one bit of the byte leaves a byte with the other bits. *)
LEMMA BitsExcept ==
    ASSUME NEW f \in Bits, NEW b \in BOOLEAN
    PROVE  /\ [f EXCEPT !.promise = b] \in Bits
           /\ [f EXCEPT !.debt = b] \in Bits
           /\ [f EXCEPT !.content = b] \in Bits
           /\ [f EXCEPT !.index = 1 - @, !.content = b] \in Bits
<1>1. 1 - f.index \in {0, 1}
    BY DEF Bits
<1> DEFINE i == 1 - f.index
<1>2. i \in {0, 1}
    BY <1>1
<1> HIDE DEF i
<1>3. [f EXCEPT !.index = i, !.content = b] \in Bits
    BY <1>2, Zenon DEF Bits
<1> QED
    BY <1>3, Zenon DEF Bits, i

LEMMA InitInv == Init => Inv
<1> SUFFICES ASSUME Init PROVE Inv
    OBVIOUS
<1>1. flags \in Bits
    BY Zenon DEF Init, Bits
<1>2. TypeOK
    <2>1. loaded \in Bits
        BY <1>1, Zenon DEF Init
    <2>2. wakers \in [{0, 1} -> {"none", "old", "new"}]
        BY DEF Init
    <2>3. polls \in {0, 1} /\ index \in {0, 1} /\ freed \in 0 .. 2
        BY DEF Init
    <2>4. woken \in BOOLEAN /\ unpaid \in BOOLEAN /\ held \in {"none", "old", "new"}
        BY Zenon DEF Init
    <2> QED
        BY <1>1, <2>1, <2>2, <2>3, <2>4, Zenon DEF Init, TypeOK, Results
<1>3. AliveInv /\ ContentInv /\ ResultInv /\ IndexInv /\ WakerInv
    BY DEF Init, AliveInv, ContentInv, ResultInv, IndexInv, WakerInv, FreedByTheLast,
           OnlyTheValue, Announced, Open
<1> QED
    BY <1>2, <1>3 DEF Inv

(* One lemma for each part of the invariant; the actions that do not touch *)
(* what it speaks of are taken together.                                   *)
LEMMA TypeStep ==
    ASSUME Inv, [Next]_vars
    PROVE  TypeOK'
<1> USE DEF Inv, TypeOK, Results, debtVars, promiseVars, Age, WakerCell, ContentInv,
            ResultInv, AliveInv, FreedByTheLast, Announced
<1>1. CASE PollLoad
    BY <1>1, ZenonT(60) DEF PollLoad
<1>2. CASE PollWrite
    <2>1. wakers' \in [{0, 1} -> {"none", "old", "new"}]
        BY <1>2, ZenonT(60) DEF PollWrite
    <2>2. ppc' \in {"idle", "write", "cas", "take", "gone"}
        BY <1>2 DEF PollWrite
    <2> QED
        BY <1>2, <2>1, <2>2 DEF PollWrite
<1>3. CASE PollSwap
    <2>1. flags' \in Bits
        BY <1>3, BitsExcept, ZenonT(60) DEF PollSwap
    <2> QED
        BY <1>3, <2>1 DEF PollSwap
<1>4. CASE PollTake
    BY <1>4 DEF PollTake
<1>5. CASE PromiseDrop
    <2>1. flags' \in Bits
        BY <1>5, BitsExcept, Zenon DEF PromiseDrop
    <2>2. freed' \in 0 .. 2
        BY <1>5 DEF PromiseDrop
    <2> QED
        BY <1>5, <2>1, <2>2 DEF PromiseDrop
<1>6. CASE FulfillStart
    BY <1>6 DEF FulfillStart
<1>7. CASE FulfillStore
    BY <1>7 DEF FulfillStore
<1>8. CASE FulfillAnnounce
    <2>1. flags' \in Bits
        BY <1>8, BitsExcept, Zenon DEF FulfillAnnounce
    <2>2. index' \in {0, 1}
        BY <1>8 DEF FulfillAnnounce, Bits
    <2> QED
        BY <1>8, <2>1, <2>2 DEF FulfillAnnounce
<1>9. CASE FulfillFetch
    BY <1>9 DEF FulfillFetch
<1>10. CASE FulfillWake
    BY <1>10 DEF FulfillWake
<1>11. CASE DropUnpaid
    BY <1>11 DEF DropUnpaid
<1>12. CASE DebtDrop
    <2>1. flags' \in Bits
        BY <1>12, BitsExcept, Zenon DEF DebtDrop
    <2>2. freed' \in 0 .. 2
        BY <1>12 DEF DebtDrop
    <2> QED
        BY <1>12, <2>1, <2>2 DEF DebtDrop
<1>13. CASE UNCHANGED vars
    BY <1>13 DEF vars
<1> QED
    BY <1>1, <1>2, <1>3, <1>4, <1>5, <1>6, <1>7, <1>8, <1>9, <1>10, <1>11, <1>12, <1>13
    DEF Next, Poll, Fulfill

LEMMA AliveStep ==
    ASSUME Inv, [Next]_vars
    PROVE  AliveInv'
<1> USE DEF Inv, TypeOK, Results, Bits, debtVars, promiseVars, AliveInv, FreedByTheLast
<1>1. CASE PollSwap
    BY <1>1 DEF PollSwap
<1>2. CASE PromiseDrop
    BY <1>2 DEF PromiseDrop
<1>3. CASE FulfillAnnounce
    BY <1>3 DEF FulfillAnnounce
<1>4. CASE DebtDrop
    BY <1>4 DEF DebtDrop
<1>5. CASE \/ PollLoad \/ PollWrite \/ PollTake \/ FulfillStart \/ FulfillStore
           \/ FulfillFetch \/ FulfillWake \/ DropUnpaid \/ UNCHANGED vars
    BY <1>5 DEF PollLoad, PollWrite, PollTake, FulfillStart, FulfillStore, FulfillFetch,
           FulfillWake, DropUnpaid, vars
<1> QED
    BY <1>1, <1>2, <1>3, <1>4, <1>5 DEF Next, Poll, Fulfill

LEMMA ContentStep ==
    ASSUME Inv, [Next]_vars
    PROVE  ContentInv'
<1> USE DEF Inv, TypeOK, Results, Bits, debtVars, promiseVars, ContentInv, ResultInv,
            IndexInv, Announced, Open
<1>1. CASE PollLoad
    BY <1>1 DEF PollLoad
<1>2. CASE PollSwap
    BY <1>2 DEF PollSwap
<1>3. CASE PollTake
    BY <1>3 DEF PollTake
<1>4. CASE PromiseDrop
    BY <1>4 DEF PromiseDrop
<1>5. CASE FulfillAnnounce
    BY <1>5 DEF FulfillAnnounce
<1>6. CASE DropUnpaid
    BY <1>6 DEF DropUnpaid
<1>7. CASE DebtDrop
    BY <1>7 DEF DebtDrop
<1>8. CASE \/ PollWrite \/ FulfillStart \/ FulfillStore \/ FulfillFetch
           \/ FulfillWake \/ UNCHANGED vars
    BY <1>8 DEF PollWrite, FulfillStart, FulfillStore, FulfillFetch, FulfillWake, vars
<1> QED
    BY <1>1, <1>2, <1>3, <1>4, <1>5, <1>6, <1>7, <1>8 DEF Next, Poll, Fulfill

LEMMA ResultStep ==
    ASSUME Inv, [Next]_vars
    PROVE  ResultInv'
<1> USE DEF Inv, TypeOK, Results, Bits, debtVars, promiseVars, ContentInv, ResultInv,
            Announced, OnlyTheValue
<1>1. CASE PollSwap
    BY <1>1 DEF PollSwap
<1>2. CASE PollTake
    BY <1>2 DEF PollTake
<1>3. CASE FulfillStore
    BY <1>3 DEF FulfillStore
<1>4. CASE FulfillAnnounce
    BY <1>4 DEF FulfillAnnounce
<1>5. CASE \/ PollLoad \/ PollWrite \/ PromiseDrop \/ FulfillStart \/ FulfillFetch
           \/ FulfillWake \/ DropUnpaid \/ DebtDrop \/ UNCHANGED vars
    BY <1>5 DEF PollLoad, PollWrite, PromiseDrop, FulfillStart, FulfillFetch,
           FulfillWake, DropUnpaid, DebtDrop, vars
<1> QED
    BY <1>1, <1>2, <1>3, <1>4, <1>5 DEF Next, Poll, Fulfill

LEMMA IndexStep ==
    ASSUME Inv, [Next]_vars
    PROVE  IndexInv'
<1> USE DEF Inv, TypeOK, Results, Bits, debtVars, promiseVars, ContentInv, IndexInv,
            Announced, Open
<1>1. CASE PollLoad
    BY <1>1 DEF PollLoad
<1>2. CASE PollSwap
    BY <1>2 DEF PollSwap
<1>3. CASE PollTake
    BY <1>3 DEF PollTake
<1>4. CASE PromiseDrop
    BY <1>4 DEF PromiseDrop
<1>5. CASE FulfillAnnounce
    BY <1>5 DEF FulfillAnnounce
<1>6. CASE DebtDrop
    BY <1>6 DEF DebtDrop
<1>7. CASE \/ PollWrite \/ FulfillStart \/ FulfillStore \/ FulfillFetch
           \/ FulfillWake \/ DropUnpaid \/ UNCHANGED vars
    BY <1>7 DEF PollWrite, FulfillStart, FulfillStore, FulfillFetch, FulfillWake,
           DropUnpaid, vars
<1> QED
    BY <1>1, <1>2, <1>3, <1>4, <1>5, <1>6, <1>7 DEF Next, Poll, Fulfill

LEMMA WakerStep ==
    ASSUME Inv, [Next]_vars
    PROVE  WakerInv'
<1> USE DEF Inv, TypeOK, Results, Bits, debtVars, promiseVars, Age, WakerCell,
            ContentInv, IndexInv, WakerInv, Announced, Open
<1>1. CASE PollLoad
    BY <1>1 DEF PollLoad
<1>2. CASE PollWrite
    BY <1>2 DEF PollWrite
<1>3. CASE PollSwap
    BY <1>3 DEF PollSwap
<1>4. CASE PollTake
    BY <1>4 DEF PollTake
<1>5. CASE FulfillAnnounce
    BY <1>5 DEF FulfillAnnounce
<1>6. CASE FulfillFetch
    BY <1>6 DEF FulfillFetch
<1>7. CASE FulfillWake
    BY <1>7 DEF FulfillWake
<1>8. CASE DebtDrop
    BY <1>8 DEF DebtDrop
<1>9. CASE PromiseDrop \/ FulfillStart \/ FulfillStore \/ DropUnpaid \/ UNCHANGED vars
    BY <1>9 DEF PromiseDrop, FulfillStart, FulfillStore, DropUnpaid, vars
<1> QED
    BY <1>1, <1>2, <1>3, <1>4, <1>5, <1>6, <1>7, <1>8, <1>9 DEF Next, Poll, Fulfill

LEMMA InvariantLemma == Spec => []Inv
<1>1. Inv /\ [Next]_vars => Inv'
    BY TypeStep, AliveStep, ContentStep, ResultStep, IndexStep, WakerStep DEF Inv
<1> QED
    BY InitInv, <1>1, PTL DEF Spec

-----------------------------------------------------------------------------
(* Every variable of a promise and its debt holds a value of its kind. *)
THEOREM TypeCorrect == Spec => []TypeOK
<1>1. Inv => TypeOK
    BY DEF Inv
<1> QED
    BY InvariantLemma, <1>1, PTL

(* fulfill never reads the waker cell that a poll is writing, and the      *)
(* result cell is never written by both ends: a poll writes the cell that  *)
(* its loaded index does not point to, and while the debt reads the cell   *)
(* it was pointed to, that index has not moved.                            *)
THEOREM CellsAreNotRaced == Spec => []NoCellRace
<1>1. Inv => NoCellRace
    BY DEF Inv, NoCellRace, TypeOK, Bits, ContentInv, IndexInv, Announced, Open, WakerCell
<1> QED
    BY InvariantLemma, <1>1, PTL

(* A poll returns Ready with the value the engine stored, never with the   *)
(* initial or with a taken result.                                         *)
THEOREM ReadyIsTheValue == Spec => []OnlyTheValue
<1>1. Inv => OnlyTheValue
    BY DEF Inv, ResultInv
<1> QED
    BY InvariantLemma, <1>1, PTL

(* The slot goes back to the buffer once, when both ends are dropped, in   *)
(* whichever order that happens.                                           *)
THEOREM SlotIsFreedOnce == Spec => []FreedByTheLast
<1>1. Inv => FreedByTheLast
    BY DEF Inv, AliveInv
<1> QED
    BY InvariantLemma, <1>1, PTL

(* No wakeup is lost: a task that was told to wait has been woken when the *)
(* debt that was fulfilled is gone, whether its poll came before or during *)
(* the fulfilment.                                                         *)
THEOREM NoWakeupIsLost == Spec => []PaidWakes
<1>1. Inv => PaidWakes
    BY DEF Inv, WakerInv, PaidWakes, Waits
<1> QED
    BY InvariantLemma, <1>1, PTL

=============================================================================
