------------------------------- MODULE Promise -------------------------------
(***************************************************************************)
(* machine_interface/src/promise.rs: one Promise/Debt pair and the         *)
(* PromiseData they share.  The promise is polled by a task of the         *)
(* dispatcher; the debt is paid by an engine thread.  They synchronise     *)
(* through one atomic byte of flags only: the result and the two waker     *)
(* cells are plain memory, so an access to them is not atomic and is       *)
(* modelled by the interval between two steps (pcs "write", "take" of the  *)
(* promise, "store", "fetch" of the debt).                                 *)
(*                                                                         *)
(* A waker is "new" when it belongs to the latest poll, "old" otherwise:   *)
(* waking an old one need not schedule the task.  The abort handle is left *)
(* out, nothing ever installs one.                                         *)
(***************************************************************************)
EXTENDS Naturals

VARIABLES
    flags,    \* the atomic byte, by its bits
    results,  \* content of the result cell
    wakers,   \* content of the two waker cells
    ppc,      \* the promise: "idle", "write", "cas", "take", "gone"
    loaded,   \* flags as loaded at the start of the current poll
    outcome,  \* what the last poll returned
    polls,    \* how many polls returned Ready
    dpc,      \* the debt: "owed", "store", "announce", "fetch", "wake",
              \* "release", "gone"
    index,    \* waker index the debt read with its fetch_or
    held,     \* waker the debt took out of the cell
    woken,    \* the waker of the latest poll has been woken
    freed,    \* how often the slot went back to the buffer
    unpaid    \* history: the debt was dropped without being fulfilled

vars == <<flags, results, wakers, ppc, loaded, outcome, polls, dpc, index,
          held, woken, freed, unpaid>>
promiseVars == <<ppc, loaded, outcome, polls>>
debtVars == <<dpc, index, held>>

Age(w) == IF w = "new" THEN "old" ELSE w

(* get_promise on a slot taken from the buffer. *)
Init ==
    /\ flags = [index |-> 0, debt |-> TRUE, promise |-> TRUE, content |-> FALSE]
    /\ results = "Default"
    /\ wakers = [i \in {0, 1} |-> "none"]
    /\ ppc = "idle" /\ loaded = flags /\ outcome = "none" /\ polls = 0
    /\ dpc = "owed" /\ index = 0 /\ held = "none"
    /\ woken = FALSE
    /\ freed = 0
    /\ unpaid = FALSE

-----------------------------------------------------------------------------
(* Promise::poll *)

(* Load the flags; the waker of this poll is about to be written. *)
PollLoad ==
    /\ ppc = "idle"
    /\ polls = 0
    /\ loaded' = flags
    /\ wakers' = [i \in {0, 1} |-> Age(wakers[i])]
    /\ held' = Age(held)
    /\ woken' = FALSE
    /\ ppc' = "write"
    /\ UNCHANGED <<flags, results, outcome, polls, dpc, index, freed, unpaid>>

(* Mutant: write the cell that fulfill may be reading. *)
CurrentCell == loaded.index

(* Set the waker cell that the index does not point to. *)
WakerCell == 1 - loaded.index
PollWrite ==
    /\ ppc = "write"
    /\ wakers' = [wakers EXCEPT ![WakerCell] = "new"]
    /\ ppc' = "cas"
    /\ UNCHANGED <<flags, results, loaded, outcome, polls, debtVars, woken, freed, unpaid>>

(* Point the index to that cell and claim the content, unless the debt     *)
(* changed the flags meanwhile; either way the value found decides.        *)
PollSwap ==
    /\ ppc = "cas"
    /\ flags' = IF flags = loaded
                THEN [flags EXCEPT !.index = 1 - @, !.content = FALSE]
                ELSE flags
    /\ \/ flags.content /\ ppc' = "take" /\ UNCHANGED outcome
       \/ ~flags.content /\ ppc' = "idle" /\ outcome' = "Pending"
    /\ UNCHANGED <<results, wakers, loaded, polls, debtVars, woken, freed, unpaid>>

(* Replace the result and return it. *)
PollTake ==
    /\ ppc = "take"
    /\ outcome' = results
    /\ polls' = polls + 1
    /\ results' = "TakenPromise"
    /\ ppc' = "idle"
    /\ UNCHANGED <<flags, wakers, loaded, debtVars, woken, freed, unpaid>>

(* Drop of the promise: after its result was taken, or earlier when the    *)
(* request is cancelled.  Whoever clears the last ALIVE bit frees the slot.*)
PromiseDrop ==
    /\ ppc = "idle"
    /\ flags' = [flags EXCEPT !.promise = FALSE]
    /\ freed' = IF flags.debt THEN freed ELSE freed + 1
    /\ ppc' = "gone"
    /\ UNCHANGED <<results, wakers, loaded, outcome, polls, debtVars, woken, unpaid>>

-----------------------------------------------------------------------------
(* Debt::fulfill and Drop for Debt *)

(* Mutant: the content is announced before it is stored. *)
StartAnnounced ==
    /\ dpc = "owed"
    /\ flags' = [flags EXCEPT !.content = TRUE]
    /\ dpc' = "store"
    /\ UNCHANGED <<results, wakers, promiseVars, index, held, woken, freed, unpaid>>

FulfillStart ==
    /\ dpc = "owed"
    /\ dpc' = "store"
    /\ UNCHANGED <<flags, results, wakers, promiseVars, index, held, woken, freed, unpaid>>

FulfillStore ==
    /\ dpc = "store"
    /\ results' = "Value"
    /\ dpc' = "announce"
    /\ UNCHANGED <<flags, wakers, promiseVars, index, held, woken, freed, unpaid>>

FulfillAnnounce ==
    /\ dpc = "announce"
    /\ flags' = [flags EXCEPT !.content = TRUE]
    /\ index' = flags.index
    /\ dpc' = "fetch"
    /\ UNCHANGED <<results, wakers, promiseVars, held, woken, freed, unpaid>>

FulfillFetch ==
    /\ dpc = "fetch"
    /\ held' = wakers[index]
    /\ wakers' = [wakers EXCEPT ![index] = "none"]
    /\ dpc' = "wake"
    /\ UNCHANGED <<flags, results, promiseVars, index, woken, freed, unpaid>>

(* Mutant: the waker is taken and dropped. *)
DropWaker ==
    /\ dpc = "wake"
    /\ held' = "none"
    /\ dpc' = "release"
    /\ UNCHANGED <<flags, results, wakers, promiseVars, index, woken, freed, unpaid>>

FulfillWake ==
    /\ dpc = "wake"
    /\ woken' = (woken \/ held = "new")
    /\ held' = "none"
    /\ dpc' = "release"
    /\ UNCHANGED <<flags, results, wakers, promiseVars, index, freed, unpaid>>

(* A debt that is dropped instead of fulfilled.  The condition of line 241 *)
(* compares the PROMISE_ALIVE bit with 1 and is never true, so that the    *)
(* drop sets no result and wakes nobody.                                   *)
DropUnpaid ==
    /\ dpc = "owed"
    /\ dpc' = "release"
    /\ unpaid' = TRUE
    /\ UNCHANGED <<flags, results, wakers, promiseVars, index, held, woken, freed>>

(* Mutant: the debt's own bit is not masked out of the old flags. *)
DebtDropUnmasked ==
    /\ dpc = "release"
    /\ flags' = [flags EXCEPT !.debt = FALSE]
    /\ freed' = IF flags.promise \/ flags.debt THEN freed ELSE freed + 1
    /\ dpc' = "gone"
    /\ UNCHANGED <<results, wakers, promiseVars, index, held, woken, unpaid>>

DebtDrop ==
    /\ dpc = "release"
    /\ flags' = [flags EXCEPT !.debt = FALSE]
    /\ freed' = IF flags.promise THEN freed ELSE freed + 1
    /\ dpc' = "gone"
    /\ UNCHANGED <<results, wakers, promiseVars, index, held, woken, unpaid>>

-----------------------------------------------------------------------------
Poll == PollLoad \/ PollWrite \/ PollSwap \/ PollTake

Fulfill ==
    \/ FulfillStart \/ FulfillStore \/ FulfillAnnounce
    \/ FulfillFetch \/ FulfillWake

Next == Poll \/ PromiseDrop \/ Fulfill \/ DropUnpaid \/ DebtDrop

Spec == Init /\ [][Next]_vars

(* The executor polls a task once when it is spawned and again when it is  *)
(* woken; it may poll more often but need not.  A poll that has begun, and *)
(* the engine, keep running.                                               *)
Due == outcome = "none" \/ woken
Fairness ==
    /\ WF_vars(Due /\ PollLoad)
    /\ WF_vars(PollWrite \/ PollSwap \/ PollTake)
    /\ WF_vars(Fulfill \/ DebtDrop)
FairSpec == Spec /\ Fairness

-----------------------------------------------------------------------------
Results == {"Default", "Value", "DroppedDebt", "TakenPromise"}
Bits == [index : {0, 1}, debt : BOOLEAN, promise : BOOLEAN, content : BOOLEAN]

(* Every variable holds a value of its kind. *)
TypeOK ==
    /\ flags \in Bits /\ loaded \in Bits
    /\ results \in Results
    /\ wakers \in [{0, 1} -> {"none", "old", "new"}]
    /\ ppc \in {"idle", "write", "cas", "take", "gone"}
    /\ outcome \in Results \cup {"none", "Pending"}
    /\ polls \in {0, 1}
    /\ dpc \in {"owed", "store", "announce", "fetch", "wake", "release", "gone"}
    /\ index \in {0, 1}
    /\ held \in {"none", "old", "new"}
    /\ woken \in BOOLEAN
    /\ freed \in 0 .. 2
    /\ unpaid \in BOOLEAN

(* fulfill never reads a waker cell while a poll is writing it (comment of *)
(* lines 170 to 173), and the result cell is never written by both sides   *)
(* at once.                                                                *)
NoCellRace ==
    /\ ~(ppc = "write" /\ dpc = "fetch" /\ WakerCell = index)
    /\ ~(ppc = "take" /\ dpc = "store")

(* A task whose latest poll returned Pending has been woken by the time    *)
(* the debt is gone, also if the debt was dropped without being fulfilled: *)
(* "always pay your debts" (line 242).                                     *)
Waits == ppc = "idle" /\ outcome = "Pending" /\ dpc \in {"release", "gone"}
UnpaidWakes == Waits /\ unpaid => woken

(* The task is given the value the engine stored, never the initial, an    *)
(* already taken or a half-written result.                                 *)
OnlyTheValue == outcome \in {"none", "Pending", "Value"}

(* The slot returns to the buffer exactly once, by the end that is dropped *)
(* last, when neither end will touch it again.                             *)
FreedByTheLast == freed = IF ppc = "gone" /\ dpc = "gone" THEN 1 ELSE 0

(* A promise that is kept is resolved once its debt is fulfilled. *)
Resolves == <>(outcome = "Value" \/ ppc = "gone" \/ unpaid)

=============================================================================
