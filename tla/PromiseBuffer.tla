---------------------------- MODULE PromiseBuffer ----------------------------
(***************************************************************************)
(* The buffer of machine_interface/src/promise.rs that promises are taken  *)
(* from: an array of slots, the free ones linked through the union field   *)
(* "next" into a stack whose head is swapped with compare_exchange.        *)
(*                                                                         *)
(* get_promise is called by the tasks of the dispatcher runtime, which has *)
(* a single worker thread (server/src/config.rs, get_dispatcher_cores), so *)
(* one thread pops.  Every thread may be the one that drops the second end *)
(* of a pair and pushes the slot back.                                     *)
(*                                                                         *)
(* The variable "free" is history only: the stack as the successful        *)
(* compare_exchanges made it, top last.                                    *)
(***************************************************************************)
EXTENDS Naturals, Sequences

CONSTANTS
    Size,     \* number of slots, MAX_QUEUE in the dispatcher
    Threads,  \* threads that drop promises and debts
    Poppers   \* those of them that call get_promise

ASSUME SizeAssumption == Size \in Nat \ {0}
ASSUME PoppersAssumption == Poppers \subseteq Threads

Slots == 1 .. Size
Null == 0
Data == Size + 1   \* the union holds PromiseData, not a pointer
Ends == {"promise", "debt"}

VARIABLES
    head,   \* AtomicPtr to the top of the free stack
    cell,   \* per slot: the union, a next pointer or Data
    ends,   \* per slot: the ends of its pair that are still alive
    pc,     \* per thread
    seen,   \* per thread: head as it last read it
    link,   \* per thread: next pointer it read in get_promise_data
    mine,   \* per thread: the slot it has popped or is about to push
    free

vars == <<head, cell, ends, pc, seen, link, mine, free>>

Init ==
    /\ head = 1
    /\ cell = [s \in Slots |-> IF s = Size THEN Null ELSE s + 1]
    /\ ends = [s \in Slots |-> {}]
    /\ pc = [t \in Threads |-> "idle"]
    /\ seen = [t \in Threads |-> Null]
    /\ link = [t \in Threads |-> Null]
    /\ mine = [t \in Threads |-> Null]
    /\ free = [i \in 1 .. Size |-> (Size + 1) - i]

-----------------------------------------------------------------------------
(* get_promise_data and get_promise *)

(* Load the head; a null head is the error NoneAvailable. *)
PopLoad(t) ==
    /\ pc[t] = "idle"
    /\ t \in Poppers
    /\ head # Null
    /\ seen' = [seen EXCEPT ![t] = head]
    /\ pc' = [pc EXCEPT ![t] = "read"]
    /\ UNCHANGED <<head, cell, ends, link, mine, free>>

(* Read the next pointer through the head that was loaded. *)
PopRead(t) ==
    /\ pc[t] = "read"
    /\ link' = [link EXCEPT ![t] = cell[seen[t]]]
    /\ pc' = [pc EXCEPT ![t] = "pop"]
    /\ UNCHANGED <<head, cell, ends, seen, mine, free>>

PopSwap(t) ==
    /\ pc[t] = "pop"
    /\ head = seen[t]
    /\ head' = link[t]
    /\ mine' = [mine EXCEPT ![t] = seen[t]]
    /\ pc' = [pc EXCEPT ![t] = "create"]
    /\ free' = [i \in 1 .. Len(free) - 1 |-> free[i]]
    /\ UNCHANGED <<cell, ends, seen, link>>

(* The compare_exchange failed and returned the current head. *)
PopRetry(t) ==
    /\ pc[t] = "pop"
    /\ head # seen[t]
    /\ seen' = [seen EXCEPT ![t] = head]
    /\ pc' = [pc EXCEPT ![t] = IF head = Null THEN "idle" ELSE "read"]
    /\ UNCHANGED <<head, cell, ends, link, mine, free>>

(* Overwrite the slot with fresh data and hand out both ends. *)
Create(t) ==
    /\ pc[t] = "create"
    /\ cell' = [cell EXCEPT ![mine[t]] = Data]
    /\ ends' = [ends EXCEPT ![mine[t]] = Ends]
    /\ mine' = [mine EXCEPT ![t] = Null]
    /\ pc' = [pc EXCEPT ![t] = "idle"]
    /\ UNCHANGED <<head, seen, link, free>>

-----------------------------------------------------------------------------
(* Mutant: the first drop already frees the slot. *)
DropFirst(t, s, e) ==
    /\ pc[t] = "idle"
    /\ e \in ends[s]
    /\ ends' = [ends EXCEPT ![s] = @ \ {e}]
    /\ \/ /\ ends[s] = {e}
          /\ UNCHANGED <<pc, mine>>
       \/ /\ ends[s] # {e}
          /\ pc' = [pc EXCEPT ![t] = "load"]
          /\ mine' = [mine EXCEPT ![t] = s]
    /\ UNCHANGED <<head, cell, seen, link, free>>

(* drop_promise_data: clear the bit of one end; the thread that clears the *)
(* second one drops the data and pushes the slot.                          *)
DropEnd(t, s, e) ==
    /\ pc[t] = "idle"
    /\ e \in ends[s]
    /\ ends' = [ends EXCEPT ![s] = @ \ {e}]
    /\ \/ /\ ends[s] # {e}
          /\ UNCHANGED <<pc, mine>>
       \/ /\ ends[s] = {e}
          /\ pc' = [pc EXCEPT ![t] = "load"]
          /\ mine' = [mine EXCEPT ![t] = s]
    /\ UNCHANGED <<head, cell, seen, link, free>>

PushLoad(t) ==
    /\ pc[t] = "load"
    /\ seen' = [seen EXCEPT ![t] = head]
    /\ pc' = [pc EXCEPT ![t] = "link"]
    /\ UNCHANGED <<head, cell, ends, link, mine, free>>

PushLink(t) ==
    /\ pc[t] = "link"
    /\ cell' = [cell EXCEPT ![mine[t]] = seen[t]]
    /\ pc' = [pc EXCEPT ![t] = "push"]
    /\ UNCHANGED <<head, ends, seen, link, mine, free>>

PushSwap(t) ==
    /\ pc[t] = "push"
    /\ head = seen[t]
    /\ head' = mine[t]
    /\ mine' = [mine EXCEPT ![t] = Null]
    /\ pc' = [pc EXCEPT ![t] = "idle"]
    /\ free' = Append(free, mine[t])
    /\ UNCHANGED <<cell, ends, seen, link>>

(* Mutant: a failed compare_exchange is not retried. *)
RetryGivesUp(t) ==
    /\ pc[t] = "push"
    /\ head # seen[t]
    /\ mine' = [mine EXCEPT ![t] = Null]
    /\ pc' = [pc EXCEPT ![t] = "idle"]
    /\ UNCHANGED <<head, cell, ends, seen, link, free>>

(* The compare_exchange failed: take the head it returned and relink. *)
PushRetry(t) ==
    /\ pc[t] = "push"
    /\ head # seen[t]
    /\ seen' = [seen EXCEPT ![t] = head]
    /\ pc' = [pc EXCEPT ![t] = "link"]
    /\ UNCHANGED <<head, cell, ends, link, mine, free>>

Next ==
    \E t \in Threads :
        \/ PopLoad(t) \/ PopRead(t) \/ PopSwap(t) \/ PopRetry(t) \/ Create(t)
        \/ \E s \in Slots, e \in Ends : DropEnd(t, s, e)
        \/ PushLoad(t) \/ PushLink(t) \/ PushSwap(t) \/ PushRetry(t)

Spec == Init /\ [][Next]_vars

-----------------------------------------------------------------------------
Pointers == Slots \cup {Null}
Pushing == {"load", "link", "push"}

(* Every variable holds a value of its kind; in particular the head is     *)
(* never a value read from a slot in use.                                  *)
TypeOK ==
    /\ head \in Pointers
    /\ cell \in [Slots -> Pointers \cup {Data}]
    /\ ends \in [Slots -> SUBSET Ends]
    /\ pc \in [Threads -> {"idle", "read", "pop", "create"} \cup Pushing]
    /\ seen \in [Threads -> Pointers]
    /\ link \in [Threads -> Pointers \cup {Data}]
    /\ mine \in [Threads -> Pointers]
    /\ free \in Seq(Slots)

(* The threads that hold slot s between the pop and the creation of its    *)
(* pair, or between the last drop and the push.                            *)
Holders(s) == {t \in Threads : mine[t] = s}

IsFree(s) == \E i \in 1 .. Len(free) : free[i] = s

(* A slot is in one place only: on the stack, in the hands of one thread,  *)
(* or behind a live pair.  So get_promise never hands out a slot that is   *)
(* in use, whatever pops and pushes interleave.                            *)
OnePlace ==
    /\ \A i, j \in 1 .. Len(free) : free[i] = free[j] => i = j
    /\ \A s \in Slots :
        /\ IsFree(s) => ends[s] = {} /\ Holders(s) = {}
        /\ ends[s] # {} => Holders(s) = {}
        /\ \A t, u \in Holders(s) : t = u

(* Following the next pointers from the head visits exactly the free       *)
(* slots, in stack order, and ends in null.                                *)
StackIntact ==
    /\ head = IF Len(free) = 0 THEN Null ELSE free[Len(free)]
    /\ \A i \in 1 .. Len(free) :
        cell[free[i]] = IF i = 1 THEN Null ELSE free[i - 1]

(* The head is null, and get_promise answers NoneAvailable, only while     *)
(* every slot is in use or in a thread's hands: no slot is lost.           *)
NoneAvailableMeansAllTaken ==
    head = Null => \A s \in Slots : ends[s] # {} \/ Holders(s) # {}

=============================================================================
