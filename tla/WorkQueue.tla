------------------------------ MODULE WorkQueue ------------------------------
(***************************************************************************)
(* dispatcher/src/queue.rs with the spin_queue feature: the list of work   *)
(* items, the mutex around it and the ticket lock in front of the mutex.   *)
(* Engine threads take work with get_work (the compute engines) or with    *)
(* try_get_work (the reqwest engine, polled as a stream); the dispatcher   *)
(* pushes.                                                                 *)
(*                                                                         *)
(* The counters start and end only grow, so they are kept relative to      *)
(* start: "open" is end - start, "turn" a ticket - start.  Their wrap      *)
(* around after 2^64 tickets is not modelled.                              *)
(*                                                                         *)
(* A work item is named by its slot in the promise buffer: there are as    *)
(* many as the buffer has slots, and do_work fails before it pushes when   *)
(* none is left.                                                           *)
(***************************************************************************)
EXTENDS Integers, Sequences

CONSTANTS
    Spinners,  \* engine threads that call get_work
    Triers,    \* engine threads that call try_get_work
    Slots,     \* slots of the promise buffer
    Kinds,     \* engine types
    Kind,      \* the engine type of each engine thread
    FlagSets   \* the sets of engine types that work is pushed with

Engines == Spinners \cup Triers

ASSUME EnginesAssumption == Spinners \cap Triers = {}
ASSUME KindAssumption == Kind \in [Engines -> Kinds]
ASSUME FlagsAssumption == FlagSets \subseteq SUBSET Kinds

Free == "free"
Dispatcher == "dispatcher"
Idle == "idle"

ASSUME NamesAssumption == {Free, Dispatcher} \cap Engines = {}

VARIABLES
    queue,    \* the list, oldest first
    flags,    \* per slot: the engine types its work may run on
    mutex,    \* who holds the mutex of the list
    pushing,  \* the slots the dispatcher is about to push, at most one
    open,     \* end - start: tickets drawn and not yet served
    pc,       \* per engine
    turn,     \* per engine: its ticket - start
    fresh,    \* per engine: the start it loaded in try_get_work is current
    running   \* per engine: the work it took and has not fulfilled

vars == <<queue, flags, mutex, pushing, open, pc, turn, fresh, running>>
tickets == <<open, turn, fresh>>

Init ==
    /\ queue = <<>>
    /\ flags = [k \in Slots |-> {}]
    /\ mutex = Free
    /\ pushing = {}
    /\ open = 0
    /\ pc = [e \in Engines |-> Idle]
    /\ turn = [e \in Engines |-> 0]
    /\ fresh = [e \in Engines |-> FALSE]
    /\ running = [e \in Engines |-> {}]

Queued == {queue[i] : i \in 1 .. Len(queue)}
Taken == UNION {running[e] : e \in Engines}

-----------------------------------------------------------------------------
(* do_work, do_work_flags: get a promise, then push under the mutex. *)

PushLock ==
    /\ mutex = Free
    /\ \E k \in Slots \ (Queued \cup Taken), f \in FlagSets :
        /\ pushing' = {k}
        /\ flags' = [flags EXCEPT ![k] = f]
    /\ mutex' = Dispatcher
    /\ UNCHANGED <<queue, pc, tickets, running>>

PushBack ==
    /\ mutex = Dispatcher
    /\ \E k \in pushing : queue' = Append(queue, k)
    /\ pushing' = {}
    /\ mutex' = Free
    /\ UNCHANGED <<flags, pc, tickets, running>>

-----------------------------------------------------------------------------
(* get_work *)

(* end.fetch_add: the ticket is the old end. *)
DrawTicket(e) ==
    /\ e \in Spinners
    /\ pc[e] = Idle
    /\ running[e] = {}
    /\ turn' = [turn EXCEPT ![e] = open]
    /\ open' = open + 1
    /\ pc' = [pc EXCEPT ![e] = "wait"]
    /\ UNCHANGED <<queue, flags, mutex, pushing, fresh, running>>

(* The spin loop ends: the ticket equals start. *)
TurnComes(e) ==
    /\ pc[e] = "wait"
    /\ turn[e] = 0
    /\ pc' = [pc EXCEPT ![e] = "lock"]
    /\ UNCHANGED <<queue, flags, mutex, pushing, tickets, running>>

(* try_get_work *)

(* start.load *)
LoadStart(e) ==
    /\ e \in Triers
    /\ pc[e] = Idle
    /\ fresh' = [fresh EXCEPT ![e] = TRUE]
    /\ pc' = [pc EXCEPT ![e] = "try"]
    /\ UNCHANGED <<queue, flags, mutex, pushing, open, turn, running>>

(* Mutant: only start is checked, end is incremented unconditionally. *)
TryUnchecked(e) ==
    /\ pc[e] = "try"
    /\ fresh[e]
    /\ turn' = [turn EXCEPT ![e] = 0]
    /\ open' = open + 1
    /\ pc' = [pc EXCEPT ![e] = "lock"]
    /\ UNCHANGED <<queue, flags, mutex, pushing, fresh, running>>

(* end.compare_exchange: end equals the start that was loaded only if      *)
(* start has not moved since and no ticket is open.                        *)
TryTicket(e) ==
    /\ pc[e] = "try"
    /\ fresh[e] /\ open = 0
    /\ turn' = [turn EXCEPT ![e] = 0]
    /\ open' = 1
    /\ pc' = [pc EXCEPT ![e] = "lock"]
    /\ UNCHANGED <<queue, flags, mutex, pushing, fresh, running>>

(* Some ticket is open, or start has moved: try_get_work returns None. *)
TryFails(e) ==
    /\ pc[e] = "try"
    /\ ~(fresh[e] /\ open = 0)
    /\ pc' = [pc EXCEPT ![e] = Idle]
    /\ UNCHANGED <<queue, flags, mutex, pushing, tickets, running>>

-----------------------------------------------------------------------------
(* Common to both. *)

(* flags & engine_flags == engine_flags, an engine having one flag. *)
Matches(e, i) == Kind[e] \in flags[queue[i]]

(* The queue without its i-th element. *)
Without(i) ==
    [j \in 1 .. Len(queue) - 1 |-> queue[IF j < i THEN j ELSE j + 1]]

(* Mutant: the element is read but stays in the list. *)
ExtractPeeks(e) ==
    /\ pc[e] = "lock"
    /\ mutex = Free
    /\ mutex' = e
    /\ \/ /\ \A i \in 1 .. Len(queue) : ~Matches(e, i)
          /\ UNCHANGED running
       \/ \E i \in 1 .. Len(queue) :
            /\ Matches(e, i)
            /\ running' = [running EXCEPT ![e] = @ \cup {queue[i]}]
    /\ pc' = [pc EXCEPT ![e] = "pass"]
    /\ UNCHANGED <<queue, flags, pushing, tickets>>

(* Mutant: the youngest element is extracted. *)
ExtractYoungest(e) ==
    /\ pc[e] = "lock"
    /\ mutex = Free
    /\ mutex' = e
    /\ \/ /\ \A i \in 1 .. Len(queue) : ~Matches(e, i)
          /\ UNCHANGED <<queue, running>>
       \/ \E i \in 1 .. Len(queue) :
            /\ Matches(e, i)
            /\ \A j \in i + 1 .. Len(queue) : ~Matches(e, j)
            /\ queue' = Without(i)
            /\ running' = [running EXCEPT ![e] = @ \cup {queue[i]}]
    /\ pc' = [pc EXCEPT ![e] = "pass"]
    /\ UNCHANGED <<flags, pushing, tickets>>

(* Lock the mutex and extract the oldest element the engine can run. *)
Extract(e) ==
    /\ pc[e] = "lock"
    /\ mutex = Free
    /\ mutex' = e
    /\ \/ /\ \A i \in 1 .. Len(queue) : ~Matches(e, i)
          /\ UNCHANGED <<queue, running>>
       \/ \E i \in 1 .. Len(queue) :
            /\ Matches(e, i)
            /\ \A j \in 1 .. i - 1 : ~Matches(e, j)
            /\ queue' = Without(i)
            /\ running' = [running EXCEPT ![e] = @ \cup {queue[i]}]
    /\ pc' = [pc EXCEPT ![e] = "pass"]
    /\ UNCHANGED <<flags, pushing, tickets>>

(* Mutant: start only advances when work was found. *)
PassOnIfFound(e) ==
    /\ pc[e] = "pass"
    /\ \/ running[e] = {} /\ UNCHANGED tickets
       \/ /\ running[e] # {}
          /\ open' = open - 1
          /\ turn' = [f \in Engines |-> IF pc[f] = "wait" THEN turn[f] - 1 ELSE 0]
          /\ fresh' = [f \in Engines |-> FALSE]
    /\ pc' = [pc EXCEPT ![e] = "unlock"]
    /\ UNCHANGED <<queue, flags, mutex, pushing, running>>

(* start.fetch_add lets the next ticket in, before the guard is dropped. *)
PassOn(e) ==
    /\ pc[e] = "pass"
    /\ open' = open - 1
    /\ turn' = [f \in Engines |-> IF pc[f] = "wait" THEN turn[f] - 1 ELSE 0]
    /\ fresh' = [f \in Engines |-> FALSE]
    /\ pc' = [pc EXCEPT ![e] = "unlock"]
    /\ UNCHANGED <<queue, flags, mutex, pushing, running>>

(* The guard is dropped; get_work loops if it found nothing. *)
Unlock(e) ==
    /\ pc[e] = "unlock"
    /\ mutex' = Free
    /\ pc' = [pc EXCEPT ![e] = Idle]
    /\ UNCHANGED <<queue, flags, pushing, tickets, running>>

(* The engine fulfils the debt and the slot returns to the buffer.  A      *)
(* compute engine is back at get_work then; the reqwest engine runs its    *)
(* requests in tasks of their own.                                         *)
Finish(e, k) ==
    /\ k \in running[e]
    /\ e \in Spinners => pc[e] = Idle
    /\ running' = [running EXCEPT ![e] = @ \ {k}]
    /\ UNCHANGED <<queue, flags, mutex, pushing, pc, tickets>>

EngineStep(e) ==
    \/ DrawTicket(e) \/ TurnComes(e)
    \/ LoadStart(e) \/ TryTicket(e) \/ TryFails(e)
    \/ Extract(e) \/ PassOn(e) \/ Unlock(e)

Next ==
    \/ PushLock
    \/ PushBack
    \/ \E e \in Engines : EngineStep(e) \/ \E k \in Slots : Finish(e, k)

Spec == Init /\ [][Next]_vars

(* Every engine thread has a core of its own and keeps running, a thread   *)
(* that holds the mutex releases it, and functions terminate.  The mutex   *)
(* itself is not assumed fair, and the dispatcher need not push.           *)
Fairness ==
    /\ WF_vars(PushBack)
    /\ \A e \in Engines : WF_vars(EngineStep(e))
    /\ \A e \in Engines : \A k \in Slots : WF_vars(Finish(e, k))

FairSpec == Spec /\ Fairness

-----------------------------------------------------------------------------
States == {Idle, "wait", "try", "lock", "pass", "unlock"}
Serving == {"lock", "pass"}
Holding == {"wait"} \cup Serving

HasTicket(e) == pc[e] \in Holding

(* Every variable holds a value of its kind; no ticket is behind start and *)
(* none at or past end.                                                    *)
TypeOK ==
    /\ queue \in Seq(Slots)
    /\ flags \in [Slots -> SUBSET Kinds]
    /\ mutex \in Engines \cup {Free, Dispatcher}
    /\ pushing \in SUBSET Slots
    /\ open \in Nat
    /\ pc \in [Engines -> States]
    /\ turn \in [Engines -> Nat]
    /\ fresh \in [Engines -> BOOLEAN]
    /\ running \in [Engines -> SUBSET Slots]
    /\ \A e \in Engines : HasTicket(e) => turn[e] < open

(* The ticket lock: at most one engine is between its turn and the         *)
(* fetch_add on start, whichever of the two ways it entered.               *)
TicketExclusion ==
    \A e, f \in Engines : pc[e] \in Serving /\ pc[f] \in Serving => e = f

(* Every open ticket belongs to exactly one engine.  A ticket without an   *)
(* owner would leave all engines spinning for ever: nobody would advance   *)
(* start past it.                                                          *)
EveryTicketHeld ==
    \A n \in 0 .. open - 1 :
        /\ \E e \in Engines : HasTicket(e) /\ turn[e] = n
        /\ \A e, f \in Engines :
            HasTicket(e) /\ HasTicket(f) /\ turn[e] = n /\ turn[f] = n => e = f

(* Work is in one place: at one position of the list, with one engine, or  *)
(* in the dispatcher's hands.  No item is run twice.                       *)
WorkInOnePlace ==
    /\ \A i, j \in 1 .. Len(queue) : queue[i] = queue[j] => i = j
    /\ \A e \in Engines : running[e] \cap (Queued \cup pushing) = {}
    /\ \A e, f \in Engines : e # f => running[e] \cap running[f] = {}
    /\ Queued \cap pushing = {}

(* An engine only runs work that was pushed with its engine type. *)
OnMatchingEngine ==
    \A e \in Engines : \A k \in running[e] : Kind[e] \in flags[k]

(* Every drawn ticket is served: get_work does not spin for ever in front  *)
(* of the list.                                                            *)
TicketIsServed ==
    \A e \in Spinners : (pc[e] = "wait") ~> (pc[e] = "lock")

(* Work for a compute engine does not stay in the list for ever. *)
ComputeWorkIsTaken ==
    \A k \in Slots :
        (k \in Queued /\ \E e \in Spinners : Kind[e] \in flags[k])
            ~> (k \notin Queued)

=============================================================================
