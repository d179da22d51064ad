--------------------------- MODULE WorkQueueProofs ---------------------------
(***************************************************************************)
(* Proofs about WorkQueue for any number of engines of both kinds and any  *)
(* set of promise slots.                                                   *)
(***************************************************************************)
EXTENDS WorkQueue, TLAPS

(* The solvers are given time, for slow or busy machines. *)
USE SMTT(60), ZenonT(30)

USE EnginesAssumption, KindAssumption, FlagsAssumption, NamesAssumption

(* The inductive invariant of the ticket lock: the engines with a ticket   *)
(* hold distinct tickets, together all of start .. end - 1, and an engine  *)
(* is served only with ticket start.                                       *)
TicketInv ==
    /\ \A e \in Engines : pc[e] \in Serving => turn[e] = 0
    /\ \A e, f \in Engines :
        HasTicket(e) /\ HasTicket(f) /\ turn[e] = turn[f] => e = f
    /\ \A n \in 0 .. open - 1 : \E e \in Engines : HasTicket(e) /\ turn[e] = n

Inv == TypeOK /\ TicketInv /\ WorkInOnePlace /\ OnMatchingEngine

-----------------------------------------------------------------------------
(* Taking the i-th element out of the list leaves the others, once each.   *)
LEMMA WithoutLemma ==
    ASSUME queue \in Seq(Slots), NEW i \in 1 .. Len(queue),
           \A m, n \in 1 .. Len(queue) : queue[m] = queue[n] => m = n
    PROVE  /\ Without(i) \in Seq(Slots)
           /\ Len(Without(i)) = Len(queue) - 1
           /\ \A m \in 1 .. Len(Without(i)) :
                Without(i)[m] \in Queued /\ Without(i)[m] # queue[i]
           /\ \A m, n \in 1 .. Len(Without(i)) :
                Without(i)[m] = Without(i)[n] => m = n
<1> DEFINE w == Without(i)
           L == Len(queue) - 1
<1>1. L \in Nat /\ Len(queue) \in Nat
    OBVIOUS
<1>2. \A m \in 1 .. L : (IF m < i THEN m ELSE m + 1) \in 1 .. Len(queue)
    BY <1>1
<1>3. \A m \in 1 .. L : w[m] = queue[IF m < i THEN m ELSE m + 1]
    BY DEF Without
<1>4. \A m \in 1 .. Len(queue) : queue[m] \in Slots
    OBVIOUS
<1>5. w \in [1 .. L -> Slots]
    BY <1>2, <1>4 DEF Without
<1>6. w \in Seq(Slots) /\ Len(w) = L
    BY <1>1, <1>5
<1>7. \A m \in 1 .. L : w[m] \in Queued /\ w[m] # queue[i]
    BY <1>1, <1>2, <1>3 DEF Queued
<1>8. \A m, n \in 1 .. L : w[m] = w[n] => m = n
    BY <1>1, <1>2, <1>3
<1> QED
    BY <1>6, <1>7, <1>8

LEMMA InitInv == Init => Inv
<1> SUFFICES ASSUME Init PROVE Inv
    OBVIOUS
<1> USE DEF Init
<1>1. TypeOK
    BY DEF TypeOK, States, Idle, HasTicket, Holding, Serving
<1>2. TicketInv
    BY DEF TicketInv, HasTicket, Holding, Serving, Idle
<1>3. WorkInOnePlace /\ OnMatchingEngine
    BY DEF WorkInOnePlace, OnMatchingEngine, Queued
<1> QED
    BY <1>1, <1>2, <1>3 DEF Inv

-----------------------------------------------------------------------------
(* The ticket part *)

LEMMA TicketsKept == ASSUME Inv, Next PROVE TicketInv'
<1> USE DEF HasTicket, Holding, Serving, Idle
<1>0. TypeOK /\ TicketInv
    BY DEF Inv
<1>1. ASSUME NEW e \in Engines, DrawTicket(e) PROVE TicketInv'
    <2>1. /\ pc \in [Engines -> States] /\ turn \in [Engines -> Nat]
          /\ open \in Nat
          /\ \A f \in Engines : HasTicket(f) => turn[f] < open
        BY <1>0 DEF TypeOK
    <2>2. ~HasTicket(e) /\ HasTicket(e)' /\ turn'[e] = open /\ open' = open + 1
        BY <1>1, <2>1 DEF DrawTicket
    <2>3. \A f \in Engines : f # e => turn'[f] = turn[f] /\ pc'[f] = pc[f]
        BY <1>1, <2>1 DEF DrawTicket
    <2>4. \A f \in Engines : pc'[f] \in Serving => turn'[f] = 0
        BY <1>0, <1>1, <2>1, <2>3 DEF DrawTicket, TicketInv
    <2>5. \A f, g \in Engines :
            (HasTicket(f) /\ HasTicket(g) /\ turn[f] = turn[g])' => f = g
        BY <1>0, <2>1, <2>2, <2>3 DEF TicketInv
    <2>6. \A n \in 0 .. open' - 1 :
            \E f \in Engines : HasTicket(f)' /\ turn'[f] = n
        <3> TAKE n \in 0 .. open' - 1
        <3>1. CASE n = open
            BY <3>1, <2>2
        <3>2. CASE n # open
            <4>1. n \in 0 .. open - 1
                BY <3>2, <2>1, <2>2
            <4>2. PICK f \in Engines : HasTicket(f) /\ turn[f] = n
                BY <4>1, <1>0 DEF TicketInv
            <4> QED
                BY <4>2, <2>2, <2>3
        <3> QED
            BY <3>1, <3>2
    <2> QED
        BY <2>4, <2>5, <2>6 DEF TicketInv
<1>2. ASSUME NEW e \in Engines, TryTicket(e) PROVE TicketInv'
    <2>1. /\ pc \in [Engines -> States] /\ turn \in [Engines -> Nat]
          /\ open = 0 /\ open' = 1
          /\ \A f \in Engines : ~HasTicket(f)
        BY <1>0, <1>2 DEF TypeOK, TryTicket
    <2>2. HasTicket(e)' /\ turn'[e] = 0
        BY <1>2, <2>1 DEF TryTicket
    <2>3. \A f \in Engines : f # e => ~HasTicket(f)'
        BY <1>2, <2>1 DEF TryTicket
    <2> QED
        BY <2>1, <2>2, <2>3 DEF TicketInv
<1>3. ASSUME NEW e \in Engines, PassOn(e) PROVE TicketInv'
    <2>1. /\ pc \in [Engines -> States] /\ turn \in [Engines -> Nat]
          /\ open \in Nat
        BY <1>0 DEF TypeOK
    <2>2. HasTicket(e) /\ turn[e] = 0 /\ pc[e] \in Serving
        BY <1>0, <1>3 DEF PassOn, TicketInv
    <2>3. \A f \in Engines : f # e /\ HasTicket(f) => pc[f] = "wait" /\ turn[f] # 0
        BY <1>0, <2>2 DEF TicketInv
    <2>4. \A f \in Engines : HasTicket(f)' <=> f # e /\ HasTicket(f)
        BY <1>3, <2>1 DEF PassOn
    <2>5. \A f \in Engines : HasTicket(f)' =>
            pc'[f] = "wait" /\ turn'[f] = turn[f] - 1
        BY <1>3, <2>1, <2>3, <2>4 DEF PassOn
    <2>6. \A f, g \in Engines :
            (HasTicket(f) /\ HasTicket(g) /\ turn[f] = turn[g])' => f = g
        <3> TAKE f, g \in Engines
        <3> HAVE (HasTicket(f) /\ HasTicket(g) /\ turn[f] = turn[g])'
        <3>1. turn[f] - 1 = turn[g] - 1
            BY <2>5
        <3>2. turn[f] = turn[g]
            BY <3>1, <2>1
        <3> QED
            BY <3>2, <2>4, <1>0 DEF TicketInv
    <2>7. \A n \in 0 .. open' - 1 :
            \E f \in Engines : HasTicket(f)' /\ turn'[f] = n
        <3> TAKE n \in 0 .. open' - 1
        <3>1. n + 1 \in 0 .. open - 1 /\ n \in Nat
            BY <1>3, <2>1 DEF PassOn
        <3>2. PICK f \in Engines : HasTicket(f) /\ turn[f] = n + 1
            BY <3>1, <1>0 DEF TicketInv
        <3>3. f # e
            BY <3>1, <3>2, <2>2
        <3> QED
            BY <3>1, <3>2, <3>3, <2>4, <2>5
    <2>8. \A f \in Engines : pc'[f] \in Serving => turn'[f] = 0
        BY <2>5
    <2> QED
        BY <2>6, <2>7, <2>8 DEF TicketInv
<1>4. ASSUME NEW e \in Engines, TurnComes(e) \/ Extract(e) PROVE TicketInv'
    <2>1. pc \in [Engines -> States]
        BY <1>0 DEF TypeOK
    <2>2. /\ turn' = turn /\ open' = open
          /\ \A f \in Engines : HasTicket(f)' <=> HasTicket(f)
          /\ \A f \in Engines : pc'[f] \in Serving => pc[f] \in Serving \/ turn[f] = 0
        BY <1>4, <2>1 DEF TurnComes, Extract, tickets
    <2> QED
        BY <1>0, <2>2 DEF TicketInv
<1>5. ASSUME NEW e \in Engines, LoadStart(e) \/ TryFails(e) \/ Unlock(e)
      PROVE  TicketInv'
    <2>1. pc \in [Engines -> States]
        BY <1>0 DEF TypeOK
    <2>2. /\ turn' = turn /\ open' = open
          /\ \A f \in Engines : HasTicket(f)' <=> HasTicket(f)
          /\ \A f \in Engines : pc'[f] \in Serving => pc[f] \in Serving
        BY <1>5, <2>1 DEF LoadStart, TryFails, Unlock, tickets
    <2> QED
        BY <1>0, <2>2 DEF TicketInv
<1>6. ASSUME PushLock \/ PushBack \/ \E e \in Engines, k \in Slots : Finish(e, k)
      PROVE  TicketInv'
    <2>1. pc' = pc /\ turn' = turn /\ open' = open
        BY <1>6 DEF PushLock, PushBack, Finish, tickets
    <2> QED
        BY <1>0, <2>1 DEF TicketInv
<1> QED
    BY <1>1, <1>2, <1>3, <1>4, <1>5, <1>6 DEF Next, EngineStep

-----------------------------------------------------------------------------
(* The types *)

LEMMA TypesKept == ASSUME Inv, Next PROVE TypeOK'
<1>0. TypeOK /\ TicketInv /\ WorkInOnePlace
    BY DEF Inv
<1>1. /\ queue \in Seq(Slots) /\ flags \in [Slots -> SUBSET Kinds]
      /\ mutex \in Engines \cup {Free, Dispatcher} /\ pushing \in SUBSET Slots
      /\ open \in Nat /\ pc \in [Engines -> States] /\ turn \in [Engines -> Nat]
      /\ fresh \in [Engines -> BOOLEAN] /\ running \in [Engines -> SUBSET Slots]
      /\ \A e \in Engines : HasTicket(e) => turn[e] < open
    BY <1>0 DEF TypeOK
<1> USE DEF HasTicket, Holding, Serving, Idle, States
<1>2. CASE PushLock
    BY <1>1, <1>2 DEF TypeOK, PushLock, tickets
<1>3. CASE PushBack
    BY <1>1, <1>3 DEF TypeOK, PushBack, tickets
<1>4. ASSUME NEW e \in Engines, DrawTicket(e) PROVE TypeOK'
    BY <1>1, <1>4 DEF TypeOK, DrawTicket
<1>5. ASSUME NEW e \in Engines, TurnComes(e) PROVE TypeOK'
    BY <1>1, <1>5 DEF TypeOK, TurnComes, tickets
<1>6. ASSUME NEW e \in Engines, LoadStart(e) PROVE TypeOK'
    BY <1>1, <1>6 DEF TypeOK, LoadStart
<1>7. ASSUME NEW e \in Engines, TryTicket(e) PROVE TypeOK'
    BY <1>1, <1>7 DEF TypeOK, TryTicket
<1>8. ASSUME NEW e \in Engines, TryFails(e) PROVE TypeOK'
    BY <1>1, <1>8 DEF TypeOK, TryFails, tickets
<1>9. ASSUME NEW e \in Engines, Extract(e) PROVE TypeOK'
    <2>1. queue' \in Seq(Slots) /\ running' \in [Engines -> SUBSET Slots]
        <3>1. CASE UNCHANGED <<queue, running>>
            BY <3>1, <1>1
        <3>2. ASSUME NEW i \in 1 .. Len(queue),
                     queue' = Without(i),
                     running' = [running EXCEPT ![e] = @ \cup {queue[i]}]
              PROVE  queue' \in Seq(Slots) /\ running' \in [Engines -> SUBSET Slots]
            <4>1. queue' \in Seq(Slots)
                BY <1>0, <1>1, <3>2, WithoutLemma DEF WorkInOnePlace
            <4>2. queue[i] \in Slots
                BY <1>1
            <4> QED
                BY <1>1, <3>2, <4>1, <4>2
        <3> QED
            BY <1>9, <3>1, <3>2 DEF Extract
    <2> QED
        BY <1>1, <1>9, <2>1, Zenon DEF TypeOK, Extract, tickets
<1>10. ASSUME NEW e \in Engines, PassOn(e) PROVE TypeOK'
    <2>1. pc[e] = "pass" /\ turn[e] = 0 /\ open > 0
        BY <1>0, <1>1, <1>10 DEF PassOn, TicketInv
    <2>2. \A f \in Engines : pc[f] = "wait" => turn[f] # 0
        BY <1>0, <1>1, <2>1 DEF TicketInv
    <2>3. open' \in Nat /\ turn' \in [Engines -> Nat]
        BY <1>1, <1>10, <2>1, <2>2 DEF PassOn
    <2>4. \A f \in Engines : pc'[f] \in Holding => pc[f] = "wait"
        BY <1>0, <1>1, <1>10, <2>1 DEF PassOn, TicketInv
    <2>5. \A f \in Engines : pc'[f] \in Holding => turn'[f] < open'
        BY <1>1, <1>10, <2>4 DEF PassOn
    <2> QED
        BY <1>1, <1>10, <2>3, <2>5 DEF TypeOK, PassOn
<1>11. ASSUME NEW e \in Engines, Unlock(e) PROVE TypeOK'
    BY <1>1, <1>11 DEF TypeOK, Unlock, tickets
<1>12. ASSUME NEW e \in Engines, NEW k \in Slots, Finish(e, k) PROVE TypeOK'
    BY <1>1, <1>12 DEF TypeOK, Finish, tickets
<1> QED
    BY <1>2, <1>3, <1>4, <1>5, <1>6, <1>7, <1>8, <1>9, <1>10, <1>11, <1>12
    DEF Next, EngineStep

-----------------------------------------------------------------------------
(* The work *)

LEMMA WorkKept == ASSUME Inv, Next PROVE WorkInOnePlace' /\ OnMatchingEngine'
<1>0. WorkInOnePlace /\ OnMatchingEngine
    BY DEF Inv
<1>1. /\ queue \in Seq(Slots) /\ flags \in [Slots -> SUBSET Kinds]
      /\ pushing \in SUBSET Slots /\ running \in [Engines -> SUBSET Slots]
    BY DEF Inv, TypeOK
<1>2. CASE PushLock
    <2>1. PICK k \in Slots \ (Queued \cup Taken), f \in FlagSets :
            pushing' = {k} /\ flags' = [flags EXCEPT ![k] = f]
        BY <1>2, Zenon DEF PushLock
    <2>2. \A e \in Engines : k \notin running[e]
        BY <2>1 DEF Taken
    <2>3. queue' = queue /\ running' = running
        BY <1>2 DEF PushLock
    <2>4. WorkInOnePlace'
        BY <1>0, <2>1, <2>2, <2>3 DEF WorkInOnePlace, Queued
    <2>5. OnMatchingEngine'
        BY <1>0, <1>1, <2>1, <2>2, <2>3 DEF OnMatchingEngine
    <2> QED
        BY <2>4, <2>5
<1>3. CASE PushBack
    <2>1. PICK k \in pushing : queue' = Append(queue, k)
        BY <1>3 DEF PushBack
    <2>2. pushing' = {} /\ running' = running /\ flags' = flags
        BY <1>3 DEF PushBack
    <2>3. k \in Slots /\ k \notin Queued /\ \A e \in Engines : k \notin running[e]
        BY <1>0, <1>1 DEF WorkInOnePlace
    <2>4. /\ Len(queue') = Len(queue) + 1 /\ Len(queue) \in Nat
          /\ \A i \in 1 .. Len(queue) : queue'[i] = queue[i]
          /\ queue'[Len(queue) + 1] = k
        BY <1>1, <2>1, <2>3
    <2>5. \A i \in 1 .. Len(queue') : i \in 1 .. Len(queue) \/ i = Len(queue) + 1
        BY <2>4
    <2>6. Queued' = Queued \cup {k}
        BY <2>4, <2>5 DEF Queued
    <2>7. \A i \in 1 .. Len(queue) : queue[i] # k
        BY <2>3 DEF Queued
    <2>8. \A i, j \in 1 .. Len(queue') : queue'[i] = queue'[j] => i = j
        BY <1>0, <2>4, <2>5, <2>7 DEF WorkInOnePlace
    <2>9. WorkInOnePlace'
        BY <1>0, <2>2, <2>3, <2>6, <2>8 DEF WorkInOnePlace
    <2> QED
        BY <1>0, <2>2, <2>9 DEF OnMatchingEngine
<1>4. ASSUME NEW e \in Engines, Extract(e)
      PROVE  WorkInOnePlace' /\ OnMatchingEngine'
    <2>1. flags' = flags /\ pushing' = pushing
        BY <1>4 DEF Extract
    <2>2. CASE UNCHANGED <<queue, running>>
        BY <1>0, <2>1, <2>2 DEF WorkInOnePlace, OnMatchingEngine, Queued
    <2>3. ASSUME NEW i \in 1 .. Len(queue), Matches(e, i),
                 queue' = Without(i),
                 running' = [running EXCEPT ![e] = @ \cup {queue[i]}]
          PROVE  WorkInOnePlace' /\ OnMatchingEngine'
        <3> DEFINE k == queue[i]
        <3>1. \A m, n \in 1 .. Len(queue) : queue[m] = queue[n] => m = n
            BY <1>0 DEF WorkInOnePlace
        <3>2. /\ \A m \in 1 .. Len(queue') : queue'[m] \in Queued \ {k}
              /\ \A m, n \in 1 .. Len(queue') : queue'[m] = queue'[n] => m = n
            BY <1>1, <2>3, <3>1, WithoutLemma
        <3>3. Queued' \subseteq Queued \ {k}
            BY <3>2 DEF Queued
        <3>4. k \in Queued
            BY DEF Queued
        <3>5. k \notin pushing /\ \A f \in Engines : k \notin running[f]
            BY <1>0, <3>4 DEF WorkInOnePlace
        <3>6. /\ running'[e] = running[e] \cup {k}
              /\ \A f \in Engines : f # e => running'[f] = running[f]
            BY <1>1, <2>3
        <3> HIDE DEF k
        <3>7. \A f \in Engines : running'[f] \cap (Queued' \cup pushing') = {}
            BY <1>0, <2>1, <3>3, <3>5, <3>6 DEF WorkInOnePlace
        <3>8. \A f, g \in Engines : f # g => running'[f] \cap running'[g] = {}
            BY <1>0, <3>5, <3>6 DEF WorkInOnePlace
        <3>9. Queued' \cap pushing' = {}
            BY <1>0, <2>1, <3>3 DEF WorkInOnePlace
        <3>10. Kind[e] \in flags[k]
            BY <2>3 DEF Matches, k
        <3>11. OnMatchingEngine'
            BY <1>0, <2>1, <3>6, <3>10 DEF OnMatchingEngine
        <3> QED
            BY <3>2, <3>7, <3>8, <3>9, <3>11 DEF WorkInOnePlace
    <2> QED
        BY <1>4, <2>2, <2>3 DEF Extract
<1>5. ASSUME NEW e \in Engines, NEW k \in Slots, Finish(e, k)
      PROVE  WorkInOnePlace' /\ OnMatchingEngine'
    <2>1. queue' = queue /\ flags' = flags /\ pushing' = pushing
        BY <1>5 DEF Finish
    <2>2. \A f \in Engines : running'[f] \subseteq running[f]
        BY <1>1, <1>5 DEF Finish
    <2> QED
        BY <1>0, <2>1, <2>2 DEF WorkInOnePlace, OnMatchingEngine, Queued
<1>6. ASSUME NEW e \in Engines,
             \/ DrawTicket(e) \/ TurnComes(e) \/ LoadStart(e) \/ TryTicket(e)
             \/ TryFails(e) \/ PassOn(e) \/ Unlock(e)
      PROVE  WorkInOnePlace' /\ OnMatchingEngine'
    <2>1. UNCHANGED <<queue, flags, pushing, running>>
        BY <1>6 DEF DrawTicket, TurnComes, LoadStart, TryTicket, TryFails,
                    PassOn, Unlock
    <2> QED
        BY <1>0, <2>1 DEF WorkInOnePlace, OnMatchingEngine, Queued
<1> QED
    BY <1>2, <1>3, <1>4, <1>5, <1>6 DEF Next, EngineStep

LEMMA InvariantLemma == Spec => []Inv
<1>1. Inv /\ [Next]_vars => Inv'
    <2> SUFFICES ASSUME Inv, [Next]_vars PROVE Inv'
        OBVIOUS
    <2>1. CASE Next
        BY <2>1, TicketsKept, TypesKept, WorkKept DEF Inv
    <2>2. CASE UNCHANGED vars
        BY <2>2 DEF Inv, TypeOK, TicketInv, WorkInOnePlace, OnMatchingEngine,
                    HasTicket, Queued, vars
    <2> QED
        BY <2>1, <2>2
<1> QED
    BY InitInv, <1>1, PTL DEF Spec

-----------------------------------------------------------------------------
(* The state of WorkQueue is always well formed; no engine holds a ticket  *)
(* outside start .. end - 1.                                               *)
THEOREM TypeCorrect == Spec => []TypeOK
<1>1. Inv => TypeOK
    BY DEF Inv
<1> QED
    BY InvariantLemma, <1>1, PTL

(* The ticket lock of get_work and try_get_work lets one engine at a time  *)
(* at the list, for any number of engines of either kind.                  *)
THEOREM TicketLockExcludes == Spec => []TicketExclusion
<1>1. Inv => TicketExclusion
    BY DEF Inv, TicketInv, TicketExclusion, HasTicket, Holding
<1> QED
    BY InvariantLemma, <1>1, PTL

(* No ticket is ever without an owner, or with two. *)
THEOREM NoTicketIsLost == Spec => []EveryTicketHeld
<1>1. Inv => EveryTicketHeld
    BY DEF Inv, TicketInv, EveryTicketHeld
<1> QED
    BY InvariantLemma, <1>1, PTL

(* An item of work is in one place and only ever with an engine of its     *)
(* type: nothing is run twice or by the wrong engine.                      *)
THEOREM WorkIsDeliveredOnce == Spec => [](WorkInOnePlace /\ OnMatchingEngine)
<1>1. Inv => WorkInOnePlace /\ OnMatchingEngine
    BY DEF Inv
<1> QED
    BY InvariantLemma, <1>1, PTL

=============================================================================
