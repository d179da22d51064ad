------------------------- MODULE PromiseBufferProofs -------------------------
(***************************************************************************)
(* Proofs about PromiseBuffer for any buffer size and any number of        *)
(* threads that push, under the hypothesis that one thread pops.           *)
(***************************************************************************)
EXTENDS PromiseBuffer, TLAPS

(* The solvers are given time, for slow or busy machines. *)
USE SMTT(60), ZenonT(30)

USE SizeAssumption, PoppersAssumption

(* get_promise is called from one thread. *)
SinglePopper == \A t, u \in Poppers : t = u

InHand == {"create"} \cup Pushing

(* What a thread knows at each of its steps.  A popping thread has read a  *)
(* slot that is still free, and the next pointer it read is still that     *)
(* slot's: only the popping thread itself removes slots, and the union of  *)
(* a free slot is not written.                                             *)
ThreadInv ==
    \A t \in Threads :
        /\ pc[t] \in {"read", "pop", "create"} => t \in Poppers
        /\ pc[t] \in {"read", "pop"} => IsFree(seen[t])
        /\ pc[t] = "pop" => link[t] = cell[seen[t]]
        /\ mine[t] # Null <=> pc[t] \in InHand
        /\ mine[t] # Null => ends[mine[t]] = {}
        /\ pc[t] = "push" => cell[mine[t]] = seen[t]

(* Every slot is somewhere. *)
Accounted ==
    \A s \in Slots : IsFree(s) \/ ends[s] # {} \/ Holders(s) # {}

Inv == TypeOK /\ OnePlace /\ StackIntact /\ ThreadInv /\ Accounted

-----------------------------------------------------------------------------
(* Facts about the two ways the stack changes. *)

LEMMA PopShape ==
    ASSUME free \in Seq(Slots), Len(free) > 0,
           free' = [i \in 1 .. Len(free) - 1 |-> free[i]]
    PROVE  /\ free' \in Seq(Slots)
           /\ Len(free') = Len(free) - 1
           /\ \A i \in 1 .. Len(free) - 1 : free'[i] = free[i]
<1>1. Len(free) - 1 \in Nat
    OBVIOUS
<1>2. \A i \in 1 .. Len(free) - 1 : free[i] \in Slots
    BY <1>1
<1>3. free' \in [1 .. Len(free) - 1 -> Slots]
    BY <1>2
<1> QED
    BY <1>1, <1>3

LEMMA PopFacts ==
    ASSUME free \in Seq(Slots), Len(free) > 0,
           \A i, j \in 1 .. Len(free) : free[i] = free[j] => i = j,
           Len(free') = Len(free) - 1,
           \A i \in 1 .. Len(free) - 1 : free'[i] = free[i]
    PROVE  /\ \A i \in 1 .. Len(free') : i \in 1 .. Len(free) /\ free'[i] = free[i]
           /\ \A s : IsFree(s)' <=> IsFree(s) /\ s # free[Len(free)]
<1>1. Len(free) \in Nat /\ Len(free) - 1 \in Nat
    OBVIOUS
<1>3. \A i \in 1 .. Len(free') : i \in 1 .. Len(free) /\ free'[i] = free[i]
    BY <1>1
<1>4. \A i \in 1 .. Len(free) : i \in 1 .. Len(free') \/ i = Len(free)
    BY <1>1
<1>5. ASSUME NEW s, IsFree(s)'
      PROVE  IsFree(s) /\ s # free[Len(free)]
    <2>1. PICK i \in 1 .. Len(free') : free'[i] = s
        BY <1>5 DEF IsFree
    <2>2. i \in 1 .. Len(free) /\ free[i] = s /\ i # Len(free)
        BY <1>1, <1>3, <2>1
    <2> QED
        BY <1>1, <2>2 DEF IsFree
<1>6. ASSUME NEW s, IsFree(s), s # free[Len(free)]
      PROVE  IsFree(s)'
    <2>1. PICK i \in 1 .. Len(free) : free[i] = s
        BY <1>6 DEF IsFree
    <2>2. i \in 1 .. Len(free')
        BY <1>4, <1>6, <2>1
    <2> QED
        BY <1>3, <2>1, <2>2 DEF IsFree
<1> QED
    BY <1>3, <1>5, <1>6

LEMMA PushFacts ==
    ASSUME free \in Seq(Slots), NEW k \in Slots, free' = Append(free, k)
    PROVE  /\ free' \in Seq(Slots)
           /\ Len(free') = Len(free) + 1
           /\ \A i \in 1 .. Len(free) : free'[i] = free[i]
           /\ free'[Len(free) + 1] = k
           /\ \A i \in 1 .. Len(free') : i \in 1 .. Len(free) \/ i = Len(free) + 1
           /\ \A s : IsFree(s)' <=> IsFree(s) \/ s = k
<1>1. Len(free) \in Nat
    OBVIOUS
<1>2. /\ free' \in Seq(Slots)
      /\ Len(free') = Len(free) + 1
      /\ \A i \in 1 .. Len(free) : free'[i] = free[i] /\ i \in 1 .. Len(free')
      /\ free'[Len(free) + 1] = k
      /\ Len(free) + 1 \in 1 .. Len(free')
    BY <1>1
<1>3. \A i \in 1 .. Len(free') : i \in 1 .. Len(free) \/ i = Len(free) + 1
    BY <1>1, <1>2
<1>4. ASSUME NEW s PROVE IsFree(s)' <=> IsFree(s) \/ s = k
    <2>1. IsFree(s)' => IsFree(s) \/ s = k
        BY <1>2, <1>3 DEF IsFree
    <2>2. IsFree(s) => IsFree(s)'
        BY <1>2 DEF IsFree
    <2>3. s = k => IsFree(s)'
        BY <1>2 DEF IsFree
    <2> QED
        BY <2>1, <2>2, <2>3
<1> QED
    BY <1>2, <1>3, <1>4

LEMMA InitInv == Init => Inv
<1> SUFFICES ASSUME Init PROVE Inv
    OBVIOUS
<1>1. /\ free \in Seq(Slots) /\ Len(free) = Size
      /\ \A i \in 1 .. Size : free[i] = (Size + 1) - i
    BY DEF Init, Slots
<1>2. TypeOK
    BY <1>1 DEF Init, TypeOK, Pointers, Slots, Null, Data, Ends, Pushing
<1>3. \A s \in Slots : IsFree(s)
    <2> TAKE s \in Slots
    <2>1. (Size + 1) - s \in 1 .. Size /\ (Size + 1) - ((Size + 1) - s) = s
        BY DEF Slots
    <2> QED
        BY <1>1, <2>1 DEF IsFree
<1>4. OnePlace
    <2>1. \A i, j \in 1 .. Len(free) : free[i] = free[j] => i = j
        BY <1>1
    <2>2. \A s \in Slots : ends[s] = {} /\ Holders(s) = {}
        BY DEF Init, Holders, Slots, Null
    <2> QED
        BY <2>1, <2>2 DEF OnePlace
<1>5. StackIntact
    <2>1. head = free[Len(free)] /\ Len(free) # 0
        BY <1>1 DEF Init
    <2>2. ASSUME NEW i \in 1 .. Len(free)
          PROVE  cell[free[i]] = IF i = 1 THEN Null ELSE free[i - 1]
        <3>0. i \in 1 .. Size /\ free[i] = (Size + 1) - i
            BY <1>1
        <3>1. i \in 1 .. Size /\ free[i] = (Size + 1) - i /\ free[i] \in Slots
            BY <3>0 DEF Slots
        <3>2. CASE i = 1
            <4>1. free[i] = Size
                BY <3>1, <3>2
            <4> QED
                BY <3>1, <3>2, <4>1 DEF Init
        <3>3. CASE i # 1
            <4>1. i - 1 \in 1 .. Size /\ free[i - 1] = (Size + 1) - (i - 1)
                BY <1>1, <3>1, <3>3
            <4>2. free[i] # Size /\ free[i] + 1 = free[i - 1]
                BY <3>1, <3>3, <4>1
            <4> QED
                BY <3>1, <3>3, <4>2 DEF Init
        <3> QED
            BY <3>2, <3>3
    <2> QED
        BY <2>1, <2>2 DEF StackIntact
<1>6. ThreadInv
    BY DEF Init, ThreadInv, InHand, Pushing
<1> QED
    BY <1>2, <1>3, <1>4, <1>5, <1>6 DEF Inv, Accounted

-----------------------------------------------------------------------------
(* Types that every step relies on, and what the invariant says of a slot  *)
(* in a thread's hands.                                                    *)
LEMMA Facts ==
    ASSUME Inv
    PROVE  /\ head \in Pointers /\ cell \in [Slots -> Pointers \cup {Data}]
           /\ ends \in [Slots -> SUBSET Ends]
           /\ pc \in [Threads -> {"idle", "read", "pop", "create"} \cup Pushing]
           /\ seen \in [Threads -> Pointers]
           /\ link \in [Threads -> Pointers \cup {Data}]
           /\ mine \in [Threads -> Pointers]
           /\ free \in Seq(Slots) /\ Len(free) \in Nat
           /\ \A i \in 1 .. Len(free) : free[i] \in Slots
           /\ Null \notin Slots
           /\ \A s : IsFree(s) => s \in Slots
           /\ head # Null => Len(free) > 0 /\ IsFree(head) /\ head = free[Len(free)]
           /\ head = Null => Len(free) = 0
           /\ \A t \in Threads : mine[t] # Null =>
                mine[t] \in Slots /\ ~IsFree(mine[t]) /\ ends[mine[t]] = {}
           /\ \A t, u \in Threads : mine[t] # Null /\ mine[t] = mine[u] => t = u
<1>1. TypeOK /\ OnePlace /\ StackIntact /\ ThreadInv
    BY DEF Inv
<1>2. /\ head \in Pointers /\ cell \in [Slots -> Pointers \cup {Data}]
      /\ ends \in [Slots -> SUBSET Ends]
      /\ pc \in [Threads -> {"idle", "read", "pop", "create"} \cup Pushing]
      /\ seen \in [Threads -> Pointers]
      /\ link \in [Threads -> Pointers \cup {Data}]
      /\ mine \in [Threads -> Pointers]
      /\ free \in Seq(Slots)
    BY <1>1 DEF TypeOK
<1>3. Len(free) \in Nat /\ \A i \in 1 .. Len(free) : free[i] \in Slots
    BY <1>2
<1>4. Null \notin Slots
    BY DEF Null, Slots
<1>5. \A s : IsFree(s) => s \in Slots
    BY <1>3 DEF IsFree
<1>6. head # Null => Len(free) > 0 /\ head = free[Len(free)]
    BY <1>1, <1>3 DEF StackIntact
<1>7. head # Null => IsFree(head)
    BY <1>3, <1>6 DEF IsFree
<1>8. head = Null => Len(free) = 0
    BY <1>1, <1>3, <1>4 DEF StackIntact
<1>9. ASSUME NEW t \in Threads, mine[t] # Null
      PROVE  mine[t] \in Slots /\ ~IsFree(mine[t]) /\ ends[mine[t]] = {}
    <2>1. mine[t] \in Slots
        BY <1>2, <1>9 DEF Pointers
    <2>2. t \in Holders(mine[t])
        BY DEF Holders
    <2>3. ~IsFree(mine[t])
        BY <1>1, <2>1, <2>2 DEF OnePlace
    <2>4. ends[mine[t]] = {}
        BY <1>1, <1>9 DEF ThreadInv
    <2> QED
        BY <2>1, <2>3, <2>4
<1>10. ASSUME NEW t \in Threads, NEW u \in Threads,
              mine[t] # Null, mine[t] = mine[u]
       PROVE  t = u
    <2>1. t \in Holders(mine[t]) /\ u \in Holders(mine[t])
        BY <1>10 DEF Holders
    <2> QED
        BY <1>1, <1>9, <1>10, <2>1 DEF OnePlace
<1> QED
    BY <1>2, <1>3, <1>4, <1>5, <1>6, <1>7, <1>8, <1>9, <1>10

(* Steps that only read: they change what one thread knows. *)
LEMMA ReadSteps ==
    ASSUME Inv, NEW t \in Threads,
           \/ PopLoad(t) \/ PopRead(t) \/ PopRetry(t)
           \/ PushLoad(t) \/ PushRetry(t)
    PROVE  Inv'
<1>0. TypeOK /\ OnePlace /\ StackIntact /\ ThreadInv /\ Accounted
    BY DEF Inv
<1>1. UNCHANGED <<head, cell, ends, mine, free>>
    BY DEF PopLoad, PopRead, PopRetry, PushLoad, PushRetry
<1>2. TypeOK'
    <2>1. pc' \in [Threads -> {"idle", "read", "pop", "create"} \cup Pushing]
        BY Facts DEF PopLoad, PopRead, PopRetry, PushLoad, PushRetry, Pushing
    <2>2. seen' \in [Threads -> Pointers]
        BY Facts DEF PopLoad, PopRead, PopRetry, PushLoad, PushRetry
    <2>3. link' \in [Threads -> Pointers \cup {Data}]
        <3>1. CASE PopRead(t)
            <4>1. seen[t] \in Slots
                BY <1>0, <3>1, Facts DEF PopRead, ThreadInv
            <4> QED
                BY <3>1, <4>1, Facts DEF PopRead
        <3>2. CASE ~PopRead(t)
            BY <3>2, Facts DEF PopLoad, PopRetry, PushLoad, PushRetry
        <3> QED
            BY <3>1, <3>2
    <2> QED
        BY <1>0, <1>1, <2>1, <2>2, <2>3 DEF TypeOK
<1>3. OnePlace' /\ StackIntact' /\ Accounted'
    BY <1>0, <1>1 DEF OnePlace, StackIntact, Accounted, IsFree, Holders
<1>4. \A s : IsFree(s)' <=> IsFree(s)
    BY <1>1 DEF IsFree
<1>5. \A u \in Threads : u # t =>
        pc'[u] = pc[u] /\ seen'[u] = seen[u] /\ link'[u] = link[u]
    BY Facts DEF PopLoad, PopRead, PopRetry, PushLoad, PushRetry
<1>6. /\ pc'[t] \in {"read", "pop", "create"} => t \in Poppers
      /\ pc'[t] \in {"read", "pop"} => IsFree(seen'[t])
      /\ pc'[t] = "pop" => link'[t] = cell[seen'[t]]
      /\ pc'[t] # "push"
      /\ pc'[t] \in InHand <=> pc[t] \in InHand
    <2>1. CASE PopLoad(t)
        BY <2>1, Facts DEF PopLoad, InHand, Pushing
    <2>2. CASE PopRead(t)
        BY <1>0, <2>2, Facts DEF PopRead, ThreadInv, InHand, Pushing
    <2>3. CASE PopRetry(t)
        BY <1>0, <2>3, Facts DEF PopRetry, ThreadInv, InHand, Pushing
    <2>4. CASE PushLoad(t)
        BY <2>4, Facts DEF PushLoad, InHand, Pushing
    <2>5. CASE PushRetry(t)
        BY <2>5, Facts DEF PushRetry, InHand, Pushing
    <2> QED
        BY <2>1, <2>2, <2>3, <2>4, <2>5
<1>7. ThreadInv'
    BY <1>0, <1>1, <1>4, <1>5, <1>6 DEF ThreadInv
<1> QED
    BY <1>2, <1>3, <1>7 DEF Inv

(* The pop: the top slot moves into the hands of the only popping thread.  *)
LEMMA PopSwapStep ==
    ASSUME Inv, SinglePopper, NEW t \in Threads, PopSwap(t)
    PROVE  Inv'
<1>0. TypeOK /\ OnePlace /\ StackIntact /\ ThreadInv /\ Accounted
    BY DEF Inv
<1> DEFINE k == seen[t]
           L == Len(free)
<1>1. /\ pc[t] = "pop" /\ head = k /\ head' = link[t]
      /\ mine' = [mine EXCEPT ![t] = k]
      /\ pc' = [pc EXCEPT ![t] = "create"]
      /\ cell' = cell /\ ends' = ends /\ seen' = seen /\ link' = link
    BY DEF PopSwap
<1>2. t \in Poppers /\ IsFree(k) /\ link[t] = cell[k] /\ mine[t] = Null
    BY <1>0, <1>1 DEF ThreadInv, InHand, Pushing
<1>3. k \in Slots /\ L > 0 /\ k = free[L] /\ L \in Nat
    BY <1>1, <1>2, Facts
<1>4. /\ free' \in Seq(Slots) /\ Len(free') = L - 1
      /\ \A i \in 1 .. L - 1 : free'[i] = free[i]
    BY <1>3, Facts, PopShape DEF PopSwap
<1>5. /\ \A i \in 1 .. Len(free') : i \in 1 .. L /\ free'[i] = free[i]
      /\ \A s : IsFree(s)' <=> IsFree(s) /\ s # k
    BY <1>0, <1>3, <1>4, Facts, PopFacts DEF OnePlace
<1>6. ends[k] = {} /\ Holders(k) = {}
    BY <1>0, <1>2, <1>3 DEF OnePlace
<1>7. cell[k] = IF L = 1 THEN Null ELSE free[L - 1]
    <2>1. L \in 1 .. Len(free)
        BY <1>3
    <2>2. \A i \in 1 .. Len(free) :
            cell[free[i]] = IF i = 1 THEN Null ELSE free[i - 1]
        BY <1>0 DEF StackIntact
    <2>3. cell[free[L]] = IF L = 1 THEN Null ELSE free[L - 1]
        BY <2>1, <2>2
    <2> QED
        BY <2>3, <1>3
<1>8. head' \in Pointers
    <2>0. L \in Nat /\ L > 0
        BY <1>3
    <2>a. \A n \in Nat : n > 0 /\ n # 1 => n - 1 \in 1 .. n
        OBVIOUS
    <2>1. L # 1 => L - 1 \in 1 .. L
        BY <2>0, <2>a, Zenon
    <2>2. L # 1 => free[L - 1] \in Slots
        BY <2>1, Facts
    <2> QED
        BY <1>1, <1>2, <1>7, <2>2 DEF Pointers
<1>9. TypeOK'
    BY <1>1, <1>3, <1>4, <1>8, Facts DEF TypeOK, Pointers
<1>10. /\ mine'[t] = k /\ pc'[t] = "create"
       /\ \A u \in Threads : u # t => mine'[u] = mine[u] /\ pc'[u] = pc[u]
    BY <1>1, Facts
<1>11. \A s \in Slots : Holders(s)' = IF s = k THEN {t} ELSE Holders(s)
    <2> TAKE s \in Slots
    <2>1. CASE s = k
        BY <1>6, <1>10, <2>1 DEF Holders
    <2>2. CASE s # k
        BY <1>2, <1>10, <2>2, Facts DEF Holders
    <2> QED
        BY <2>1, <2>2
<1>12. OnePlace'
    BY <1>0, <1>1, <1>5, <1>6, <1>11 DEF OnePlace
<1>13. StackIntact'
    <2>1. head' = IF Len(free') = 0 THEN Null ELSE free'[Len(free')]
        BY <1>1, <1>2, <1>3, <1>4, <1>7
    <2>2. \A i \in 1 .. Len(free') :
            cell'[free'[i]] = IF i = 1 THEN Null ELSE free'[i - 1]
        <3> TAKE i \in 1 .. Len(free')
        <3>1. i \in 1 .. L /\ free'[i] = free[i] /\ i \in 1 .. L - 1
            BY <1>4, <1>5
        <3>2. i # 1 => i - 1 \in 1 .. L - 1
            BY <1>3, <3>1
        <3>3. i # 1 => free'[i - 1] = free[i - 1]
            BY <1>4, <3>2
        <3> QED
            BY <1>0, <1>1, <3>1, <3>3 DEF StackIntact
    <2> QED
        BY <2>1, <2>2 DEF StackIntact
<1>14. ThreadInv'
    <2> SUFFICES ASSUME NEW u \in Threads
                 PROVE  /\ pc'[u] \in {"read", "pop", "create"} => u \in Poppers
                        /\ pc'[u] \in {"read", "pop"} => IsFree(seen[u])'
                        /\ pc'[u] = "pop" => link'[u] = cell'[seen'[u]]
                        /\ mine'[u] # Null <=> pc'[u] \in InHand
                        /\ mine'[u] # Null => ends'[mine'[u]] = {}
                        /\ pc'[u] = "push" => cell'[mine'[u]] = seen'[u]
        BY DEF ThreadInv
    <2>1. CASE u = t
        BY <1>1, <1>2, <1>3, <1>6, <1>10, <2>1, Facts DEF InHand
    <2>2. CASE u # t
        <3>1. u \notin Poppers
            BY <1>2, <2>2 DEF SinglePopper
        <3>2. pc[u] \notin {"read", "pop", "create"}
            BY <1>0, <3>1 DEF ThreadInv
        <3> QED
            BY <1>0, <1>1, <1>10, <2>2, <3>2 DEF ThreadInv
    <2> QED
        BY <2>1, <2>2
<1>15. Accounted'
    BY <1>0, <1>1, <1>5, <1>11 DEF Accounted
<1> QED
    BY <1>9, <1>12, <1>13, <1>14, <1>15 DEF Inv

(* Slots in a thread's hands are not the ones other threads work on. *)
LEMMA CreateStep ==
    ASSUME Inv, NEW t \in Threads, Create(t)
    PROVE  Inv'
<1>0. TypeOK /\ OnePlace /\ StackIntact /\ ThreadInv /\ Accounted
    BY DEF Inv
<1> DEFINE k == mine[t]
<1>1. /\ pc[t] = "create"
      /\ cell' = [cell EXCEPT ![k] = Data] /\ ends' = [ends EXCEPT ![k] = Ends]
      /\ mine' = [mine EXCEPT ![t] = Null] /\ pc' = [pc EXCEPT ![t] = "idle"]
      /\ head' = head /\ seen' = seen /\ link' = link /\ free' = free
    BY DEF Create
<1>2. k # Null /\ k \in Slots /\ ~IsFree(k) /\ ends[k] = {}
    BY <1>0, <1>1, Facts DEF ThreadInv, InHand
<1>3. \A u \in Threads : u # t => mine[u] # k
    BY <1>2, Facts
<1>4. /\ mine'[t] = Null /\ pc'[t] = "idle"
      /\ \A u \in Threads : u # t => mine'[u] = mine[u] /\ pc'[u] = pc[u]
      /\ ends'[k] = Ends /\ \A s \in Slots : s # k => ends'[s] = ends[s]
      /\ \A s \in Slots : s # k => cell'[s] = cell[s]
    BY <1>1, <1>2, Facts
<1>5. Ends # {} /\ Null \notin Slots
    BY Facts DEF Ends
<1>6. \A s : IsFree(s)' <=> IsFree(s)
    BY <1>1 DEF IsFree
<1>7. \A s \in Slots : Holders(s)' = IF s = k THEN {} ELSE Holders(s)
    BY <1>3, <1>4, <1>5 DEF Holders
<1>8. TypeOK'
    BY <1>1, <1>2, Facts DEF TypeOK, Pointers
<1>9. OnePlace'
    BY <1>0, <1>1, <1>2, <1>4, <1>6, <1>7 DEF OnePlace
<1>10. \A i \in 1 .. Len(free) : free[i] # k /\ free[i] \in Slots
    BY <1>2, Facts DEF IsFree
<1>11. StackIntact'
    BY <1>0, <1>1, <1>4, <1>10 DEF StackIntact
<1>12. ThreadInv'
    <2> SUFFICES ASSUME NEW u \in Threads
                 PROVE  /\ pc'[u] \in {"read", "pop", "create"} => u \in Poppers
                        /\ pc'[u] \in {"read", "pop"} => IsFree(seen[u])'
                        /\ pc'[u] = "pop" => link'[u] = cell'[seen'[u]]
                        /\ mine'[u] # Null <=> pc'[u] \in InHand
                        /\ mine'[u] # Null => ends'[mine'[u]] = {}
                        /\ pc'[u] = "push" => cell'[mine'[u]] = seen'[u]
        BY DEF ThreadInv
    <2>1. CASE u = t
        BY <1>4, <2>1 DEF InHand, Pushing
    <2>2. CASE u # t
        <3>1. IsFree(seen[u]) => seen[u] # k /\ seen[u] \in Slots
            BY <1>2, Facts
        <3>2. mine[u] # Null => mine[u] \in Slots /\ mine[u] # k
            BY <1>3, <2>2, Facts
        <3>3. pc[u] = "push" => mine[u] # Null
            BY <1>0 DEF ThreadInv, InHand, Pushing
        <3>4. IsFree(seen[u])' <=> IsFree(seen[u])
            BY <1>1 DEF IsFree
        <3> QED
            BY <1>0, <1>1, <1>4, <2>2, <3>1, <3>2, <3>3, <3>4 DEF ThreadInv
    <2> QED
        BY <2>1, <2>2
<1>13. Accounted'
    BY <1>0, <1>4, <1>5, <1>6, <1>7 DEF Accounted
<1> QED
    BY <1>8, <1>9, <1>11, <1>12, <1>13 DEF Inv

LEMMA DropEndStep ==
    ASSUME Inv, NEW t \in Threads, NEW s \in Slots, NEW e \in Ends,
           DropEnd(t, s, e)
    PROVE  Inv'
<1>0. TypeOK /\ OnePlace /\ StackIntact /\ ThreadInv /\ Accounted
    BY DEF Inv
<1>1. /\ pc[t] = "idle" /\ e \in ends[s]
      /\ ends' = [ends EXCEPT ![s] = @ \ {e}]
      /\ head' = head /\ cell' = cell /\ seen' = seen /\ link' = link
      /\ free' = free
    BY DEF DropEnd
<1>2. /\ ends'[s] = ends[s] \ {e}
      /\ \A q \in Slots : q # s => ends'[q] = ends[q]
      /\ ~IsFree(s) /\ Holders(s) = {} /\ mine[t] = Null /\ Null \notin Slots
    BY <1>0, <1>1, Facts DEF OnePlace, ThreadInv, InHand, Pushing
<1>3. \A q : IsFree(q)' <=> IsFree(q)
    BY <1>1 DEF IsFree
<1>4. StackIntact'
    BY <1>0, <1>1 DEF StackIntact
<1>5. \A u \in Threads : mine[u] # s
    BY <1>2 DEF Holders
<1>6. ends' \in [Slots -> SUBSET Ends]
    BY <1>1, Facts
<1>7. CASE ends[s] # {e} /\ UNCHANGED <<pc, mine>>
    <2>1. ends'[s] # {}
        BY <1>1, <1>2, <1>7
    <2>2. TypeOK'
        BY <1>0, <1>1, <1>6, <1>7 DEF TypeOK
    <2>3. \A q \in Slots : Holders(q)' = Holders(q)
        BY <1>7 DEF Holders
    <2>4. OnePlace'
        BY <1>0, <1>1, <1>2, <1>3, <2>3 DEF OnePlace
    <2>5. \A u \in Threads : IsFree(seen[u])' <=> IsFree(seen[u])
        BY <1>1 DEF IsFree
    <2>6. \A u \in Threads : mine[u] # Null => ends'[mine[u]] = ends[mine[u]]
        BY <1>2, <1>5, Facts
    <2>7. ThreadInv'
        BY <1>0, <1>1, <1>7, <2>5, <2>6 DEF ThreadInv
    <2>8. Accounted'
        BY <1>0, <1>2, <1>3, <2>1, <2>3 DEF Accounted
    <2> QED
        BY <1>4, <2>2, <2>4, <2>7, <2>8 DEF Inv
<1>8. CASE /\ ends[s] = {e}
           /\ pc' = [pc EXCEPT ![t] = "load"]
           /\ mine' = [mine EXCEPT ![t] = s]
    <2>1. /\ ends'[s] = {} /\ mine'[t] = s /\ pc'[t] = "load"
          /\ \A u \in Threads : u # t => mine'[u] = mine[u] /\ pc'[u] = pc[u]
        BY <1>2, <1>8, Facts
    <2>2. TypeOK'
        BY <1>1, <1>6, <1>8, Facts DEF TypeOK, Pointers, Pushing
    <2>3. \A q \in Slots : Holders(q)' = IF q = s THEN {t} ELSE Holders(q)
        BY <1>2, <1>5, <2>1 DEF Holders
    <2>4. OnePlace'
        BY <1>0, <1>1, <1>2, <1>3, <2>1, <2>3 DEF OnePlace
    <2>5. \A u \in Threads : IsFree(seen[u])' <=> IsFree(seen[u])
        BY <1>1 DEF IsFree
    <2>6. \A u \in Threads : mine[u] # Null => ends'[mine[u]] = ends[mine[u]]
        BY <1>2, <1>5, Facts
    <2>7. ThreadInv'
        BY <1>0, <1>1, <1>2, <2>1, <2>5, <2>6 DEF ThreadInv, InHand, Pushing
    <2>8. Accounted'
        BY <1>0, <1>2, <1>3, <2>3 DEF Accounted
    <2> QED
        BY <1>4, <2>2, <2>4, <2>7, <2>8 DEF Inv
<1> QED
    BY <1>7, <1>8 DEF DropEnd

LEMMA PushLinkStep ==
    ASSUME Inv, NEW t \in Threads, PushLink(t)
    PROVE  Inv'
<1>0. TypeOK /\ OnePlace /\ StackIntact /\ ThreadInv /\ Accounted
    BY DEF Inv
<1> DEFINE k == mine[t]
<1>1. /\ pc[t] = "link"
      /\ cell' = [cell EXCEPT ![k] = seen[t]] /\ pc' = [pc EXCEPT ![t] = "push"]
      /\ head' = head /\ ends' = ends /\ seen' = seen /\ link' = link
      /\ mine' = mine /\ free' = free
    BY DEF PushLink
<1>2. k # Null /\ k \in Slots /\ ~IsFree(k) /\ ends[k] = {}
    BY <1>0, <1>1, Facts DEF ThreadInv, InHand, Pushing
<1>3. /\ cell'[k] = seen[t] /\ \A s \in Slots : s # k => cell'[s] = cell[s]
      /\ pc'[t] = "push" /\ \A u \in Threads : u # t => pc'[u] = pc[u]
    BY <1>1, <1>2, Facts
<1>4. TypeOK'
    BY <1>1, <1>2, Facts DEF TypeOK, Pointers, Pushing
<1>5. OnePlace' /\ Accounted'
    BY <1>0, <1>1 DEF OnePlace, Accounted, IsFree, Holders
<1>6. \A i \in 1 .. Len(free) : free[i] # k /\ free[i] \in Slots
    BY <1>2, Facts DEF IsFree
<1>7. StackIntact'
    BY <1>0, <1>1, <1>3, <1>6 DEF StackIntact
<1>8. ThreadInv'
    <2>1. \A u \in Threads : IsFree(seen[u])' <=> IsFree(seen[u])
        BY <1>1 DEF IsFree
    <2>2. \A u \in Threads : IsFree(seen[u]) => cell'[seen[u]] = cell[seen[u]]
        BY <1>2, <1>3, Facts
    <2>3. \A u \in Threads : u # t /\ pc[u] = "push" => cell'[mine[u]] = cell[mine[u]]
        <3> SUFFICES ASSUME NEW u \in Threads, u # t, pc[u] = "push"
                     PROVE  cell'[mine[u]] = cell[mine[u]]
            OBVIOUS
        <3>1. mine[u] # Null
            BY <1>0 DEF ThreadInv, InHand, Pushing
        <3>2. mine[u] \in Slots /\ mine[u] # k
            BY <3>1, Facts
        <3> QED
            BY <1>3, <3>2
    <2> QED
        BY <1>0, <1>1, <1>3, <2>1, <2>2, <2>3 DEF ThreadInv, InHand, Pushing
<1> QED
    BY <1>4, <1>5, <1>7, <1>8 DEF Inv

(* The push: the slot in the thread's hands becomes the top.  Its next     *)
(* pointer is the head that the compare_exchange has just confirmed.       *)
LEMMA PushSwapStep ==
    ASSUME Inv, NEW t \in Threads, PushSwap(t)
    PROVE  Inv'
<1>0. TypeOK /\ OnePlace /\ StackIntact /\ ThreadInv /\ Accounted
    BY DEF Inv
<1> DEFINE k == mine[t]
           L == Len(free)
<1>1. /\ pc[t] = "push" /\ head = seen[t] /\ head' = k
      /\ mine' = [mine EXCEPT ![t] = Null] /\ pc' = [pc EXCEPT ![t] = "idle"]
      /\ cell' = cell /\ ends' = ends /\ seen' = seen /\ link' = link
    BY DEF PushSwap
<1>2. k # Null /\ k \in Slots /\ ~IsFree(k) /\ ends[k] = {} /\ cell[k] = head
    BY <1>0, <1>1, Facts DEF ThreadInv, InHand, Pushing
<1>3. /\ free' \in Seq(Slots)
      /\ Len(free') = L + 1
      /\ \A i \in 1 .. L : free'[i] = free[i]
      /\ free'[L + 1] = k
      /\ \A i \in 1 .. Len(free') : i \in 1 .. L \/ i = L + 1
      /\ \A s : IsFree(s)' <=> IsFree(s) \/ s = k
    BY <1>2, Facts, PushFacts DEF PushSwap
<1>4. /\ mine'[t] = Null /\ pc'[t] = "idle"
      /\ \A u \in Threads : u # t => mine'[u] = mine[u] /\ pc'[u] = pc[u]
    BY <1>1, Facts
<1>5. \A u \in Threads : u # t => mine[u] # k
    BY <1>2, Facts
<1>6. \A s \in Slots : Holders(s)' = IF s = k THEN {} ELSE Holders(s)
    BY <1>4, <1>5, Facts DEF Holders
<1>7. TypeOK'
    BY <1>1, <1>2, <1>3, Facts DEF TypeOK, Pointers
<1>8. OnePlace'
    <2>1. \A i \in 1 .. L : free[i] # k
        BY <1>2 DEF IsFree
    <2>2. \A i, j \in 1 .. Len(free') : free'[i] = free'[j] => i = j
        BY <1>0, <1>3, <2>1 DEF OnePlace
    <2> QED
        BY <1>0, <1>1, <1>2, <1>3, <1>6, <2>2 DEF OnePlace
<1>9. StackIntact'
    <2>0. L \in Nat
        BY Facts
    <2>1. head' = IF Len(free') = 0 THEN Null ELSE free'[Len(free')]
        BY <1>1, <1>3, <2>0
    <2>2. cell[k] = IF L + 1 = 1 THEN Null ELSE free'[L]
        <3>1. CASE L = 0
            BY <1>0, <1>2, <3>1 DEF StackIntact
        <3>2. CASE L # 0
            <4>1. L \in 1 .. L /\ L + 1 # 1
                BY <2>0, <3>2
            <4>2. head = free[L]
                BY <1>0, <3>2 DEF StackIntact
            <4> QED
                BY <1>2, <1>3, <4>1, <4>2
        <3> QED
            BY <3>1, <3>2
    <2>3. ASSUME NEW i \in 1 .. Len(free')
          PROVE  cell'[free'[i]] = IF i = 1 THEN Null ELSE free'[i - 1]
        <3>1. CASE i = L + 1
            <4>1. i - 1 = L /\ free'[i] = k
                BY <1>3, <2>0, <3>1
            <4> QED
                BY <1>1, <2>2, <3>1, <4>1
        <3>2. CASE i \in 1 .. L
            <4>1. i # 1 => i - 1 \in 1 .. L
                BY <2>0, <3>2
            <4>2. i # 1 => free'[i - 1] = free[i - 1]
                BY <1>3, <4>1
            <4>3. free'[i] = free[i]
                BY <1>3, <3>2
            <4> QED
                BY <1>0, <1>1, <3>2, <4>2, <4>3 DEF StackIntact
        <3> QED
            BY <1>3, <3>1, <3>2
    <2> QED
        BY <2>1, <2>3 DEF StackIntact
<1>10. ThreadInv'
    <2>1. \A u \in Threads : IsFree(seen[u]) => IsFree(seen[u])'
        <3> SUFFICES ASSUME NEW u \in Threads, IsFree(seen[u]) PROVE IsFree(seen[u])'
            OBVIOUS
        <3>1. PICK i \in 1 .. L : free[i] = seen[u]
            BY DEF IsFree
        <3>2. i \in 1 .. Len(free') /\ free'[i] = seen'[u]
            BY <1>1, <1>3, <3>1, Facts
        <3> QED
            BY <3>2 DEF IsFree
    <2> QED
        BY <1>0, <1>1, <1>4, <2>1 DEF ThreadInv, InHand, Pushing
<1>11. Accounted'
    BY <1>0, <1>1, <1>3, <1>6 DEF Accounted
<1> QED
    BY <1>7, <1>8, <1>9, <1>10, <1>11 DEF Inv

LEMMA InvariantLemma == ASSUME SinglePopper PROVE Spec => []Inv
<1>1. Inv /\ [Next]_vars => Inv'
    <2> SUFFICES ASSUME Inv, [Next]_vars PROVE Inv'
        OBVIOUS
    <2>1. CASE Next
        BY <2>1, ReadSteps, PopSwapStep, CreateStep, DropEndStep, PushLinkStep,
           PushSwapStep DEF Next
    <2>2. CASE UNCHANGED vars
        <3>1. TypeOK' /\ OnePlace'
            BY <2>2 DEF Inv, TypeOK, OnePlace, IsFree, Holders, vars
        <3>2. StackIntact'
            BY <2>2 DEF Inv, StackIntact, vars
        <3>3. ThreadInv'
            BY <2>2 DEF Inv, ThreadInv, IsFree, vars
        <3>4. Accounted'
            BY <2>2 DEF Inv, Accounted, IsFree, Holders, vars
        <3> QED
            BY <3>1, <3>2, <3>3, <3>4 DEF Inv
    <2> QED
        BY <2>1, <2>2
<1> QED
    BY InitInv, <1>1, PTL DEF Spec

-----------------------------------------------------------------------------
(* With one popping thread the state of the buffer is always well formed;  *)
(* the head never becomes the contents of a slot in use.                   *)
THEOREM TypeCorrect == ASSUME SinglePopper PROVE Spec => []TypeOK
<1>1. Inv => TypeOK
    BY DEF Inv
<1> QED
    BY InvariantLemma, <1>1, PTL

(* With one popping thread a slot is never handed out twice, and never     *)
(* freed twice, whatever the number of pushing threads.                    *)
THEOREM SlotsAreExclusive == ASSUME SinglePopper PROVE Spec => []OnePlace
<1>1. Inv => OnePlace
    BY DEF Inv
<1> QED
    BY InvariantLemma, <1>1, PTL

(* With one popping thread the next pointers always spell out the stack.   *)
THEOREM FreeListIsIntact == ASSUME SinglePopper PROVE Spec => []StackIntact
<1>1. Inv => StackIntact
    BY DEF Inv
<1> QED
    BY InvariantLemma, <1>1, PTL

(* With one popping thread get_promise fails only when every slot is in    *)
(* use or in transit.                                                      *)
THEOREM NoSlotIsLost ==
    ASSUME SinglePopper PROVE Spec => []NoneAvailableMeansAllTaken
<1>1. Inv => NoneAvailableMeansAllTaken
    <2> SUFFICES ASSUME Inv, head = Null, NEW s \in Slots
                 PROVE  ends[s] # {} \/ Holders(s) # {}
        BY DEF NoneAvailableMeansAllTaken
    <2>1. Len(free) = 0
        BY Facts
    <2>2. ~IsFree(s)
        BY <2>1 DEF IsFree
    <2> QED
        BY <2>2 DEF Inv, Accounted
<1> QED
    BY InvariantLemma, <1>1, PTL

=============================================================================
