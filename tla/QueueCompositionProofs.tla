------------------------ MODULE QueueCompositionProofs ------------------------
(***************************************************************************)
(* Proofs about QueueComposition for every set of compositions and every   *)
(* behaviour of their functions.                                           *)
(***************************************************************************)
EXTENDS QueueComposition, FiniteSetTheorems, WellFoundedInduction, TLAPS

(* The solvers are given time, for slow or busy machines. *)
USE SMTT(60), ZenonT(30)

USE ValuesDiffer, CompositionsAreTyped, GivenAreSets

(* What a function is at: waiting, started, or skipped, and only one of    *)
(* these.  "skips" counts the answers of a skipped function.               *)
LifeInv ==
    /\ waiting \subseteq Functions
    /\ running \subseteq Functions
    /\ starts \in [Functions -> {0, 1}]
    /\ skips \in [Functions -> Nat]
    /\ \A f \in Functions :
        /\ f \in waiting => starts[f] = 0 /\ skips[f] = 0
        /\ f \in running => starts[f] = 1 /\ f \notin waiting
        /\ skips[f] > 0 => starts[f] = 0
    /\ phase = "called" => waiting = {} /\ running = {}

(* missing_sets holds inputs of the function. *)
MissingInv ==
    /\ comp \in Compositions
    /\ missing \in [Functions -> SUBSET UNION {Inputs(f) : f \in Functions}]
    /\ \A f \in Functions : missing[f] \subseteq Inputs(f)

Inv == LifeInv /\ MissingInv

(* The number of answers of a function is a number, and 0 unless it is     *)
(* cancelled.                                                              *)
LEMMA AnswersNat ==
    ASSUME MissingInv, NEW batch, NEW g \in Functions
    PROVE  /\ Answers(batch, g) \in Nat
           /\ g \notin Cancelled(batch) => Answers(batch, g) = 0
<1>1. \A j : IsFiniteSet(Blocked(batch, g, j))
    <2> TAKE j
    <2>1. IsFiniteSet(Inputs(g))
        BY FS_Interval DEF MissingInv, Inputs
    <2>2. Blocked(batch, g, j) \subseteq Inputs(g)
        BY DEF MissingInv, Blocked, Hit
    <2> QED
        BY <2>1, <2>2, FS_Subset
<1> QED
    BY <1>1, FS_CardinalityType DEF Answers

LEMMA InitInv ==
    ASSUME Init
    PROVE  Inv
BY DEF Init, Inv, LifeInv, MissingInv

LEMMA BuildInv ==
    ASSUME Inv, Build
    PROVE  Inv'
<1>1. LifeInv'
    BY DEF Inv, LifeInv, Build
<1>2. MissingInv'
    BY DEF Inv, MissingInv, Build, Misses, Inputs
<1> QED
    BY <1>1, <1>2 DEF Inv

(* Delivering a batch only moves functions from waiting to running, or     *)
(* from waiting to skipped.                                                *)
LEMMA DeliverInv ==
    ASSUME Inv, NEW batch, NEW left, NEW rest, Deliver(batch, left, rest),
           phase # "called", UNCHANGED <<comp, phase>>,
           left \subseteq running, rest \in [Functions -> Nat],
           \A g \in Functions : rest[g] <= skips[g]
    PROVE  Inv'
<1> USE DEF Inv
<1>1. \A g \in Functions : /\ Answers(batch, g) \in Nat
                           /\ g \notin Cancelled(batch) => Answers(batch, g) = 0
    BY AnswersNat
<1>2. /\ Cancelled(batch) \subseteq waiting
      /\ Kept(batch) = waiting \ Cancelled(batch)
      /\ Ready(batch) \subseteq Kept(batch)
    BY DEF Cancelled, Kept, Ready
<1>3. /\ waiting' = Kept(batch) \ Ready(batch)
      /\ running' = left \cup Ready(batch)
      /\ skips' = [g \in Functions |-> rest[g] + Answers(batch, g)]
      /\ starts' = [g \in Functions |->
                      IF g \in Ready(batch) THEN starts[g] + 1 ELSE starts[g]]
    BY DEF Deliver
<1>4. LifeInv'
    <2>1. waiting' \subseteq Functions /\ running' \subseteq Functions
        BY <1>2, <1>3 DEF LifeInv
    <2>2. starts' \in [Functions -> {0, 1}]
        BY <1>2, <1>3 DEF LifeInv
    <2>3. skips' \in [Functions -> Nat]
        BY <1>1, <1>3
    <2>4. ASSUME NEW f \in Functions
          PROVE  /\ f \in waiting' => starts'[f] = 0 /\ skips'[f] = 0
                 /\ f \in running' => starts'[f] = 1 /\ f \notin waiting'
                 /\ skips'[f] > 0 => starts'[f] = 0
        <3>1. CASE f \in waiting
            BY <1>1, <1>2, <1>3, <3>1 DEF LifeInv
        <3>2. CASE f \notin waiting
            BY <1>1, <1>2, <1>3, <3>2 DEF LifeInv
        <3> QED
            BY <3>1, <3>2
    <2> QED
        BY <2>1, <2>2, <2>3, <2>4 DEF LifeInv
<1>5. MissingInv'
    BY DEF Deliver, MissingInv, Inputs
<1> QED
    BY <1>4, <1>5

LEMMA NextInv ==
    ASSUME Inv, [Next]_vars
    PROVE  Inv'
<1>1. CASE Build
    BY <1>1, BuildInv
<1>2. CASE End
    BY <1>2 DEF Inv, LifeInv, MissingInv, End, Loop, state, Inputs
<1>3. ASSUME NEW f \in Functions, Return(f)
      PROVE  Inv'
    <2>1. PICK values : Deliver(Arriving(f, values), running \ {f}, skips)
        BY <1>3 DEF Return
    <2> QED
        BY <1>3, <2>1, DeliverInv DEF Return, Loop, Inv, LifeInv
<1>4. ASSUME NEW f \in Functions, Skip(f)
      PROVE  Inv'
    <2> DEFINE rest == [skips EXCEPT ![f] = @ - 1]
    <2>1. rest \in [Functions -> Nat] /\ \A g \in Functions : rest[g] <= skips[g]
        BY <1>4 DEF Skip, Inv, LifeInv
    <2>2. PICK batch : Deliver(batch, running, rest)
        BY <1>4 DEF Skip
    <2> HIDE DEF rest
    <2>3. phase # "called" /\ UNCHANGED <<comp, phase>>
        BY <1>4 DEF Skip, Loop
    <2> QED
        BY <2>1, <2>2, <2>3, DeliverInv
<1>5. ASSUME NEW f \in Functions, Fail(f)
      PROVE  Inv'
    BY <1>5 DEF Inv, LifeInv, MissingInv, Fail, Loop, state, Inputs
<1>6. CASE UNCHANGED vars
    BY <1>6 DEF Inv, LifeInv, MissingInv, vars, state, Inputs
<1> QED
    BY <1>1, <1>2, <1>3, <1>4, <1>5, <1>6 DEF Next

LEMMA InvariantLemma == Spec => []Inv
BY InitInv, NextInv, PTL DEF Spec

(* A function is started at most once, and never after it was skipped,     *)
(* whatever sets arrive, how often and in which order.                     *)
THEOREM NoFunctionStartsTwice == Spec => []StartedOnce
<1>1. Inv => StartedOnce
    BY DEF Inv, LifeInv, StartedOnce
<1> QED
    BY InvariantLemma, <1>1, PTL

-----------------------------------------------------------------------------
(* What follows is about compositions in which every set has one source.   *)
AllWellDefined == \A c \in Compositions, passed \in Given : WellDefined(c, passed)

(* The variables that only record or hand on data. *)
DataInv ==
    /\ \E passed \in Given : given \in [passed -> {Empty, Caller}]
    /\ DOMAIN outs = comp.returns
    /\ DOMAIN args = Functions
    /\ phase # "called" => \A f \in Functions : DOMAIN args[f] = Inputs(f)
    /\ phase = "called" => \A f \in Functions : returned[f] = Absent
    /\ phase = "ok" => running = {} /\ \A f \in Functions : skips[f] = 0
    /\ DOMAIN returned = Functions
    /\ \A f \in Functions :
        /\ returned[f] # Absent => returned[f] \in Seq({Empty, f}) /\ starts[f] = 1
        /\ starts[f] = 1 => (f \in running <=> returned[f] = Absent)

(* A function that waits or was started holds, for the inputs it does not  *)
(* miss, what the composition says.  Only functions that wait miss some.   *)
ArgsInv ==
    phase # "called" =>
        \A g \in Functions :
            /\ starts[g] = 1 => missing[g] = {}
            /\ g \in waiting => missing[g] # {}
            /\ g \in waiting \/ starts[g] = 1 =>
                \A i \in Inputs(g) \ missing[g] :
                    /\ args[g][i] = Held(In(g, i).set)
                    /\ args[g][i] # Absent
                    /\ ~In(g, i).optional => args[g][i] # Empty

(* A function that neither waits nor was started is skipped, for an empty  *)
(* input.                                                                  *)
SkippedInv ==
    phase # "called" =>
        \A g \in Functions \ waiting : starts[g] = 0 =>
            \E i \in Inputs(g) : ~In(g, i).optional /\ Held(In(g, i).set) = Empty

(* Whatever a waiting function misses is still to come: the function that  *)
(* makes it waits, runs, or is about to hand on empty sets, unless it      *)
(* returned fewer sets than the composition names.                         *)
SourceInv ==
    phase # "called" =>
        \A g \in waiting : \A i \in missing[g] :
            /\ In(g, i).set \notin DOMAIN given
            /\ \A f \in Functions : \A j \in DOMAIN Outputs(f) :
                Outputs(f)[j] = In(g, i).set =>
                    \/ f \in waiting \cup running
                    \/ skips[f] > 0
                    \/ returned[f] # Absent /\ j \notin DOMAIN returned[f]

(* The result holds what the composition says, as far as this is decided.  *)
OutsInv ==
    \A s \in comp.returns :
        outs[s] = IF phase = "called" \/ Held(s) = Absent THEN Empty ELSE Held(s)

FlowInv == DataInv /\ ArgsInv /\ SkippedInv /\ SourceInv /\ OutsInv

(* A set of numbers that is not empty has a least one. *)
LEMMA LeastNumber ==
    ASSUME NEW S \in SUBSET Nat, S # {}
    PROVE  \E m \in S : \A n \in S : m <= n
<1> DEFINE R == OpToRel(<, Nat)
<1>1. IsWellFoundedOn(R, Nat)
    BY NatLessThanWellFounded, Zenon
<1>2. \A x, y \in Nat : x < y => <<x, y>> \in R
    BY DEF OpToRel
<1> HIDE DEF R
<1>3. PICK m \in S : \A n \in S : <<n, m>> \notin R
    BY <1>1, WFMin, Zenon
<1>4. ASSUME NEW n \in S
      PROVE  m <= n
    <2>1. ~(n < m)
        BY <1>2, <1>3, Zenon
    <2> QED
        BY <2>1
<1> QED
    BY <1>4

(* A cancelled function hands on its empty sets at least once. *)
LEMMA AnswersPositive ==
    ASSUME MissingInv, NEW batch, DOMAIN batch \subseteq Nat,
           NEW g \in Functions, g \in Cancelled(batch)
    PROVE  Answers(batch, g) > 0
<1> DEFINE S == {j \in DOMAIN batch : Blocked(batch, g, j) # {}}
           IsFirst(j) == /\ Blocked(batch, g, j) # {}
                         /\ \A k \in DOMAIN batch : k < j => Blocked(batch, g, k) = {}
           first == CHOOSE j \in DOMAIN batch : IsFirst(j)
<1>1. S \in SUBSET Nat /\ S # {}
    BY DEF Cancelled
<1>2. PICK m \in S : \A n \in S : m <= n
    BY <1>1, LeastNumber, ZenonT(60)
<1>3. m \in DOMAIN batch /\ IsFirst(m)
    BY <1>1, <1>2
<1>4. first \in DOMAIN batch /\ IsFirst(first)
    BY <1>3, ZenonT(60)
<1>5. Answers(batch, g) = Cardinality(Blocked(batch, g, first))
    BY DEF Answers
<1> HIDE DEF first, S
<1>6. IsFiniteSet(Inputs(g))
    BY FS_Interval DEF MissingInv, Inputs
<1>7. IsFiniteSet(Blocked(batch, g, first))
    BY <1>6, FS_Subset DEF MissingInv, Blocked, Hit
<1>8. Cardinality(Blocked(batch, g, first)) \in Nat /\ Cardinality(Blocked(batch, g, first)) # 0
    BY <1>4, <1>7, FS_CardinalityType, FS_EmptySet
<1> QED
    BY <1>5, <1>8

(* A set is made by one output of one function, and not passed as well. *)
LEMMA MadeOnce ==
    ASSUME AllWellDefined, MissingInv, DataInv,
           NEW f \in Functions, NEW j \in DOMAIN Outputs(f), Outputs(f)[j] # NoSet
    PROVE  /\ Outputs(f)[j] \in Sets
           /\ Outputs(f)[j] \notin DOMAIN given
           /\ \A g \in Functions : \A k \in DOMAIN Outputs(g) :
                  Outputs(f)[j] = Outputs(g)[k] => f = g /\ j = k
<1>1. PICK passed \in Given : given \in [passed -> {Empty, Caller}]
    BY DEF DataInv
<1>2. WellDefined(comp, passed)
    BY DEF AllWellDefined, MissingInv
<1>3. Outputs(f)[j] \in Sets
    BY DEF MissingInv, Outputs
<1>4. DOMAIN given = passed
    BY <1>1
<1>5. MadeOnceOnly(comp, passed)
    BY <1>2 DEF WellDefined
<1>6. Outputs(f)[j] \notin passed
    BY <1>5, ZenonT(60) DEF MadeOnceOnly, Outputs
<1>7. \A g \in Functions : \A k \in DOMAIN Outputs(g) :
          Outputs(f)[j] = Outputs(g)[k] => f = g /\ j = k
    BY <1>5 DEF MadeOnceOnly, Outputs
<1> QED
    BY <1>3, <1>4, <1>6, <1>7

(* Held follows the set to the one output that makes it, before and after  *)
(* a step of the loop.                                                     *)
LEMMA HeldMade ==
    ASSUME AllWellDefined, MissingInv, DataInv, UNCHANGED <<comp, given>>,
           NEW f \in Functions, NEW j \in DOMAIN Outputs(f), Outputs(f)[j] # NoSet
    PROVE  /\ Held(Outputs(f)[j]) = Made(f, j)
           /\ Held(Outputs(f)[j])' = Made(f, j)'
<1> DEFINE s == Outputs(f)[j]
<1>1. /\ s \notin DOMAIN given
      /\ \A g \in Functions : \A k \in DOMAIN Outputs(g) :
             s = Outputs(g)[k] => f = g /\ j = k
    BY MadeOnce, Zenon
<1>2. Produces(f, s) /\ \A g \in Functions : Produces(g, s) => g = f
    BY <1>1, Zenon DEF Produces
<1>3. Maker(s) = f
    BY <1>2, Zenon DEF Maker
<1>4. OutputFor(f, s) = j
    BY <1>1, Zenon DEF OutputFor
<1>5. s' = s /\ Outputs(f)' = Outputs(f) /\ \A g : Produces(g, s)' <=> Produces(g, s)
    BY DEF Produces, Outputs
<1>6. Maker(s)' = f
    BY <1>2, <1>5, Zenon DEF Maker
<1>7. OutputFor(f, s)' = j
    BY <1>1, <1>5, Zenon DEF OutputFor
<1>8. Held(s) = Made(Maker(s), OutputFor(Maker(s), s))
    BY <1>1, <1>2, ZenonT(60) DEF Held
<1>9. Held(s)' = Made(Maker(s), OutputFor(Maker(s), s))'
    BY <1>1, <1>2, <1>5, ZenonT(60) DEF Held
<1> HIDE DEF s
<1>10. Held(s) = Made(f, j)
    BY <1>3, <1>4, <1>8, Zenon
<1>11. Held(s)' = Made(f, j)'
    BY <1>6, <1>7, <1>9, ZenonT(60) DEF Made
<1> QED
    BY <1>10, <1>11, Zenon DEF s

(* A turn of the loop: function f returns values, or hands on nothing for  *)
(* each of its outputs because it was skipped.                             *)
Answered(f, values, left, rest) ==
    /\ phase = "waiting" /\ UNCHANGED <<comp, given, phase>>
    /\ DOMAIN values \subseteq DOMAIN Outputs(f)
    /\ Deliver(Arriving(f, values), left, rest)
    /\ \/ /\ f \in running /\ values \in Seq({Empty, f})
          /\ returned' = [returned EXCEPT ![f] = values]
          /\ left = running \ {f} /\ rest = skips
       \/ /\ skips[f] > 0 /\ values = [j \in DOMAIN Outputs(f) |-> Empty]
          /\ returned' = returned
          /\ left = running /\ rest = [skips EXCEPT ![f] = @ - 1]

LEMMA AnsweredInv ==
    ASSUME Inv, NEW f \in Functions, NEW values, NEW left, NEW rest,
           Answered(f, values, left, rest)
    PROVE  Inv'
<1>1. left \subseteq running /\ rest \in [Functions -> Nat]
      /\ \A g \in Functions : rest[g] <= skips[g]
    BY DEF Answered, Inv, LifeInv
<1>2. phase # "called" /\ UNCHANGED <<comp, phase>>
      /\ Deliver(Arriving(f, values), left, rest)
    BY DEF Answered
<1> QED
    BY <1>1, <1>2, DeliverInv

(* The sets that arrive are those that f makes, each of them once, so that *)
(* there is no first or last of them.                                      *)
BatchOf(batch, f, values) ==
    /\ DOMAIN batch = {j \in DOMAIN values : Outputs(f)[j] # NoSet}
    /\ \A j \in DOMAIN batch :
        /\ batch[j].set = Outputs(f)[j] /\ batch[j].value = values[j]
        /\ Places(batch, Outputs(f)[j]) = {j}
        /\ First(batch, Outputs(f)[j]) = values[j]
        /\ Last(batch, Outputs(f)[j]) = values[j]
        /\ \A g, i : i \in Hit(batch, g, j) <=> i \in missing[g] /\ In(g, i).set = Outputs(f)[j]

LEMMA BatchFacts ==
    ASSUME AllWellDefined, MissingInv, DataInv,
           NEW f \in Functions, NEW values, DOMAIN values \subseteq DOMAIN Outputs(f)
    PROVE  BatchOf(Arriving(f, values), f, values)
<1> DEFINE batch == Arriving(f, values)
<1>1. DOMAIN batch = {j \in DOMAIN values : Outputs(f)[j] # NoSet}
    BY DEF Arriving
<1>2. \A j \in DOMAIN batch : batch[j].set = Outputs(f)[j] /\ batch[j].value = values[j]
    BY DEF Arriving
<1> HIDE DEF batch
<1>3. ASSUME NEW j \in DOMAIN batch
      PROVE  /\ Places(batch, Outputs(f)[j]) = {j}
             /\ First(batch, Outputs(f)[j]) = values[j]
             /\ Last(batch, Outputs(f)[j]) = values[j]
             /\ \A g, i : i \in Hit(batch, g, j) <=> i \in missing[g] /\ In(g, i).set = Outputs(f)[j]
    <2>1. j \in DOMAIN Outputs(f) /\ Outputs(f)[j] # NoSet /\ DOMAIN batch \subseteq DOMAIN Outputs(f)
        BY <1>1
    <2>2. \A k \in DOMAIN Outputs(f) : Outputs(f)[j] = Outputs(f)[k] => j = k
        BY <2>1, MadeOnce
    <2>3. j \in Nat
        BY <2>1 DEF MissingInv, Outputs
    <2>4. \A k \in DOMAIN batch : batch[k].set = Outputs(f)[j] => k = j
        BY <1>2, <2>1, <2>2
    <2>5. Places(batch, Outputs(f)[j]) = {j}
        BY <1>2, <2>4 DEF Places
    <2>6. First(batch, Outputs(f)[j]) = values[j] /\ Last(batch, Outputs(f)[j]) = values[j]
        BY <1>2, <2>3, <2>5 DEF First, Last
    <2>7. \A g, i : i \in Hit(batch, g, j) <=> i \in missing[g] /\ In(g, i).set = Outputs(f)[j]
        BY <1>2, <2>3, <2>4 DEF Hit
    <2> QED
        BY <2>5, <2>6, <2>7
<1> QED
    BY <1>1, <1>2, <1>3, Zenon DEF batch, BatchOf

(* In a turn a function leaves the waiting ones for good, to run or to be  *)
(* skipped.                                                                *)
LEMMA LifeFacts ==
    ASSUME Inv, NEW f \in Functions, NEW values, NEW left, NEW rest,
           Answered(f, values, left, rest), NEW g \in Functions
    PROVE  /\ g \in waiting' => g \in waiting
           /\ g \notin waiting => starts'[g] = starts[g]
           /\ g \in waiting \ waiting' =>
                  \/ g \in Ready(Arriving(f, values)) /\ starts'[g] = 1
                  \/ g \in Cancelled(Arriving(f, values)) /\ starts'[g] = 0
           /\ g \in waiting' => g \in Kept(Arriving(f, values)) /\ starts'[g] = 0
           /\ starts'[g] = 1 <=> starts[g] = 1 \/ g \in Ready(Arriving(f, values))
BY DEF Answered, Deliver, Kept, Ready, Inv, LifeInv

(* What is made stays; f makes what it answers; of the others a turn can   *)
(* only decide that they make nothing.                                     *)
LEMMA MadeStep ==
    ASSUME Inv, DataInv, NEW f \in Functions, NEW values, NEW left, NEW rest,
           Answered(f, values, left, rest), NEW g \in Functions, NEW j
    PROVE  /\ Made(g, j) # Absent => Made(g, j)' = Made(g, j)
           /\ Made(g, j)' \in {Made(g, j), Empty} \/ (g = f /\ j \in DOMAIN values)
           /\ j \in DOMAIN values => Made(f, j)' = values[j] /\ values[j] # Absent
<1>1. \A h \in Functions : /\ h \in waiting' => h \in waiting
                           /\ h \notin waiting => starts'[h] = starts[h]
    BY LifeFacts
<1>2. CASE f \in running
    <2>1. /\ values \in Seq({Empty, f}) /\ returned' = [returned EXCEPT ![f] = values]
          /\ phase' = phase /\ phase = "waiting"
        BY <1>2 DEF Answered, Inv, LifeInv
    <2>2. starts[f] = 1 /\ returned[f] = Absent
        BY <1>2, ZenonT(60) DEF Inv, LifeInv, DataInv
    <2>3. values # Absent /\ (j \in DOMAIN values => values[j] # Absent)
        <3>1. values \in Seq({Empty} \cup Functions)
            BY <2>1
        <3> QED
            BY <2>1, <3>1
    <2>4. returned'[f] = values /\ \A h \in Functions \ {f} : returned'[h] = returned[h]
        BY <2>1 DEF DataInv
    <2> QED
        BY <1>1, <2>1, <2>2, <2>3, <2>4 DEF Made, DataInv
<1>3. CASE f \notin running
    <2>1. /\ skips[f] > 0 /\ values = [i \in DOMAIN Outputs(f) |-> Empty]
          /\ returned' = returned /\ phase' = phase /\ phase = "waiting"
        BY <1>3 DEF Answered
    <2>2. starts[f] = 0 /\ f \notin waiting /\ returned[f] = Absent
        <3>1. starts[f] = 0 /\ f \notin waiting
            BY <2>1 DEF Inv, LifeInv
        <3>2. starts[f] # 1
            BY <3>1
        <3> QED
            BY <3>1, <3>2, ZenonT(60) DEF DataInv
    <2>3. starts'[f] = 0 /\ f \notin waiting'
        BY <1>1, <2>2
    <2>4. ASSUME NEW i \in DOMAIN values
          PROVE  Made(f, i)' = values[i] /\ values[i] # Absent
        <3>1. values[i] = Empty
            BY <2>1, <2>4, ZenonT(60)
        <3> QED
            BY <2>1, <2>2, <2>3, <3>1 DEF Made
    <2>5. /\ Made(g, j) # Absent => Made(g, j)' = Made(g, j)
          /\ Made(g, j)' \in {Made(g, j), Empty}
        BY <1>1, <2>1, ZenonT(60) DEF Made
    <2> QED
        BY <2>4, <2>5
<1> QED
    BY <1>2, <1>3

(* The same for the sets. *)
LEMMA HeldStep ==
    ASSUME AllWellDefined, Inv, DataInv, NEW f \in Functions, NEW values, NEW left, NEW rest,
           Answered(f, values, left, rest)
    PROVE  /\ \A s \in Sets :
                  /\ Held(s) # Absent => Held(s)' = Held(s)
                  /\ \/ Held(s)' \in {Held(s), Empty}
                     \/ \E j \in DOMAIN values : s = Outputs(f)[j]
           /\ \A j \in DOMAIN values : Outputs(f)[j] # NoSet =>
                  /\ Outputs(f)[j] \in Sets
                  /\ Held(Outputs(f)[j])' = values[j]
                  /\ values[j] # Absent
<1> USE DEF Inv
<1>1. UNCHANGED <<comp, given>> /\ DOMAIN values \subseteq DOMAIN Outputs(f)
    BY DEF Answered
<1>2. ASSUME NEW s \in Sets
      PROVE  /\ Held(s) # Absent => Held(s)' = Held(s)
             /\ \/ Held(s)' \in {Held(s), Empty}
                \/ \E j \in DOMAIN values : s = Outputs(f)[j]
    <2>1. CASE s \in DOMAIN given \/ \A g \in Functions : ~Produces(g, s)
        <3>1. \A g \in Functions : Produces(g, s)' <=> Produces(g, s)
            BY <1>1, ZenonT(60) DEF Produces, Outputs
        <3> QED
            BY <1>1, <2>1, <3>1, ZenonT(60) DEF Held
    <2>2. ASSUME NEW g \in Functions, NEW j \in DOMAIN Outputs(g), s = Outputs(g)[j]
          PROVE  /\ Held(s) # Absent => Held(s)' = Held(s)
                 /\ \/ Held(s)' \in {Held(s), Empty}
                    \/ \E k \in DOMAIN values : s = Outputs(f)[k]
        <3>1. Held(s) = Made(g, j) /\ Held(Outputs(g)[j])' = Made(g, j)'
            BY <1>1, <2>2, HeldMade
        <3>2. Outputs(g)'[j] = s
            BY <1>1, <2>2, ZenonT(60) DEF Outputs
        <3>3. Held(s)' = Made(g, j)'
            BY <3>1, <3>2, ZenonT(60)
        <3> QED
            BY <2>2, <3>1, <3>3, MadeStep
    <2> QED
        BY <2>1, <2>2, ZenonT(60) DEF Produces
<1>3. ASSUME NEW j \in DOMAIN values, Outputs(f)[j] # NoSet
      PROVE  /\ Outputs(f)[j] \in Sets
             /\ Held(Outputs(f)[j])' = values[j]
             /\ values[j] # Absent
    BY <1>1, <1>3, HeldMade, MadeOnce, MadeStep
<1> QED
    BY <1>2, <1>3

(* An input is described by a set and a flag. *)
LEMMA InTyped ==
    ASSUME MissingInv, NEW g \in Functions, NEW i \in Inputs(g)
    PROVE  In(g, i) \in [set : Sets, optional : BOOLEAN]
<1>1. comp.inputs[g] \in Seq([set : Sets, optional : BOOLEAN])
    BY Zenon DEF MissingInv
<1> DEFINE T == [set : Sets, optional : BOOLEAN]
<1> HIDE DEF T
<1> QED
    <2>1. comp.inputs[g] \in Seq(T) => \A k \in DOMAIN comp.inputs[g] : comp.inputs[g][k] \in T
        OBVIOUS
    <2> QED
        BY <1>1, <2>1, ZenonT(60) DEF In, Inputs, T

(* A missing input is served if f answers the set that it is for, with     *)
(* what this set holds from now on.                                        *)
Served(batch, f, values, g) ==
    /\ \A i \in Got(batch, g) : i \in missing[g] /\ \E j \in DOMAIN values :
           /\ Outputs(f)[j] = In(g, i).set
           /\ First(batch, In(g, i).set) = Held(In(g, i).set)'
           /\ Held(In(g, i).set)' # Absent
           /\ g \in waiting \ Cancelled(batch) => ~Blocks(g, i, Held(In(g, i).set)')
    /\ \A i \in missing[g], j \in DOMAIN values :
           Outputs(f)[j] = In(g, i).set => i \in Got(batch, g)
    /\ g \in Cancelled(batch) => \E i \in missing[g] :
           ~In(g, i).optional /\ Held(In(g, i).set)' = Empty

LEMMA ServedFacts ==
    ASSUME AllWellDefined, Inv, DataInv, NEW f \in Functions, NEW values, NEW left, NEW rest,
           Answered(f, values, left, rest), NEW g \in Functions
    PROVE  Served(Arriving(f, values), f, values, g)
<1> DEFINE batch == Arriving(f, values)
<1> HIDE DEF batch
<1> USE DEF Inv
<1>1. DOMAIN values \subseteq DOMAIN Outputs(f) /\ UNCHANGED <<comp, given>>
    BY DEF Answered
<1>2. BatchOf(batch, f, values)
    BY <1>1, BatchFacts, ZenonT(60) DEF batch
<1>3. \A j \in DOMAIN batch : Held(Outputs(f)[j])' = values[j] /\ values[j] # Absent
    BY <1>2, HeldStep DEF BatchOf
<1>4. \A i \in missing[g] : In(g, i).set \in Sets /\ In(g, i)' = In(g, i)
    <2>1. \A i \in missing[g] : In(g, i) \in [set : Sets, optional : BOOLEAN]
        BY InTyped DEF MissingInv
    <2>2. \A i : In(g, i)' = In(g, i)
        BY <1>1 DEF In
    <2> QED
        BY <2>1, <2>2
<1>5. \A j \in DOMAIN batch : Outputs(f)[j]' = Outputs(f)[j]
    BY <1>1, ZenonT(60) DEF Outputs
<1>6. ASSUME NEW i \in Got(batch, g)
      PROVE  i \in missing[g] /\ \E j \in DOMAIN values :
                  /\ Outputs(f)[j] = In(g, i).set
                  /\ First(batch, In(g, i).set) = Held(In(g, i).set)'
                  /\ Held(In(g, i).set)' # Absent
                  /\ g \in waiting \ Cancelled(batch) => ~Blocks(g, i, Held(In(g, i).set)')
    <2>1. PICK j \in DOMAIN batch : i \in Hit(batch, g, j)
        BY ZenonT(60) DEF Got
    <2>2. i \in missing[g] /\ In(g, i).set = Outputs(f)[j]
        BY <1>2, <2>1 DEF BatchOf
    <2>3. Held(In(g, i).set)' = values[j]
        BY <1>3, <1>4, <1>5, <2>2, ZenonT(60)
    <2>4. g \in waiting \ Cancelled(batch) => ~Blocks(g, i, values[j])
        BY <1>2, <2>1 DEF BatchOf, Cancelled, Blocked
    <2> QED
        BY <1>2, <1>3, <2>2, <2>3, <2>4 DEF BatchOf
<1>7. ASSUME NEW i \in missing[g], NEW j \in DOMAIN values, Outputs(f)[j] = In(g, i).set
      PROVE  i \in Got(batch, g)
    <2>1. j \in DOMAIN batch
        BY <1>2, <1>4, <1>7 DEF BatchOf
    <2>2. i \in Hit(batch, g, j)
        BY <1>2, <1>7, <2>1, ZenonT(60) DEF BatchOf
    <2> QED
        BY <2>1, <2>2, ZenonT(60) DEF Got
<1>8. ASSUME g \in Cancelled(batch)
      PROVE  \E i \in missing[g] : ~In(g, i).optional /\ Held(In(g, i).set)' = Empty
    <2>1. PICK j \in DOMAIN batch : Blocked(batch, g, j) # {}
        BY <1>8, ZenonT(60) DEF Cancelled
    <2>2. PICK i \in Hit(batch, g, j) : Blocks(g, i, batch[j].value)
        BY <2>1, ZenonT(60) DEF Blocked
    <2>3. i \in missing[g] /\ In(g, i).set = Outputs(f)[j]
        BY <1>2, <2>2 DEF BatchOf
    <2>4. Held(In(g, i).set)' = values[j]
        BY <1>3, <1>4, <1>5, <2>3
    <2> QED
        BY <1>2, <2>2, <2>3, <2>4, ZenonT(60) DEF BatchOf, Blocks
<1> QED
    BY <1>6, <1>7, <1>8, ZenonT(60) DEF batch, Served

LEMMA DataStep ==
    ASSUME Inv, DataInv, NEW f \in Functions, NEW values, NEW left, NEW rest,
           Answered(f, values, left, rest)
    PROVE  DataInv'
<1> DEFINE batch == Arriving(f, values)
<1> HIDE DEF batch
<1>1. /\ UNCHANGED <<comp, given, phase>> /\ phase = "waiting"
      /\ Deliver(batch, left, rest)
    BY ZenonT(60) DEF Answered, batch
<1>2. DOMAIN outs' = DOMAIN outs /\ DOMAIN args' = Functions
      /\ \A g \in Functions : DOMAIN args'[g] = DOMAIN args[g]
    BY <1>1, ZenonT(60) DEF Deliver
<1>3. running' = left \cup Ready(batch) /\ Ready(batch) \subseteq waiting
    BY <1>1 DEF Deliver, Ready, Kept
<1>4. \A g \in Functions : starts'[g] = 1 <=> starts[g] = 1 \/ g \in Ready(batch)
    BY LifeFacts DEF batch
<1>5. \A g \in waiting : starts[g] = 0 /\ returned[g] = Absent /\ g \notin running
    <2>1. \A g \in waiting : g \in Functions /\ starts[g] = 0 /\ starts[g] # 1 /\ g \notin running
        BY DEF Inv, LifeInv
    <2> QED
        BY <2>1, ZenonT(60) DEF DataInv
<1>6. DOMAIN returned' = Functions
      /\ \A g \in Functions :
          /\ returned'[g] # Absent => returned'[g] \in Seq({Empty, g}) /\ starts'[g] = 1
          /\ starts'[g] = 1 => (g \in running' <=> returned'[g] = Absent)
    <2>1. CASE f \in running
        <3>1. /\ values \in Seq({Empty, f}) /\ returned' = [returned EXCEPT ![f] = values]
              /\ left = running \ {f}
            BY <2>1 DEF Answered, Inv, LifeInv
        <3>2. starts[f] = 1 /\ f \notin waiting
            BY <2>1 DEF Inv, LifeInv
        <3>3. values # Absent
            <4>1. values \in Seq({Empty} \cup Functions)
                BY <3>1
            <4> QED
                BY <4>1
        <3>4. returned'[f] = values /\ \A g \in Functions \ {f} : returned'[g] = returned[g]
            BY <3>1 DEF DataInv
        <3>5. DOMAIN returned' = Functions
            BY <3>1 DEF DataInv
        <3> QED
            BY <1>3, <1>4, <1>5, <3>1, <3>2, <3>3, <3>4, <3>5, ZenonT(60) DEF DataInv
    <2>2. CASE f \notin running
        <3>1. returned' = returned /\ left = running
            BY <2>2, ZenonT(60) DEF Answered
        <3> QED
            BY <1>3, <1>4, <1>5, <3>1, ZenonT(60) DEF DataInv
    <2> QED
        BY <2>1, <2>2, ZenonT(60)
<1> QED
    BY <1>1, <1>2, <1>6, ZenonT(60) DEF DataInv, Inputs

LEMMA ArgsStep ==
    ASSUME AllWellDefined, Inv, DataInv, ArgsInv,
           NEW f \in Functions, NEW values, NEW left, NEW rest,
           Answered(f, values, left, rest)
    PROVE  ArgsInv'
<1> DEFINE batch == Arriving(f, values)
<1> HIDE DEF batch
<1>1. /\ UNCHANGED <<comp, given, phase>> /\ phase = "waiting"
      /\ Deliver(batch, left, rest)
    BY ZenonT(60) DEF Answered, batch
<1>2. \A g \in Functions :
          /\ g \notin waiting => starts'[g] = starts[g]
          /\ g \in waiting' => g \in Kept(batch) /\ starts'[g] = 0
          /\ starts'[g] = 1 <=> starts[g] = 1 \/ g \in Ready(batch)
    BY LifeFacts DEF batch
<1>3. \A g \in Functions : Inputs(g)' = Inputs(g) /\ \A i : In(g, i)' = In(g, i)
    BY <1>1 DEF Inputs, In
<1>4. /\ waiting' = Kept(batch) \ Ready(batch)
      /\ Kept(batch) = waiting \ Cancelled(batch)
      /\ \A g \in Ready(batch) : g \in Kept(batch) /\ missing[g] \subseteq Got(batch, g)
      /\ \A g \in Kept(batch) : missing[g] \subseteq Got(batch, g) => g \in Ready(batch)
    BY <1>1, ZenonT(60) DEF Deliver, Kept, Ready
<1>5. ASSUME NEW g \in Functions
      PROVE  /\ missing'[g] = IF g \in Kept(batch) THEN missing[g] \ Got(batch, g) ELSE missing[g]
             /\ \A i \in Inputs(g) :
                    args'[g][i] = IF g \in Kept(batch) /\ i \in Got(batch, g)
                                  THEN First(batch, In(g, i).set) ELSE args[g][i]
    BY <1>1, ZenonT(60) DEF Deliver, DataInv
<1>6. \A g \in Functions : starts[g] = 1 => g \notin waiting
    BY DEF Inv, LifeInv
<1>7. ASSUME NEW g \in Functions
      PROVE  /\ starts'[g] = 1 => missing'[g] = {}
             /\ g \in waiting' => missing'[g] # {}
    <2>1. g \in Ready(batch) => missing'[g] = {}
        BY <1>4, <1>5, ZenonT(60)
    <2>2. g \notin waiting => missing'[g] = missing[g]
        BY <1>4, <1>5, ZenonT(60)
    <2>3. starts[g] = 1 => missing[g] = {}
        BY <1>1 DEF ArgsInv
    <2>4. g \in waiting' => missing'[g] # {}
        BY <1>4, <1>5, ZenonT(60)
    <2> QED
        BY <1>2, <1>6, <2>1, <2>2, <2>3, <2>4
<1>8. ASSUME NEW g \in Functions, g \in waiting' \/ starts'[g] = 1,
             NEW i \in Inputs(g) \ missing'[g]
      PROVE  /\ args'[g][i] = Held(In(g, i).set)'
             /\ args'[g][i] # Absent
             /\ ~In(g, i).optional => args'[g][i] # Empty
    <2>1. CASE i \in missing[g]
        <3>1. g \in Kept(batch) /\ i \in Got(batch, g)
            BY <1>5, <1>8, <2>1, ZenonT(60)
        <3>2. args'[g][i] = First(batch, In(g, i).set)
            BY <1>5, <3>1, ZenonT(60)
        <3>3. Served(batch, f, values, g)
            BY ServedFacts, ZenonT(60) DEF batch
        <3> QED
            BY <1>4, <3>1, <3>2, <3>3, ZenonT(60) DEF Served, Blocks
    <2>2. CASE i \notin missing[g]
        <3>1. g \in waiting \/ starts[g] = 1
            BY <1>2, <1>4, <1>8, ZenonT(60)
        <3>2. /\ args[g][i] = Held(In(g, i).set)
              /\ args[g][i] # Absent
              /\ ~In(g, i).optional => args[g][i] # Empty
            BY <1>1, <2>2, <3>1 DEF ArgsInv
        <3>3. i \notin Got(batch, g)
            BY <2>2 DEF Got, Hit
        <3>4. args'[g][i] = args[g][i]
            BY <1>5, <3>3, ZenonT(60)
        <3>5. In(g, i).set \in Sets
            BY InTyped, ZenonT(60) DEF Inv
        <3>6. Held(In(g, i).set)' = Held(In(g, i).set)
            BY <1>3, <3>2, <3>5, HeldStep, ZenonT(60)
        <3> QED
            BY <3>2, <3>4, <3>6, ZenonT(60)
    <2> QED
        BY <2>1, <2>2
<1> QED
    BY <1>3, <1>7, <1>8 DEF ArgsInv

LEMMA SkippedStep ==
    ASSUME AllWellDefined, Inv, DataInv, SkippedInv,
           NEW f \in Functions, NEW values, NEW left, NEW rest,
           Answered(f, values, left, rest)
    PROVE  SkippedInv'
<1> SUFFICES ASSUME NEW g \in Functions \ waiting', starts'[g] = 0
             PROVE  \E i \in Inputs(g)' : ~In(g, i)'.optional /\ Held(In(g, i).set)' = Empty
    BY DEF SkippedInv
<1>1. UNCHANGED <<comp, given, phase>> /\ phase = "waiting"
    BY DEF Answered
<1>2. Inputs(g)' = Inputs(g) /\ \A i : In(g, i)' = In(g, i)
    BY <1>1 DEF Inputs, In
<1>3. CASE g \notin waiting
    <2>1. starts[g] = 0
        BY <1>3, LifeFacts
    <2>2. PICK i \in Inputs(g) : ~In(g, i).optional /\ Held(In(g, i).set) = Empty
        BY <1>1, <1>3, <2>1 DEF SkippedInv
    <2>3. In(g, i).set \in Sets
        BY InTyped, ZenonT(60) DEF Inv
    <2>4. Held(In(g, i).set)' = Empty
        BY <1>2, <2>2, <2>3, HeldStep
    <2> QED
        BY <1>2, <2>2, <2>4, ZenonT(60)
<1>4. CASE g \in waiting
    <2>1. g \in Cancelled(Arriving(f, values))
        BY <1>4, LifeFacts
    <2>2. Served(Arriving(f, values), f, values, g)
        BY ServedFacts
    <2>3. missing[g] \subseteq Inputs(g)
        BY ZenonT(60) DEF Inv, MissingInv
    <2> QED
        BY <1>2, <2>1, <2>2, <2>3, ZenonT(60) DEF Served
<1> QED
    BY <1>3, <1>4, ZenonT(60)

LEMMA SourceStep ==
    ASSUME AllWellDefined, Inv, DataInv, SourceInv,
           NEW f \in Functions, NEW values, NEW left, NEW rest,
           Answered(f, values, left, rest)
    PROVE  SourceInv'
<1> DEFINE batch == Arriving(f, values)
<1> HIDE DEF batch
<1>1. /\ UNCHANGED <<comp, given, phase>> /\ phase = "waiting"
      /\ Deliver(batch, left, rest) /\ DOMAIN values \subseteq DOMAIN Outputs(f)
    BY DEF Answered, batch
<1>2. \A g : Outputs(g)' = Outputs(g) /\ \A i : In(g, i)' = In(g, i)
    BY <1>1 DEF Outputs, In
<1>3. /\ running' = left \cup Ready(batch)
      /\ waiting' \subseteq Kept(batch) /\ waiting' \subseteq Functions
      /\ \A h \in Functions : skips'[h] = rest[h] + Answers(batch, h)
      /\ \A g \in Kept(batch) : g \in Functions /\ missing'[g] = missing[g] \ Got(batch, g)
      /\ Kept(batch) \subseteq waiting
    BY <1>1, ZenonT(60) DEF Deliver, Kept, Inv, LifeInv
<1>4. DOMAIN batch \subseteq Nat
    <2>1. DOMAIN batch \subseteq DOMAIN values
        BY DEF batch, Arriving
    <2>2. DOMAIN Outputs(f) \subseteq Nat
        BY DEF Inv, MissingInv, Outputs
    <2> QED
        BY <1>1, <2>1, <2>2
<1>5. \A h \in Functions : /\ Answers(batch, h) \in Nat
                           /\ h \in Cancelled(batch) => Answers(batch, h) > 0
                           /\ rest[h] \in Nat
    <2>1. \A h \in Functions : rest[h] \in Nat
        BY DEF Answered, Inv, LifeInv
    <2> QED
        BY <1>4, <2>1, AnswersNat, AnswersPositive, ZenonT(60) DEF Inv
<1>6. ASSUME NEW g \in waiting', NEW i \in missing'[g], NEW h \in Functions,
             NEW j \in DOMAIN Outputs(h), Outputs(h)[j] = In(g, i).set
      PROVE  \/ h \in waiting' \cup running'
             \/ skips'[h] > 0
             \/ returned'[h] # Absent /\ j \notin DOMAIN returned'[h]
    <2>1. g \in Functions /\ g \in waiting /\ i \in missing[g] /\ i \notin Got(batch, g)
        BY <1>3
    <2>2. h = f => j \notin DOMAIN values
        BY <1>6, <2>1, ServedFacts, ZenonT(60) DEF batch, Served
    <2>3. CASE h \in waiting
        <3>1. h \in waiting' \/ h \in Ready(batch) \/ h \in Cancelled(batch)
            BY <2>3, LifeFacts, ZenonT(60) DEF batch
        <3>2. h \in Cancelled(batch) => skips'[h] > 0
            BY <1>3, <1>5
        <3> QED
            BY <1>3, <3>1, <3>2, ZenonT(60)
    <2>4. CASE skips[h] > 0
        <3>1. rest[h] > 0
            BY <2>2, <2>4, ZenonT(60) DEF Answered, Inv, LifeInv
        <3> QED
            BY <1>3, <1>5, <3>1
    <2>5. CASE h \in running
        <3>1. CASE h \in left
            BY <1>3, <3>1, ZenonT(60)
        <3>2. CASE h \notin left
            <4>1. h = f /\ values \in Seq({Empty, f}) /\ returned' = [returned EXCEPT ![f] = values]
                BY <2>5, <3>2, ZenonT(60) DEF Answered
            <4>2. values \in Seq({Empty} \cup Functions)
                BY <4>1
            <4>3. returned'[f] = values /\ values # Absent
                BY <4>1, <4>2 DEF DataInv
            <4> QED
                BY <2>2, <4>1, <4>3, ZenonT(60)
        <3> QED
            BY <3>1, <3>2, ZenonT(60)
    <2>6. CASE returned[h] # Absent /\ j \notin DOMAIN returned[h]
        <3>1. h \notin running
            BY <2>6, ZenonT(60) DEF DataInv
        <3>2. returned'[h] = returned[h]
            BY <3>1, ZenonT(60) DEF Answered, DataInv
        <3> QED
            BY <2>6, <3>2
    <2> QED
        BY <1>1, <1>6, <2>1, <2>3, <2>4, <2>5, <2>6, ZenonT(60) DEF SourceInv
<1>7. ASSUME NEW g \in waiting', NEW i \in missing'[g]
      PROVE  In(g, i).set \notin DOMAIN given
    BY <1>1, <1>3, ZenonT(60) DEF SourceInv
<1> QED
    BY <1>1, <1>2, <1>6, <1>7, ZenonT(60) DEF SourceInv

LEMMA OutsStep ==
    ASSUME AllWellDefined, Inv, DataInv, OutsInv,
           NEW f \in Functions, NEW values, NEW left, NEW rest,
           Answered(f, values, left, rest)
    PROVE  OutsInv'
<1> DEFINE batch == Arriving(f, values)
<1> HIDE DEF batch
<1>1. /\ UNCHANGED <<comp, given, phase>> /\ phase = "waiting"
      /\ Deliver(batch, left, rest) /\ DOMAIN values \subseteq DOMAIN Outputs(f)
    BY DEF Answered, batch
<1>2. BatchOf(batch, f, values)
    BY <1>1, BatchFacts, ZenonT(60) DEF batch, Inv
<1>3. ASSUME NEW s \in comp.returns
      PROVE  outs'[s] = IF Held(s)' = Absent THEN Empty ELSE Held(s)'
    <2>1. s \in Sets /\ s # NoSet
        BY DEF Inv, MissingInv
    <2>2. outs'[s] = IF Places(batch, s) # {} THEN Last(batch, s) ELSE outs[s]
        BY <1>1, ZenonT(60) DEF Deliver, DataInv
    <2>3. CASE Places(batch, s) # {}
        <3>1. PICK j \in DOMAIN batch : batch[j].set = s
            BY <2>3 DEF Places
        <3>2. s = Outputs(f)[j] /\ j \in DOMAIN values /\ Last(batch, s) = values[j]
            BY <1>2, <3>1, ZenonT(60) DEF BatchOf
        <3>3. Outputs(f)'[j] = s
            BY <1>1, <3>2, ZenonT(60) DEF Outputs
        <3>4. Held(s)' = values[j] /\ values[j] # Absent
            BY <2>1, <3>2, <3>3, HeldStep
        <3> QED
            BY <2>2, <2>3, <3>2, <3>4, ZenonT(60)
    <2>4. CASE Places(batch, s) = {}
        <3>1. ~\E j \in DOMAIN values : s = Outputs(f)[j]
            BY <1>2, <2>1, <2>4, ZenonT(60) DEF BatchOf, Places
        <3>2. /\ Held(s) # Absent => Held(s)' = Held(s)
              /\ Held(s)' \in {Held(s), Empty}
            BY <2>1, <3>1, HeldStep
        <3>3. outs[s] = IF Held(s) = Absent THEN Empty ELSE Held(s)
            BY <1>1 DEF OutsInv
        <3> QED
            BY <2>2, <2>4, <3>2, <3>3
    <2> QED
        BY <2>3, <2>4
<1> QED
    BY <1>1, <1>3 DEF OutsInv

-----------------------------------------------------------------------------
LEMMA InitFlow ==
    ASSUME Init
    PROVE  FlowInv
<1>1. DataInv
    BY DEF Init, DataInv
<1>2. ArgsInv /\ SkippedInv /\ SourceInv /\ OutsInv
    BY DEF Init, ArgsInv, SkippedInv, SourceInv, OutsInv
<1> QED
    BY <1>1, <1>2, ZenonT(60) DEF FlowInv

(* What is passed to the composition is held at once; otherwise a set is   *)
(* open, or empty since the function that makes it is skipped.             *)
LEMMA BuildHeld ==
    ASSUME DataInv, Build, NEW s
    PROVE  /\ s \in DOMAIN given => Held(s)' = given[s] /\ given[s] # Absent
           /\ s \notin DOMAIN given => Held(s)' \in {Empty, Absent}
<1>1. UNCHANGED <<comp, given, returned>> /\ \A f \in Functions : returned[f] = Absent
    BY ZenonT(60) DEF DataInv, Build
<1>2. s \in DOMAIN given => Held(s)' = given[s]
    BY <1>1, ZenonT(60) DEF Held
<1>3. s \in DOMAIN given => given[s] \in {Empty, Caller}
    BY DEF DataInv
<1>4. \A f \in Functions : \A j : Made(f, j)' \in {Empty, Absent}
    BY <1>1 DEF Made
<1>5. (\E f \in Functions : Produces(f, s)') => Maker(s)' \in Functions
    BY ZenonT(60) DEF Maker
<1>6. s \notin DOMAIN given => Held(s)' \in {Empty, Absent}
    BY <1>1, <1>4, <1>5, ZenonT(60) DEF Held
<1> QED
    BY <1>2, <1>3, <1>6

LEMMA BuildFlow ==
    ASSUME Inv, FlowInv, Build
    PROVE  FlowInv'
<1> DEFINE skipped == {f \in Functions : \E i \in Inputs(f) :
                          Passed(f, i) /\ Blocks(f, i, given[In(f, i).set])}
           ready == {f \in Functions \ skipped : Misses(f) = {}}
<1>1. /\ UNCHANGED <<comp, given, returned>> /\ phase = "called" /\ phase' = "waiting"
      /\ DOMAIN outs' = comp.returns /\ DOMAIN args' = Functions
      /\ \A s \in comp.returns : outs'[s] = IF s \in DOMAIN given THEN given[s] ELSE outs[s]
      /\ waiting' = Functions \ (skipped \cup ready) /\ running' = ready
    BY Zenon DEF Build
<1>2. \A f \in Functions :
          /\ missing'[f] = Misses(f) /\ DOMAIN args'[f] = Inputs(f)
          /\ \A i \in Inputs(f) : Passed(f, i) => args'[f][i] = given[In(f, i).set]
          /\ skips'[f] = IF f \in skipped THEN 1 ELSE 0
          /\ starts'[f] = IF f \in ready THEN 1 ELSE 0
    BY ZenonT(60) DEF Build
<1>3. /\ \A f : f \in skipped <=> f \in Functions /\ \E i \in Inputs(f) :
                     Passed(f, i) /\ Blocks(f, i, given[In(f, i).set])
      /\ \A f : f \in ready <=> f \in Functions /\ f \notin skipped /\ Misses(f) = {}
    BY ZenonT(60)
<1> HIDE DEF skipped, ready
<1>4. \A f : Inputs(f)' = Inputs(f) /\ Outputs(f)' = Outputs(f) /\ \A i : In(f, i)' = In(f, i)
    BY <1>1 DEF Inputs, Outputs, In
<1>5. \A s : /\ s \in DOMAIN given => Held(s)' = given[s] /\ given[s] # Absent
             /\ s \notin DOMAIN given => Held(s)' \in {Empty, Absent}
    BY BuildHeld, ZenonT(60) DEF FlowInv
<1>6. \A f \in Functions : returned[f] = Absent
    BY <1>1, ZenonT(60) DEF FlowInv, DataInv
<1>7. \A f \in Functions : starts'[f] = 1 <=> f \in ready
    BY <1>2
<1>8. DataInv'
    <2>1. /\ \E passed \in Given : given' \in [passed -> {Empty, Caller}]
          /\ DOMAIN returned' = Functions
        BY <1>1, ZenonT(60) DEF FlowInv, DataInv
    <2>2. \A f \in Functions :
            /\ returned'[f] # Absent => returned'[f] \in Seq({Empty, f}) /\ starts'[f] = 1
            /\ starts'[f] = 1 => (f \in running' <=> returned'[f] = Absent)
        BY <1>1, <1>6, <1>7
    <2> QED
        BY <1>1, <1>2, <1>4, <2>1, <2>2, ZenonT(60) DEF DataInv
<1>9. ArgsInv'
    <2>1. ASSUME NEW g \in Functions, g \notin skipped, NEW i \in Inputs(g) \ Misses(g)
          PROVE  /\ args'[g][i] = Held(In(g, i).set)'
                 /\ args'[g][i] # Absent
                 /\ ~In(g, i).optional => args'[g][i] # Empty
        <3>1. Passed(g, i) /\ In(g, i).set \in DOMAIN given
            BY ZenonT(60) DEF Misses, Passed
        <3>2. args'[g][i] = given[In(g, i).set] /\ ~Blocks(g, i, given[In(g, i).set])
            BY <1>2, <1>3, <2>1, <3>1, ZenonT(60)
        <3>3. Held(In(g, i).set)' = given[In(g, i).set] /\ given[In(g, i).set] # Absent
            BY <1>4, <1>5, <3>1, ZenonT(60)
        <3> QED
            BY <3>2, <3>3, ZenonT(60) DEF Blocks
    <2>2. \A g \in Functions : g \in waiting' \/ starts'[g] = 1 => g \notin skipped
        BY <1>1, <1>3, <1>7, ZenonT(60)
    <2>3. \A g \in Functions : /\ starts'[g] = 1 => missing'[g] = {}
                               /\ g \in waiting' => missing'[g] # {}
        BY <1>1, <1>2, <1>3, <1>7, ZenonT(60)
    <2> QED
        BY <1>2, <1>4, <2>1, <2>2, <2>3, ZenonT(60) DEF ArgsInv
<1>10. SkippedInv'
    <2>1. ASSUME NEW g \in Functions \ waiting', starts'[g] = 0
          PROVE  \E i \in Inputs(g) : ~In(g, i).optional /\ Held(In(g, i).set)' = Empty
        <3>1. g \in skipped
            BY <1>1, <1>2, <2>1
        <3>2. PICK i \in Inputs(g) : Passed(g, i) /\ Blocks(g, i, given[In(g, i).set])
            BY <1>3, <3>1, ZenonT(60)
        <3>3. Held(In(g, i).set)' = given[In(g, i).set]
            BY <1>4, <1>5, <3>2 DEF Passed
        <3> QED
            BY <3>2, <3>3, ZenonT(60) DEF Blocks
    <2> QED
        BY <1>4, <2>1, ZenonT(60) DEF SkippedInv
<1>11. SourceInv'
    <2>1. \A g \in waiting' : \A i \in missing'[g] : In(g, i).set \notin DOMAIN given
        BY <1>1, <1>2 DEF Misses, Passed
    <2>2. \A f \in Functions : f \in waiting' \cup running' \/ skips'[f] > 0
        BY <1>1, <1>2
    <2> QED
        BY <1>1, <1>4, <2>1, <2>2, ZenonT(60) DEF SourceInv
<1>12. OutsInv'
    <2>1. \A s \in comp.returns : outs[s] = Empty
        BY <1>1, ZenonT(60) DEF FlowInv, OutsInv
    <2> QED
        BY <1>1, <1>5, <2>1, ZenonT(60) DEF OutsInv
<1> QED
    BY <1>8, <1>9, <1>10, <1>11, <1>12 DEF FlowInv

(* The end of the call and a stuttering step change nothing but the phase. *)
LEMMA QuietFlow ==
    ASSUME FlowInv, UNCHANGED <<comp, given, state, returned>>,
           \/ phase' = phase
           \/ phase # "called" /\ phase' = "error"
           \/ phase # "called" /\ phase' = "ok" /\ running = {}
              /\ \A f \in Functions : skips[f] = 0
    PROVE  FlowInv'
<1> USE DEF state
<1>1. /\ \A f : Inputs(f)' = Inputs(f) /\ Outputs(f)' = Outputs(f)
      /\ \A f, i : In(f, i)' = In(f, i)
    BY DEF Inputs, Outputs, In
<1>2. phase' = "called" <=> phase = "called"
    BY ZenonT(60)
<1>3. \A s : Held(s)' = Held(s)
    <2>1. \A f, j : Made(f, j)' = Made(f, j)
        BY <1>2, ZenonT(60) DEF Made
    <2>2. \A f, s : /\ Produces(f, s)' <=> Produces(f, s)
                   /\ OutputFor(f, s)' = OutputFor(f, s)
        BY <1>1 DEF Produces, OutputFor
    <2>3. \A s : Maker(s)' = Maker(s)
        BY DEF Maker, Produces, Outputs
    <2> QED
        BY <2>1, <2>2, <2>3, ZenonT(60) DEF Held
<1>4. DataInv'
    BY <1>1, <1>2, Zenon DEF FlowInv, DataInv
<1>5. ArgsInv' /\ SkippedInv'
    BY <1>1, <1>2, <1>3, ZenonT(60) DEF FlowInv, ArgsInv, SkippedInv
<1>6. SourceInv' /\ OutsInv'
    BY <1>1, <1>2, <1>3 DEF FlowInv, SourceInv, OutsInv
<1> QED
    BY <1>4, <1>5, <1>6, ZenonT(60) DEF FlowInv

(* Return and Skip are turns of the loop. *)
LEMMA ReturnAnswers ==
    ASSUME Inv, NEW f \in Functions, Return(f)
    PROVE  \E values, left, rest : Answered(f, values, left, rest)
<1>1. PICK n \in 0 .. Len(Outputs(f)) : \E values \in [1 .. n -> {Empty, f}] :
            /\ returned' = [returned EXCEPT ![f] = values]
            /\ Deliver(Arriving(f, values), running \ {f}, skips)
    BY Zenon DEF Return
<1>2. PICK values \in [1 .. n -> {Empty, f}] :
            /\ returned' = [returned EXCEPT ![f] = values]
            /\ Deliver(Arriving(f, values), running \ {f}, skips)
    BY <1>1, ZenonT(60)
<1>3. Outputs(f) \in Seq(Sets \cup {NoSet})
    BY ZenonT(60) DEF Inv, MissingInv, Outputs
<1>4. n \in Nat /\ values \in Seq({Empty, f}) /\ DOMAIN values = 1 .. n
      /\ 1 .. n \subseteq DOMAIN Outputs(f)
    BY <1>1, <1>2, <1>3
<1>5. /\ f \in running /\ phase = "waiting" /\ UNCHANGED <<comp, given, phase>>
    BY DEF Return, Loop
<1>6. Answered(f, values, running \ {f}, skips)
    BY <1>2, <1>4, <1>5, ZenonT(60) DEF Answered
<1> QED
    BY <1>6

LEMMA SkipAnswers ==
    ASSUME NEW f \in Functions, Skip(f)
    PROVE  \E values, left, rest : Answered(f, values, left, rest)
<1> DEFINE values == [j \in DOMAIN Outputs(f) |-> Empty]
           rest == [skips EXCEPT ![f] = @ - 1]
<1>1. /\ phase = "waiting" /\ UNCHANGED <<comp, given, phase>> /\ returned' = returned
      /\ skips[f] > 0 /\ Deliver(Arriving(f, values), running, rest)
    BY DEF Skip, Loop
<1>2. DOMAIN values \subseteq DOMAIN Outputs(f)
    OBVIOUS
<1>3. Answered(f, values, running, rest)
    BY <1>1, <1>2, ZenonT(60) DEF Answered
<1> QED
    BY <1>3, ZenonT(60)

LEMMA AnsweredFlow ==
    ASSUME AllWellDefined, Inv, FlowInv, NEW f \in Functions,
           \E values, left, rest : Answered(f, values, left, rest)
    PROVE  FlowInv'
<1>1. PICK values, left, rest : Answered(f, values, left, rest)
    BY ZenonT(60)
<1>2. DataInv'
    BY <1>1, DataStep, ZenonT(60) DEF FlowInv
<1>3. ArgsInv'
    BY <1>1, ArgsStep, ZenonT(60) DEF FlowInv
<1>4. SkippedInv'
    BY <1>1, SkippedStep, ZenonT(60) DEF FlowInv
<1>5. SourceInv'
    BY <1>1, SourceStep, ZenonT(60) DEF FlowInv
<1>6. OutsInv'
    BY <1>1, OutsStep, ZenonT(60) DEF FlowInv
<1> QED
    BY <1>2, <1>3, <1>4, <1>5, <1>6, ZenonT(60) DEF FlowInv

LEMMA NextFlow ==
    ASSUME AllWellDefined, Inv, FlowInv, [Next]_vars
    PROVE  FlowInv'
<1>1. CASE Build
    BY <1>1, BuildFlow, ZenonT(60)
<1>2. CASE End
    BY <1>2, QuietFlow, ZenonT(60) DEF End, Loop
<1>3. ASSUME NEW f \in Functions, Return(f)
      PROVE  FlowInv'
    BY <1>3, ReturnAnswers, AnsweredFlow, ZenonT(60)
<1>4. ASSUME NEW f \in Functions, Skip(f)
      PROVE  FlowInv'
    BY <1>4, SkipAnswers, AnsweredFlow, ZenonT(60)
<1>5. ASSUME NEW f \in Functions, Fail(f)
      PROVE  FlowInv'
    BY <1>5, QuietFlow, ZenonT(60) DEF Fail, Loop
<1>6. CASE UNCHANGED vars
    BY <1>6, QuietFlow DEF vars
<1> QED
    BY <1>1, <1>2, <1>3, <1>4, <1>5, <1>6, ZenonT(60) DEF Next

LEMMA FlowInvariant ==
    ASSUME AllWellDefined
    PROVE  Spec => [](Inv /\ FlowInv)
<1>1. Init => Inv /\ FlowInv
    BY InitInv, InitFlow
<1>2. Inv /\ FlowInv /\ [Next]_vars => Inv' /\ FlowInv'
    BY NextInv, NextFlow
<1> QED
    BY <1>1, <1>2, PTL DEF Spec

-----------------------------------------------------------------------------
(* In a composition whose sets have one source each, a function is only    *)
(* run on the data of the sets that its descriptors name, and with items   *)
(* in those that are not optional, in whatever order the sets arrive.      *)
THEOREM FunctionsGetTheirInputs ==
    ASSUME AllWellDefined
    PROVE  Spec => []RunsOnItsInputs
<1>1. Inv /\ FlowInv => RunsOnItsInputs
    <2> SUFFICES ASSUME Inv, FlowInv, NEW f \in running, NEW i \in Inputs(f)
                 PROVE  /\ args[f][i] = Held(In(f, i).set)
                        /\ ~In(f, i).optional => args[f][i] # Empty
        BY DEF RunsOnItsInputs
    <2>1. phase # "called" /\ f \in Functions /\ starts[f] = 1
        BY ZenonT(60) DEF Inv, LifeInv
    <2> QED
        BY <2>1, ZenonT(60) DEF FlowInv, ArgsInv
<1> QED
    BY FlowInvariant, <1>1, PTL

(* Once the loop has ended and every function returned all of its sets,    *)
(* no function waits: the ones that did would all wait for one another.    *)
LEMMA NoneLeftWaiting ==
    ASSUME AllWellDefined, Inv, FlowInv, phase = "ok", Complete
    PROVE  waiting = {}
<1> SUFFICES ASSUME waiting # {}
             PROVE  FALSE
    BY ZenonT(60)
<1>1. PICK passed \in Given : given \in [passed -> {Empty, Caller}]
    BY DEF FlowInv, DataInv
<1>2. WellDefined(comp, passed) /\ DOMAIN given = passed
    BY <1>1 DEF AllWellDefined, Inv, MissingInv
<1>3. waiting \in (SUBSET Functions) \ {{}}
    BY Zenon DEF Inv, LifeInv
<1>4. PICK f \in waiting : \A i \in Inputs(f) : \A g \in waiting :
            ~Makes(comp, g, In(f, i).set)
    BY <1>2, <1>3, ZenonT(60) DEF WellDefined, Acyclic, Inputs, In
<1>5. f \in Functions /\ missing[f] # {} /\ missing[f] \subseteq Inputs(f)
    BY <1>3 DEF FlowInv, ArgsInv, Inv, MissingInv
<1>6. PICK i \in missing[f] : i \in Inputs(f)
    BY <1>5, ZenonT(60)
<1>7. In(f, i).set \notin passed
    BY <1>2 DEF FlowInv, SourceInv
<1>8. PICK g \in Functions : Makes(comp, g, In(f, i).set)
    BY <1>2, <1>5, <1>6, <1>7, ZenonT(60) DEF WellDefined, HasSource, In, Inputs
<1>9. PICK k \in DOMAIN Outputs(g) : Outputs(g)[k] = In(f, i).set
    BY <1>8, ZenonT(60) DEF Makes, Outputs
<1>10. g \notin waiting
    BY <1>4, <1>6, <1>8, ZenonT(60)
<1>11. g \notin running /\ ~(skips[g] > 0)
    <2>1. running = {} /\ skips[g] = 0
        BY ZenonT(60) DEF FlowInv, DataInv
    <2> QED
        BY <2>1
<1>12. returned[g] # Absent /\ k \notin DOMAIN returned[g]
    BY <1>9, <1>10, <1>11 DEF FlowInv, SourceInv
<1>13. returned[g] \in Seq({Empty, g}) /\ starts[g] = 1
    BY <1>12, ZenonT(60) DEF FlowInv, DataInv
<1>14. Len(returned[g]) = Len(Outputs(g))
    BY <1>13 DEF Complete
<1>15. Outputs(g) \in Seq(Sets \cup {NoSet})
    BY DEF Inv, MissingInv, Outputs
<1> QED
    BY <1>9, <1>12, <1>13, <1>14, <1>15

(* Then every returned set is decided.                                     *)
LEMMA ReturnsDecided ==
    ASSUME AllWellDefined, Inv, FlowInv, phase = "ok", Complete, NEW s \in comp.returns
    PROVE  Held(s) # Absent
<1>1. PICK passed \in Given : given \in [passed -> {Empty, Caller}]
    BY DEF FlowInv, DataInv
<1>2. WellDefined(comp, passed) /\ DOMAIN given = passed /\ s \in Sets
    BY <1>1, ZenonT(60) DEF AllWellDefined, Inv, MissingInv
<1>3. CASE s \in passed
    BY <1>1, <1>2, <1>3, ZenonT(60) DEF Held
<1>4. CASE s \notin passed
    <2>1. PICK f \in Functions : Makes(comp, f, s)
        BY <1>2, <1>4, ZenonT(60) DEF WellDefined, HasSource
    <2> DEFINE m == Maker(s)
               k == OutputFor(m, s)
    <2>2. Produces(f, s)
        BY <2>1 DEF Makes, Produces, Outputs
    <2>3. m \in Functions /\ Produces(m, s)
        BY <2>2, Zenon DEF Maker
    <2> HIDE DEF m
    <2>4. k \in DOMAIN Outputs(m)
        BY <2>3, Zenon DEF Produces, OutputFor
    <2>5. Held(s) = Made(m, k)
        BY <1>2, <1>4, <2>2, ZenonT(60) DEF Held, m
    <2> HIDE DEF k
    <2>6. waiting = {}
        BY NoneLeftWaiting, ZenonT(60)
    <2>7. CASE starts[m] = 1
        <3>1. returned[m] # Absent /\ Len(returned[m]) = Len(Outputs(m))
            BY <2>3, <2>7, ZenonT(60) DEF Complete
        <3>2. returned[m] \in Seq({Empty, m}) /\ Outputs(m) \in Seq(Sets \cup {NoSet})
            <4>1. returned[m] \in Seq({Empty, m})
                BY <2>3, <3>1 DEF FlowInv, DataInv
            <4>2. Outputs(m) \in Seq(Sets \cup {NoSet})
                BY <2>3, ZenonT(60) DEF Inv, MissingInv, Outputs
            <4> QED
                BY <4>1, <4>2, ZenonT(60)
        <3>3. k \in DOMAIN returned[m] /\ returned[m][k] \in {Empty, m}
            BY <2>4, <3>1, <3>2
        <3> QED
            BY <2>3, <2>5, <3>1, <3>3, ZenonT(60) DEF Made
    <2>8. CASE starts[m] # 1
        <3>1. starts[m] = 0
            BY <2>3, <2>8 DEF Inv, LifeInv
        <3>2. returned[m] = Absent
            BY <2>3, <2>8, ZenonT(60) DEF FlowInv, DataInv
        <3> QED
            BY <2>5, <2>6, <3>1, <3>2, ZenonT(60) DEF Made
    <2> QED
        BY <2>7, <2>8
<1> QED
    BY <1>3, <1>4, ZenonT(60)

(* dparser/README.md lines 43 and 44 for compositions whose sets have one  *)
(* source each: when the call returns, exactly the functions whose inputs  *)
(* have items where they must have some were run, and the result is what   *)
(* the composition says.                                                   *)
THEOREM CompositionsSettle ==
    ASSUME AllWellDefined
    PROVE  Spec => []SettledAsDeclared
<1>1. Inv /\ FlowInv => SettledAsDeclared
    <2> SUFFICES ASSUME Inv, FlowInv, phase = "ok", Complete
                 PROVE  /\ \A f \in Functions :
                              f \notin waiting /\ (starts[f] = 1 <=> Runnable(f))
                        /\ \A s \in DOMAIN outs : outs[s] = Held(s)
        BY DEF SettledAsDeclared
    <2>1. waiting = {}
        BY NoneLeftWaiting, ZenonT(60)
    <2>2. ASSUME NEW f \in Functions, starts[f] = 1
          PROVE  Runnable(f)
        <3>1. missing[f] = {} /\ \A i \in Inputs(f) :
                  args[f][i] = Held(In(f, i).set) /\ (~In(f, i).optional => args[f][i] # Empty)
            BY <2>2, ZenonT(60) DEF FlowInv, ArgsInv
        <3> QED
            BY <3>1, ZenonT(60) DEF Runnable
    <2>3. ASSUME NEW f \in Functions, starts[f] # 1
          PROVE  ~Runnable(f)
        <3>1. starts[f] = 0
            BY <2>3, ZenonT(60) DEF Inv, LifeInv
        <3> QED
            BY <2>1, <3>1, ZenonT(60) DEF FlowInv, SkippedInv, Runnable
    <2>4. \A s \in comp.returns : outs[s] = Held(s)
        BY ReturnsDecided, ZenonT(60) DEF FlowInv, OutsInv
    <2>5. DOMAIN outs = comp.returns
        BY DEF FlowInv, DataInv
    <2> QED
        BY <2>1, <2>2, <2>3, <2>4, <2>5, ZenonT(60)
<1> QED
    BY FlowInvariant, <1>1, PTL

(* No turn of the loop takes a returned set that holds items away again.   *)
THEOREM ReturnedSetsAreFinal ==
    ASSUME AllWellDefined
    PROVE  Spec => OutputIsFinal
<1> DEFINE Final == \A s \in DOMAIN outs : outs[s] # Empty => outs'[s] = outs[s]
<1>1. ASSUME Inv, FlowInv, NEW f \in Functions,
             \E values, left, rest : Answered(f, values, left, rest)
      PROVE  Final
    <2>1. PICK values, left, rest : Answered(f, values, left, rest)
        BY <1>1
    <2>2. comp' = comp /\ phase' = "waiting" /\ phase = "waiting"
        BY <2>1, Zenon DEF Answered
    <2>3. OutsInv /\ OutsInv' /\ DOMAIN outs = comp.returns
        BY <1>1, <2>1, OutsStep, ZenonT(60) DEF FlowInv, DataInv
    <2>4. \A s \in comp.returns : Held(s) # Absent => Held(s)' = Held(s)
        <3>1. comp.returns \subseteq Sets
            BY <1>1, ZenonT(60) DEF Inv, MissingInv
        <3>2. DataInv
            BY <1>1 DEF FlowInv
        <3> QED
            BY <1>1, <2>1, <3>1, <3>2, HeldStep, ZenonT(60)
    <2> QED
        BY <2>2, <2>3, <2>4, ZenonT(60) DEF OutsInv
<1>2. ASSUME FlowInv, Build
      PROVE  Final
    BY <1>2, ZenonT(60) DEF FlowInv, OutsInv, DataInv, Build
<1>3. Inv /\ FlowInv /\ [Next]_vars => [Final]_vars
    <2> SUFFICES ASSUME Inv, FlowInv, Next
                 PROVE  Final
        OBVIOUS
    <2>1. CASE Build
        BY <1>2, <2>1, ZenonT(60)
    <2>2. CASE End
        BY <2>2 DEF End, state
    <2>3. ASSUME NEW f \in Functions, Return(f)
          PROVE  Final
        BY <1>1, <2>3, ReturnAnswers, ZenonT(60)
    <2>4. ASSUME NEW f \in Functions, Skip(f)
          PROVE  Final
        BY <1>1, <2>4, SkipAnswers, ZenonT(60)
    <2>5. ASSUME NEW f \in Functions, Fail(f)
          PROVE  Final
        BY <2>5 DEF Fail, state
    <2> HIDE DEF Final
    <2> QED
        BY <2>1, <2>2, <2>3, <2>4, <2>5, ZenonT(60) DEF Next
<1> QED
    BY FlowInvariant, <1>3, PTL DEF Spec, OutputIsFinal

=============================================================================
