--------------------------- MODULE QueueComposition ---------------------------
(***************************************************************************)
(* Dispatcher::queue_composition (dispatcher/src/dispatcher.rs): the       *)
(* functions of a composition are started as their input sets arrive, and  *)
(* the sets they return are handed to the functions that wait for them.    *)
(*                                                                         *)
(* A set is abstracted to where its data comes from: Empty (None or no     *)
(* items), Caller, or the function that produced it.  A running function   *)
(* (queue_function_sharded on some engine) returns any sets at any time,   *)
(* possibly fewer than the composition names, or an error.  "given",       *)
(* "returned" and "starts" record what happened, for the properties.       *)
(***************************************************************************)
EXTENDS Naturals, Sequences, FiniteSets

CONSTANTS
    Functions,     \* applications in a composition
    Sets,          \* ids of composition sets
    Compositions,  \* compositions that are queued
    Given,         \* sets of params the caller passes
    Empty, Caller, NoSet, Absent

ASSUME ValuesDiffer ==
    /\ Empty # Caller /\ Absent \notin {Empty, Caller} \cup Functions
    /\ {Empty, Caller} \cap Functions = {} /\ NoSet \notin Sets
    /\ Absent \notin Seq({Empty} \cup Functions)
ASSUME CompositionsAreTyped ==
    \A c \in Compositions :
        /\ \A f \in Functions :
            /\ c.inputs[f] \in Seq([set : Sets, optional : BOOLEAN])
            /\ c.outputs[f] \in Seq(Sets \cup {NoSet})
        /\ c.returns \subseteq Sets
ASSUME GivenAreSets == \A d \in Given : d \subseteq Sets

VARIABLES
    comp,      \* the composition: inputs and outputs of functions, returned sets
    given,     \* the sets passed by the caller
    phase,     \* "called", "waiting", "ok" or "error"
    waiting,   \* non_ready_functions
    missing,   \* missing_sets: inputs each function waits for
    args,      \* inptut_sets
    running,   \* awaited_sets: functions that run
    skips,     \* awaited_sets: ready answers for functions that are skipped
    outs,      \* output_sets
    starts,    \* how often each function was started
    returned   \* the sets each function returned, Absent while it has not

state == <<waiting, missing, args, running, skips, outs, starts>>
vars == <<comp, given, phase, state, returned>>

Values == {Empty, Caller} \cup Functions
In(f, i) == comp.inputs[f][i]
Inputs(f) == DOMAIN comp.inputs[f]
Outputs(f) == comp.outputs[f]

(* The sets a composition call may be passed, each with or without items. *)
Init ==
    /\ comp \in Compositions
    /\ \E d \in Given : given \in [d -> {Empty, Caller}]
    /\ phase = "called"
    /\ waiting = {} /\ running = {}
    /\ missing = [f \in Functions |-> {}]
    /\ args = [f \in Functions |-> <<>>]
    /\ skips = [f \in Functions |-> 0]
    /\ outs = [s \in comp.returns |-> Empty]
    /\ starts = [f \in Functions |-> 0]
    /\ returned = [f \in Functions |-> Absent]

-----------------------------------------------------------------------------
(* Mutant: the test of the optional flag is missing. *)
BlocksAlways(f, i, value) == value = Empty

(* An input that is empty and not optional keeps the function from running.*)
Blocks(f, i, value) == ~In(f, i).optional /\ value = Empty

Passed(f, i) == In(f, i).set \in DOMAIN given

(* The inputs for which nothing was passed. *)
Misses(f) == {i \in Inputs(f) : ~Passed(f, i)}

(* The part up to the loop: functions with an empty input are skipped, the *)
(* others take what was passed, and those that miss nothing are started.   *)
Build ==
    LET skipped == {f \in Functions : \E i \in Inputs(f) :
                       Passed(f, i) /\ Blocks(f, i, given[In(f, i).set])}
        ready == {f \in Functions \ skipped : Misses(f) = {}}
    IN  /\ phase = "called"
        /\ phase' = "waiting"
        /\ outs' = [s \in comp.returns |->
                       IF s \in DOMAIN given THEN given[s] ELSE outs[s]]
        /\ missing' = [f \in Functions |-> Misses(f)]
        /\ args' = [f \in Functions |-> [i \in Inputs(f) |->
                       IF Passed(f, i) THEN given[In(f, i).set] ELSE Empty]]
        /\ waiting' = Functions \ (skipped \cup ready)
        /\ running' = ready
        /\ skips' = [f \in Functions |-> IF f \in skipped THEN 1 ELSE 0]
        /\ starts' = [f \in Functions |-> IF f \in ready THEN 1 ELSE 0]
        /\ UNCHANGED <<comp, given, returned>>

(* The sets that arrive together, in order: what function f returned, or   *)
(* nothing for each of its outputs.                                        *)
Arriving(f, values) ==
    [j \in {n \in DOMAIN values : Outputs(f)[n] # NoSet} |->
        [set |-> Outputs(f)[j], value |-> values[j]]]

(* How the sets of one awaited future meet a waiting function: the missing *)
(* inputs that the j-th set is for, those of them it blocks, and all       *)
(* inputs that are served.  An application may name a returned set twice;  *)
(* an input takes the first, the result of the composition the last.       *)
Hit(batch, g, j) ==
    {i \in missing[g] : /\ In(g, i).set = batch[j].set
                        /\ \A k \in DOMAIN batch : k < j => batch[k].set # batch[j].set}
Blocked(batch, g, j) == {i \in Hit(batch, g, j) : Blocks(g, i, batch[j].value)}
Got(batch, g) == UNION {Hit(batch, g, j) : j \in DOMAIN batch}
Cancelled(batch) == {g \in waiting : \E j \in DOMAIN batch : Blocked(batch, g, j) # {}}

(* A function is cancelled by the first set that blocks it, with one       *)
(* answer for every input that takes this set.                             *)
Answers(batch, g) ==
    LET first == CHOOSE j \in DOMAIN batch :
                    /\ Blocked(batch, g, j) # {}
                    /\ \A k \in DOMAIN batch : k < j => Blocked(batch, g, k) = {}
    IN  IF g \in Cancelled(batch) THEN Cardinality(Blocked(batch, g, first)) ELSE 0

(* The data that arrives for a set, first and last. *)
Places(batch, s) == {j \in DOMAIN batch : batch[j].set = s}
First(batch, s) ==
    batch[CHOOSE j \in Places(batch, s) : \A k \in Places(batch, s) : j <= k].value
Last(batch, s) ==
    batch[CHOOSE j \in Places(batch, s) : \A k \in Places(batch, s) : k <= j].value

(* The functions that go on waiting or start, and those that start. *)
Kept(batch) == waiting \ Cancelled(batch)
Ready(batch) == {g \in Kept(batch) : missing[g] \subseteq Got(batch, g)}

(* The body of the loop for the sets of one awaited future.                *)
(* "leftRunning" and "leftSkips" are what remains of the awaited futures.  *)
Deliver(batch, leftRunning, leftSkips) ==
    /\ outs' = [s \in DOMAIN outs |->
                   IF Places(batch, s) # {} THEN Last(batch, s) ELSE outs[s]]
    /\ missing' = [g \in Functions |->
                      IF g \in Kept(batch) THEN missing[g] \ Got(batch, g) ELSE missing[g]]
    /\ args' = [g \in Functions |-> [i \in DOMAIN args[g] |->
                   IF g \in Kept(batch) /\ i \in Got(batch, g)
                   THEN First(batch, In(g, i).set) ELSE args[g][i]]]
    /\ waiting' = Kept(batch) \ Ready(batch)
    /\ running' = leftRunning \cup Ready(batch)
    /\ skips' = [g \in Functions |-> leftSkips[g] + Answers(batch, g)]
    /\ starts' = [g \in Functions |->
                     IF g \in Ready(batch) THEN starts[g] + 1 ELSE starts[g]]

Loop == phase = "waiting" /\ UNCHANGED <<comp, given>>

(* Mutant: the sets of a function are matched with the outputs from the    *)
(* second one on.                                                          *)
ReturnShifted(f) ==
    /\ Loop
    /\ f \in running
    /\ \E n \in 0 .. Len(Outputs(f)) :
        \E values \in [1 .. n -> {Empty, f}] :
            /\ returned' = [returned EXCEPT ![f] = values]
            /\ Deliver([j \in 2 .. n |-> [set |-> Outputs(f)[j], value |-> values[j - 1]]],
                       running \ {f}, skips)
    /\ UNCHANGED phase

(* Mutant: the future stays among the awaited ones. *)
ReturnAgain(f) ==
    /\ Loop
    /\ f \in running
    /\ \E values \in [DOMAIN Outputs(f) -> {Empty, f}] :
        /\ returned' = [returned EXCEPT ![f] = values]
        /\ Deliver(Arriving(f, values), running, skips)
    /\ UNCHANGED phase

(* A function returns: its sets are matched with the output mapping as far *)
(* as they go.                                                             *)
Return(f) ==
    /\ Loop
    /\ f \in running
    /\ \E n \in 0 .. Len(Outputs(f)) :
        \E values \in [1 .. n -> {Empty, f}] :
            /\ returned' = [returned EXCEPT ![f] = values]
            /\ Deliver(Arriving(f, values), running \ {f}, skips)
    /\ UNCHANGED phase

(* Mutant: a skipped function answers and starts after all. *)
SkipRuns(f) ==
    /\ Loop
    /\ skips[f] > 0
    /\ skips' = [skips EXCEPT ![f] = @ - 1]
    /\ running' = running \cup {f}
    /\ starts' = [starts EXCEPT ![f] = @ + 1]
    /\ UNCHANGED <<phase, waiting, missing, args, outs, returned>>

(* The answer of a skipped function: nothing for every output. *)
Skip(f) ==
    /\ Loop
    /\ skips[f] > 0
    /\ Deliver(Arriving(f, [j \in DOMAIN Outputs(f) |-> Empty]),
               running, [skips EXCEPT ![f] = @ - 1])
    /\ UNCHANGED <<phase, returned>>

(* An error ends the call; the awaited futures are dropped. *)
Fail(f) ==
    /\ Loop
    /\ f \in running
    /\ phase' = "error"
    /\ UNCHANGED <<state, returned>>

(* Mutant: the loop waits until no function is left. *)
EndWaits ==
    /\ Loop
    /\ running = {} /\ \A f \in Functions : skips[f] = 0
    /\ waiting = {}
    /\ phase' = "ok"
    /\ UNCHANGED <<state, returned>>

(* awaited_sets is exhausted. *)
End ==
    /\ Loop
    /\ running = {} /\ \A f \in Functions : skips[f] = 0
    /\ phase' = "ok"
    /\ UNCHANGED <<state, returned>>

Next == Build \/ End \/ \E f \in Functions : Return(f) \/ Skip(f) \/ Fail(f)

Spec == Init /\ [][Next]_vars

(* Engines answer every function they are given. *)
FairSpec == Spec /\ WF_vars(Next)

-----------------------------------------------------------------------------
(* What a function made of its j-th output: what it returned, nothing if   *)
(* it was skipped, Absent while this is open.                              *)
Made(f, j) ==
    IF returned[f] # Absent
    THEN IF j \in DOMAIN returned[f] THEN returned[f][j] ELSE Absent
    ELSE IF starts[f] = 0 /\ f \notin waiting /\ phase # "called" THEN Empty ELSE Absent

(* What a set holds by now according to the composition: what was passed,  *)
(* or what the function that makes it made of it.                          *)
Produces(f, s) == \E j \in DOMAIN Outputs(f) : Outputs(f)[j] = s
Maker(s) == CHOOSE f \in Functions : Produces(f, s)
OutputFor(f, s) == CHOOSE j \in DOMAIN Outputs(f) : Outputs(f)[j] = s
Held(s) ==
    IF s \in DOMAIN given THEN given[s]
    ELSE IF \E f \in Functions : Produces(f, s) THEN Made(Maker(s), OutputFor(Maker(s), s))
    ELSE Absent

(* A composition in which every set is passed by the caller or made by one *)
(* output of one function, functions take and the composition returns only *)
(* such sets, and no function waits, through others, for itself.           *)
Makes(c, f, s) == \E j \in DOMAIN c.outputs[f] : c.outputs[f][j] = s
MadeOnceOnly(c, passed) ==
    \A f, g \in Functions : \A j \in DOMAIN c.outputs[f], k \in DOMAIN c.outputs[g] :
        /\ c.outputs[f][j] \notin passed
        /\ c.outputs[f][j] # NoSet /\ c.outputs[f][j] = c.outputs[g][k] => f = g /\ j = k
HasSource(c, passed, s) == s \in passed \/ \E f \in Functions : Makes(c, f, s)
Acyclic(c) ==
    \A F \in (SUBSET Functions) \ {{}} : \E f \in F : \A i \in DOMAIN c.inputs[f] :
        \A g \in F : ~Makes(c, g, c.inputs[f][i].set)
WellDefined(c, passed) ==
    /\ MadeOnceOnly(c, passed)
    /\ \A s \in c.returns : HasSource(c, passed, s)
    /\ \A f \in Functions : \A i \in DOMAIN c.inputs[f] :
           HasSource(c, passed, c.inputs[f][i].set)
    /\ Acyclic(c)

(* Every variable holds a value of its kind. *)
TypeOK ==
    /\ comp \in Compositions
    /\ phase \in {"called", "waiting", "ok", "error"}
    /\ waiting \subseteq Functions /\ running \subseteq Functions
    /\ \A f \in Functions :
        /\ missing[f] \subseteq Inputs(f)
        /\ \A i \in DOMAIN args[f] : args[f][i] \in Values
        /\ skips[f] \in Nat /\ starts[f] \in Nat
        /\ returned[f] # Absent => \A j \in DOMAIN returned[f] : returned[f][j] \in Values
    /\ \A s \in DOMAIN outs : outs[s] \in Values

(* No function is started twice, and none that was skipped, however often  *)
(* and in whatever order sets arrive.                                      *)
StartedOnce ==
    \A f \in Functions :
        /\ starts[f] <= 1
        /\ skips[f] > 0 => starts[f] = 0
        /\ f \in waiting => starts[f] = 0

(* A function runs with the sets its descriptors name, and with an item in *)
(* each that is not optional.                                              *)
RunsOnItsInputs ==
    \A f \in running : \A i \in Inputs(f) :
        /\ args[f][i] = Held(In(f, i).set)
        /\ ~In(f, i).optional => args[f][i] # Empty

(* dparser/README.md lines 43 and 44: once the composition returned, every *)
(* function ran if each input that is not optional has items, and did not  *)
(* run but handed on empty sets otherwise.  This needs functions that      *)
(* return all of their sets.                                               *)
Complete == \A f \in Functions :
    starts[f] = 1 => returned[f] # Absent /\ Len(returned[f]) = Len(Outputs(f))
Runnable(f) == \A i \in Inputs(f) : ~In(f, i).optional => Held(In(f, i).set) # Empty
SettledAsDeclared ==
    phase = "ok" /\ Complete =>
        /\ \A f \in Functions : f \notin waiting /\ (starts[f] = 1 <=> Runnable(f))
        /\ \A s \in DOMAIN outs : outs[s] = Held(s)

(* The same for a composition that is called with no sets at all, as       *)
(* queue_function_sharded does for a composition whose inputs are all      *)
(* empty: "still want to run if we queued it" (dispatcher.rs line 362).    *)
OptionalRuns ==
    phase = "ok" /\ Complete =>
        \A f \in Functions :
            (\A i \in Inputs(f) : In(f, i).optional) => starts[f] = 1

(* A returned set that holds items is not taken away again by a set that   *)
(* arrives later.                                                          *)
OutputIsFinal ==
    [][\A s \in DOMAIN outs : outs[s] # Empty => outs'[s] = outs[s]]_vars

(* Every call returns: the functions that never became ready do not keep   *)
(* the loop waiting.                                                       *)
Returns == <>(phase \in {"ok", "error"})

=============================================================================
