------------------------------ MODULE Sharding ------------------------------
(***************************************************************************)
(* How the input sets of a function are split over calls of it and its     *)
(* results put together: composition.rs (shard, combine, get_sharding and  *)
(* the join iterator) and queue_function_sharded in dispatcher.rs.         *)
(*                                                                         *)
(* An item is its key and an identity that stands for its place in a       *)
(* context.  An option is a set with at most one element.  A chain of join *)
(* iterators is a sequence: the left iterator of one is the one before it. *)
(***************************************************************************)
EXTENDS Integers, Sequences, FiniteSets, SequencesExt, FiniteSetsExt

CONSTANTS
    Inputs,         \* what the function may be called with
    Results,        \* what a call of it may return: lists of options of lists of keys
    OutputMapping,  \* the composition's id of each declared output set, or none
    MaxResults      \* bound: later calls return nothing

VARIABLES
    input,          \* sets, modes, join order and strategies
    pc,
    next,           \* the next place of the join order, then of final_sharding
    iterator,       \* join_iter_opt
    final_sharding,
    returned,       \* what the calls returned
    accumulator,    \* the output sets of the results put together
    output          \* what the composition is given: options of sets, with their ids

vars == <<input, pc, next, iterator, final_sharding, returned, accumulator, output>>

ByKey(items) == \A i, j \in DOMAIN items : i < j => items[i].key <= items[j].key

(* sort_unstable_by_key: items of the same key may come in any order. *)
Sorted(items) == {s \in {[i \in DOMAIN items |-> items[p[i]]] :
                            p \in {q \in [DOMAIN items -> DOMAIN items] :
                                      ToSet(q) = DOMAIN items}} : ByKey(s)}

(* Mutant: an item is its own group. *)
LastItem(items) == Len(items)

(* Where the last run of equal keys begins. *)
LastGroup(items) ==
    CHOOSE p \in DOMAIN items :
        /\ \A i \in p .. Len(items) : items[i].key = items[Len(items)].key
        /\ p = 1 \/ items[p - 1].key # items[Len(items)].key

RECURSIVE KeyShards(_)
KeyShards(items) ==
    IF items = <<>> THEN <<>>
    ELSE <<SubSeq(items, LastGroup(items), Len(items))>>
         \o KeyShards(SubSeq(items, 1, LastGroup(items) - 1))

shard(items, mode) ==
    CASE mode = "all" -> <<items>>
      [] mode = "key" -> KeyShards(items)
      [] mode = "each" -> [i \in DOMAIN items |-> <<items[i]>>]

(* The sets, in the join order, that the order does not name come behind   *)
(* it, and strategies that are not given are cross.                        *)
JoinOrder(in) ==
    in.order \o SetToSortSeq({i \in DOMAIN in.sets : ~\E j \in DOMAIN in.order : in.order[j] = i},
                             LAMBDA a, b : a < b)
Strategy(in, place) ==
    IF place = 1 THEN "outer"
    ELSE IF place - 1 <= Len(in.strategies) THEN in.strategies[place - 1] ELSE "cross"

-----------------------------------------------------------------------------
(* JoinIterator.  Indexes count from one.                                  *)

KeyAt(it, index) == it.right[index][1].key
AtIndex(it, index) == [it EXCEPT !.right_index = index, !.key = KeyAt(it, index)]
Left(chain) == chain[Len(chain)]
Exhausted(it) == it.right_index > Len(it.right)

(* The first shard from index on whose key is not smaller. *)
SkipSmaller(it, index, key) ==
    Min({i \in index .. Len(it.right) : KeyAt(it, i) >= key} \cup {Len(it.right) + 1})

Advanced(chain, it) == [more |-> TRUE, chain |-> Append(chain, it)]
Ended(chain, it) == [more |-> FALSE, chain |-> Append(chain, it)]

(* An index out of bounds; whatever follows is lost. *)
Panicked(chain, it) == Ended(chain, [it EXCEPT !.mode = "panicked"])
HasPanicked(chain) == \E i \in DOMAIN chain : chain[i].mode = "panicked"

AdvanceAlone(it) ==
    IF Exhausted(it) THEN Ended(<<>>, it)
    ELSE IF it.right_index < Len(it.right) THEN Advanced(<<>>, AtIndex(it, it.right_index + 1))
    ELSE Ended(<<>>, [it EXCEPT !.right_index = @ + 1])

(* Mutant: the right side does not start again. *)
Continued(it) == it

(* The left side has moved on: all of the right side is to come again. *)
Restarted(it) == AtIndex(it, 1)

RECURSIVE advance(_)
RECURSIVE MatchInner(_, _)
RECURSIVE CatchUp(_, _)

(* The loop of an inner join: the side with the smaller key moves. *)
MatchInner(left, it) ==
    IF it.key > Left(left).key
    THEN LET l == advance(left)
         IN  IF l.more THEN MatchInner(l.chain, it) ELSE Ended(l.chain, it)
    ELSE IF it.key < Left(left).key
    THEN IF it.right_index < Len(it.right)
         THEN MatchInner(left, AtIndex(it, it.right_index + 1))
         ELSE Ended(left, [it EXCEPT !.right_index = @ + 1])
    ELSE Advanced(left, it)

(* The loop of a right join: the left side moves while its key is smaller. *)
CatchUp(left, key) ==
    IF key > Left(left).key
    THEN LET l == advance(left) IN IF l.more THEN CatchUp(l.chain, key) ELSE l.chain
    ELSE left

AdvanceInner(left, it) ==
    LET l == advance(left)
    IN  IF Exhausted(it) THEN Ended(left, it)
        ELSE IF l.more THEN Ended(l.chain, it)
        ELSE IF it.right_index = Len(it.right) THEN Panicked(l.chain, it)
        ELSE MatchInner(l.chain, AtIndex(it, it.right_index + 1))

(* Mutant: the left side keeps its place. *)
AdvanceLeftRightOnly(left, it) ==
    IF Exhausted(it) THEN Ended(left, it) ELSE Advanced(left, [it EXCEPT !.right_index = @ + 1])

AdvanceLeft(left, it) ==
    LET l == advance(left)
    IN  IF ~l.more THEN Ended(l.chain, [it EXCEPT !.right_index = Len(it.right) + 1])
        ELSE Advanced(l.chain,
                 [it EXCEPT !.right_index = SkipSmaller(it, it.right_index, Left(l.chain).key),
                            !.key = Left(l.chain).key])

AdvanceRight(left, it) ==
    IF Exhausted(it) THEN Ended(left, it)
    ELSE IF it.right_index = Len(it.right) THEN Ended(left, [it EXCEPT !.right_index = @ + 1])
    ELSE LET moved == AtIndex(it, it.right_index + 1)
         IN  Advanced(CatchUp(left, moved.key), moved)

AdvanceOuter(left, it) ==
    LET l == advance(left)
        index == it.right_index + 1
        key == IF index > Len(it.right) THEN Left(l.chain).key
               ELSE IF ~l.more THEN KeyAt(it, index)
               ELSE Min({KeyAt(it, index), Left(l.chain).key})
        kept == [it EXCEPT !.key = IF l.more THEN Left(l.chain).key ELSE @]
    IN  IF Exhausted(it)
        THEN IF l.more THEN Advanced(l.chain, kept) ELSE Ended(l.chain, it)
        ELSE IF Left(left).key # KeyAt(it, it.right_index) THEN Ended(left, it)
        ELSE IF index <= Len(it.right) \/ l.more
        THEN Advanced(l.chain, [it EXCEPT !.right_index = index, !.key = key])
        ELSE Ended(l.chain, [it EXCEPT !.right_index = index])

AdvanceCross(left, it) ==
    IF it.right_index < Len(it.right) THEN Advanced(left, AtIndex(it, it.right_index + 1))
    ELSE LET l == advance(left)
         IN  IF l.more THEN Advanced(l.chain, Restarted(it))
             ELSE Ended(l.chain, [it EXCEPT !.right_index = Len(it.right) + 1])

advance(chain) ==
    LET it == Last(chain)
        left == Front(chain)
    IN  IF left = <<>> THEN AdvanceAlone(it)
        ELSE CASE it.mode = "inner" -> AdvanceInner(left, it)
               [] it.mode = "left" -> AdvanceLeft(left, it)
               [] it.mode = "right" -> AdvanceRight(left, it)
               [] it.mode = "outer" -> AdvanceOuter(left, it)
               [] it.mode = "cross" -> AdvanceCross(left, it)
               [] it.mode = "panicked" -> Ended(left, it)

(* The loop of new for an inner join: the chains up to the first match, or *)
(* up to a panic on the way there.                                         *)
RECURSIVE FirstMatch(_, _, _)
FirstMatch(left, it, index) ==
    IF index > Len(it.right) THEN {}
    ELSE IF KeyAt(it, index) = Left(left).key THEN {[left |-> left, key |-> KeyAt(it, index)]}
    ELSE IF KeyAt(it, index) < Left(left).key THEN FirstMatch(left, it, index + 1)
    ELSE LET l == advance(left)
         IN  IF l.more THEN FirstMatch(l.chain, it, index)
             ELSE {[left |-> l.chain, key |-> it.key] : p \in {q \in {TRUE} : HasPanicked(l.chain)}}

(* JoinIterator::new.  The index that inner and left joins looked up is    *)
(* not kept, only the key that they found.                                 *)
NewIterator(left, shards, write_index, mode) ==
    LET it == [right |-> shards, right_index |-> 1, write_index |-> write_index,
               mode |-> mode, key |-> shards[1][1].key]
    IN  CASE left = <<>> -> IF mode \in {"inner", "left"} THEN <<>> ELSE <<it>>
          [] left # <<>> /\ mode = "inner" ->
                 LET match == FirstMatch(left, it, 1)
                 IN  IF match = {} THEN <<>>
                     ELSE LET m == CHOOSE m \in match : TRUE
                          IN  Append(m.left, [it EXCEPT !.key = m.key])
          [] left # <<>> /\ mode = "left" ->
                 IF SkipSmaller(it, 1, Left(left).key) > Len(shards) THEN left
                 ELSE Append(left, [it EXCEPT !.key = Left(left).key])
          [] left # <<>> /\ mode = "outer" ->
                 Append(left, [it EXCEPT !.key = Min({@, Left(left).key})])
          [] left # <<>> /\ mode \in {"right", "cross"} -> Append(left, it)

Fills(it) == ~Exhausted(it) /\ it.key = KeyAt(it, it.right_index)

(* An iterator adds its shard if that has the iterator's key. *)
fill_in(chain) ==
    [i \in DOMAIN input.sets |->
        {chain[j].right[chain[j].right_index] :
            j \in {k \in DOMAIN chain : chain[k].write_index = i /\ Fills(chain[k])}}]

-----------------------------------------------------------------------------
Init ==
    /\ input \in Inputs
    /\ pc = "build" /\ next = 1
    /\ iterator = <<>> /\ final_sharding = <<>>
    /\ returned = <<>> /\ accumulator = <<>> /\ output = {}

Given == {i \in DOMAIN input.sets : input.sets[i].items # <<>>}

(* queue_function_sharded: with nothing to split, one call without sets. *)
CallOnce ==
    /\ pc = "build" /\ next = 1 /\ Given = {}
    /\ final_sharding' = <<[i \in DOMAIN input.sets |-> {}]>>
    /\ pc' = "run"
    /\ UNCHANGED <<input, next, iterator, returned, accumulator, output>>

(* JoinIterator::new for the next set; empty sets leave it as it is. *)
Build ==
    LET order == JoinOrder(input)
        set == input.sets[order[next]]
    IN  /\ pc = "build" /\ next <= Len(order) /\ Given # {}
        /\ iterator' = IF set.items = <<>> THEN iterator
                       ELSE NewIterator(iterator, shard(set.items, set.mode), order[next],
                                        Strategy(input, next))
        /\ pc' = IF HasPanicked(iterator') THEN "panic" ELSE pc
        /\ next' = next + 1
        /\ UNCHANGED <<input, final_sharding, returned, accumulator, output>>

First ==
    /\ pc = "build" /\ next > Len(input.sets)
    /\ next' = 1
    /\ \/ /\ iterator = <<>>
          /\ pc' = "run"
          /\ UNCHANGED final_sharding
       \/ /\ iterator # <<>>
          /\ final_sharding' = <<fill_in(iterator)>>
          /\ pc' = "advance"
    /\ UNCHANGED <<input, iterator, returned, accumulator, output>>

Advance ==
    LET result == advance(iterator)
    IN  /\ pc = "advance"
        /\ iterator' = result.chain
        /\ \/ /\ HasPanicked(result.chain)
              /\ pc' = "panic"
              /\ UNCHANGED final_sharding
           \/ /\ ~HasPanicked(result.chain) /\ result.more
              /\ final_sharding' = Append(final_sharding, fill_in(result.chain))
              /\ UNCHANGED pc
           \/ /\ ~HasPanicked(result.chain) /\ ~result.more
              /\ pc' = "run"
              /\ UNCHANGED final_sharding
        /\ UNCHANGED <<input, next, returned, accumulator, output>>

(* Mutant: items are appended and left in that order. *)
Appended(old, new) == {old \o new}

combine(old, new) == Sorted(old \o new)

(* A set that a call made goes to the one that earlier calls made.  All    *)
(* calls of a function number it alike, so combine does not refuse.        *)
Joined(old, new) ==
    IF new = {} THEN {old}
    ELSE IF old = {} THEN {new}
    ELSE {{c} : c \in combine(CHOOSE o \in old : TRUE, CHOOSE n \in new : TRUE)}

(* The zip ends with the shorter list: the accumulator keeps the length    *)
(* that the first call gave it, and what a later call has behind that is   *)
(* dropped.                                                                *)
Zipped(old, new) ==
    LET joined == [place \in DOMAIN old |->
                      Joined(old[place], IF place \in DOMAIN new THEN new[place] ELSE {})]
    IN  {zip \in [DOMAIN old -> UNION ToSet(joined)] :
            \A place \in DOMAIN old : zip[place] \in joined[place]}

(* join_all gives the results in the order of the calls; they are folded   *)
(* into the first.  How many sets a call has is up to the function.        *)
Combine ==
    /\ pc = "run" /\ next <= Len(final_sharding)
    /\ \E result \in (IF next <= MaxResults THEN Results ELSE {<<>>}) :
           LET new == [place \in DOMAIN result |->
                          {[i \in DOMAIN items |-> [key |-> items[i], id |-> <<next, place, i>>]] :
                              items \in result[place]}]
           IN  /\ returned' = Append(returned, new)
               /\ accumulator' \in IF next = 1 THEN {new} ELSE Zipped(accumulator, new)
    /\ next' = next + 1
    /\ UNCHANGED <<input, pc, iterator, final_sharding, output>>

(* A call has failed: its error is the result of all of them. *)
Fail ==
    /\ pc = "run" /\ next <= Len(final_sharding)
    /\ pc' = "failed"
    /\ UNCHANGED <<input, next, iterator, final_sharding, returned, accumulator, output>>

(* Sets the composition has an id for; none was made if nobody was called. *)
Done ==
    LET sets == IF final_sharding = <<>> THEN [place \in DOMAIN OutputMapping |-> {}]
                ELSE accumulator
    IN  /\ pc = "run" /\ next > Len(final_sharding)
        /\ accumulator' = sets
        /\ output' = UNION {{[id |-> id, set |-> sets[place]] : id \in OutputMapping[place]} :
                                place \in DOMAIN OutputMapping \cap DOMAIN sets}
        /\ pc' = "done"
        /\ UNCHANGED <<input, next, iterator, final_sharding, returned>>

Next == CallOnce \/ Build \/ First \/ Advance \/ Combine \/ Fail \/ Done
Spec == Init /\ [][Next]_vars

-----------------------------------------------------------------------------
Over == pc \in {"run", "failed", "done", "panic"}
ShardsOf(i) == shard(input.sets[i].items, input.sets[i].mode)
Slots(i) == IF i \in Given THEN {{s} : s \in ToSet(ShardsOf(i))} ELSE {{}}
IsDefault == input.strategies = <<>>
Calls == ToSet(final_sharding)
TimesGiven(i, s) == Cardinality({c \in DOMAIN final_sharding : final_sharding[c][i] = {s}})

(* Types, and: every slot of a call holds at most one shard, of its set. *)
TypeOK ==
    /\ pc \in {"build", "advance", "run", "failed", "done", "panic"}
    /\ next \in 1 .. Len(input.sets) + Len(final_sharding) + 1
    /\ \A c \in DOMAIN final_sharding : \A i \in DOMAIN input.sets :
           \/ final_sharding[c][i] = {}
           \/ \E s \in ToSet(ShardsOf(i)) : final_sharding[c][i] = {s}

(* Splitting loses and doubles nothing, each takes one item, and keyed     *)
(* takes all items of a key, whatever was combined before (shard).         *)
ShardsPartition ==
    \A items \in {input.sets[i].items : i \in DOMAIN input.sets} \cup UNION ToSet(accumulator) :
        items # <<>> => \A mode \in {"all", "key", "each"} :
            LET shards == shard(items, mode)
            IN  /\ \A s \in DOMAIN shards : shards[s] # <<>>
                /\ \A item \in ToSet(items) :
                       Cardinality({s \in DOMAIN shards : item \in ToSet(shards[s])}) = 1
                /\ mode = "key" => \A s, t \in DOMAIN shards :
                       s = t <=> \E i \in ToSet(shards[s]), j \in ToSet(shards[t]) : i.key = j.key

(* Without a by clause the function is called exactly once for every       *)
(* combination of shards, and empty sets do not take part.                 *)
CrossIsProduct ==
    IsDefault => /\ pc # "panic"
                 /\ Over =>
                        /\ IsInjective(final_sharding)
                        /\ Calls = {c \in [DOMAIN input.sets -> UNION {Slots(i) : i \in DOMAIN input.sets}] :
                                        \A i \in DOMAIN input.sets : c[i] \in Slots(i)}

(* A left join calls the function exactly once for every shard on the      *)
(* left, a right join for every shard on the right, whatever matches.      *)
SideIsKept ==
    \A side \in {"left", "right"} :
        Len(input.sets) = 2 /\ input.strategies = <<side>> /\ Given = {1, 2}
        /\ Over =>
            LET kept == JoinOrder(input)[IF side = "left" THEN 1 ELSE 2]
            IN  /\ Len(final_sharding) = Len(ShardsOf(kept))
                /\ \A s \in ToSet(ShardsOf(kept)) : TimesGiven(kept, s) = 1

(* The items that the calls made for a place, and: the composition is      *)
(* given exactly these under the place's id, each once and sorted by key.  *)
Made(place) ==
    UNION {UNION {ToSet(items) : items \in r[place]} :
              r \in {q \in ToSet(returned) : place \in DOMAIN q}}
Arrives(place, id) ==
    \E o \in output :
        /\ \A p \in output : p.id = id => p = o
        /\ o.id = id
        /\ \A items \in o.set : ByKey(items) /\ IsInjective(items)
        /\ UNION {ToSet(items) : items \in o.set} = Made(place)

(* No result of any call is lost or doubled in the output sets that the    *)
(* first call reported, whatever the other calls report (the fold of       *)
(* queue_function_sharded).                                                *)
ResultsKept ==
    pc = "done" => \A place \in DOMAIN OutputMapping : \A id \in OutputMapping[place] :
                       returned = <<>> \/ place <= Len(returned[1]) => Arrives(place, id)

(* The same of every output set.  It fails: see Zipped. *)
AllResultsKept ==
    pc = "done" => \A place \in DOMAIN OutputMapping : \A id \in OutputMapping[place] :
                       Made(place) # {} => Arrives(place, id)

(* The join types of the documentation, for two keyed sets: inner takes    *)
(* the keys of both sets, left and right those of one side, outer those of *)
(* either, and a call has all items of its key.                            *)
KeysOf(i) == {item.key : item \in ToSet(input.sets[i].items)}
Group(i, k) == {s \in ToSet(ShardsOf(i)) : s[1].key = k}
JoinsAsDescribed ==
    \A strategy \in {"inner", "left", "right", "outer"} :
        Len(input.sets) = 2 /\ input.strategies = <<strategy>> /\ Given = {1, 2}
        /\ Over /\ (\A i \in {1, 2} : input.sets[i].mode = "key") =>
            LET l == JoinOrder(input)[1]
                r == JoinOrder(input)[2]
                keys == CASE strategy = "inner" -> KeysOf(l) \cap KeysOf(r)
                          [] strategy = "left" -> KeysOf(l)
                          [] strategy = "right" -> KeysOf(r)
                          [] strategy = "outer" -> KeysOf(l) \cup KeysOf(r)
            IN  pc # "panic" /\ Calls = {[i \in {1, 2} |-> Group(i, k)] : k \in keys}
=============================================================================
