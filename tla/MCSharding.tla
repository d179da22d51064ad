----------------------------- MODULE MCSharding -----------------------------
(***************************************************************************)
(* Three input sets with two items or none in every sharding mode, split   *)
(* by default, single sets of up to three items, and two sets of up to     *)
(* MaxItems items with MaxKeys keys in every join and order, and three     *)
(* keyed sets in every pair of joins.  Calls report no, one, both or more  *)
(* than the two declared output sets.                                      *)
(***************************************************************************)
EXTENDS Sharding

ItemLists(keys, lengths) ==
    {s \in UNION {[1 .. n -> keys] : n \in lengths} : \A i, j \in DOMAIN s : i < j => s[i] <= s[j]}
Sets(keys, lengths, modes) ==
    {[items |-> [i \in DOMAIN s |-> [key |-> s[i], id |-> <<0, i>>]], mode |-> m] :
        s \in ItemLists(keys, lengths), m \in modes}

Modes == {"all", "key", "each"}
Strategies == {"inner", "left", "right", "outer"}

CONSTANTS MaxItems, MaxKeys

Products ==
    {[sets |-> s, order |-> <<>>, strategies |-> <<>>] :
        s \in [1 .. 3 -> Sets({1, 2}, {0, 2}, Modes)] \cup [1 .. 1 -> Sets({1, 2}, 0 .. 3, Modes)]}
Joins ==
    {[sets |-> <<s, t>>, order |-> o, strategies |-> <<j>>] :
        s \in Sets(1 .. MaxKeys, 0 .. MaxItems, Modes), t \in Sets(1 .. MaxKeys, 0 .. MaxItems, Modes),
        o \in {<<1, 2>>, <<2, 1>>}, j \in Strategies}
Chains ==
    {[sets |-> s, order |-> <<1, 2, 3>>, strategies |-> j] :
        s \in [1 .. 3 -> Sets({1, 2}, {2}, {"key"})], j \in [1 .. 2 -> Strategies]}
MCInputs == Products \cup Joins \cup Chains

(* Inner joins of two keyed sets of which one has more keys. *)
Keys(set) == {item.key : item \in ToSet(set.items)}
InnerJoins ==
    {in \in Joins : /\ in.strategies = <<"inner">>
                    /\ \A i \in 1 .. 2 : in.sets[i].mode = "key"
                    /\ Cardinality(Keys(in.sets[1])) # Cardinality(Keys(in.sets[2]))}

MCOutputMapping == <<{1}, {2}>>
MCResults == {<<>>, <<{<<1>>}>>, <<{}, {<<1, 2>>}>>, <<{<<2>>}, {<<1>>}, {<<1>>}>>}
=============================================================================
