------------------------- MODULE MCQueueComposition -------------------------
(* Compositions of three functions for TLC: f1 makes two sets, f2 and f3   *)
(* one each, f2 may use what f1 makes and f3 what both make.               *)
EXTENDS QueueComposition, TLC

CONSTANTS f1, f2, f3, p, a, b, c, d

MCFunctions == {f1, f2, f3}
MCSets == {p, a, b, c, d}

Takes(sets) == [set : sets, optional : BOOLEAN]

Outs == f1 :> <<a, b>> @@ f2 :> <<NoSet, c>> @@ f3 :> <<d>>

Layered ==
    {[inputs |-> f1 :> i1 @@ f2 :> i2 @@ f3 :> i3, outputs |-> Outs,
      returns |-> {p, b, d}] :
        i1 \in {<<>>} \cup {<<t>> : t \in Takes({p})},
        i2 \in {<<t, u>> : t \in Takes({a}), u \in Takes({p, a})},
        i3 \in {<<t, u>> : t \in Takes({b, c}), u \in Takes({a, c})}}

AllGiven == {{p}}
NothingGiven == {{}}

ASSUME LayeredAreWellDefined == \A x \in Layered, passed \in AllGiven : WellDefined(x, passed)

(* Two functions make the returned set d. *)
Doubled ==
    {[inputs |-> f1 :> <<>> @@ f2 :> <<[set |-> a, optional |-> FALSE]>> @@ f3 :> <<>>,
      outputs |-> f1 :> <<a, b>> @@ f2 :> <<d>> @@ f3 :> <<d>>, returns |-> {d}]}

=============================================================================
