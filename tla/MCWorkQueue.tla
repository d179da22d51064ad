----------------------------- MODULE MCWorkQueue -----------------------------
(* Two compute engines c1 and c2, one reqwest engine r, as many promise    *)
(* slots as the configuration says.                                        *)
EXTENDS WorkQueue

CONSTANTS c1, c2, r, Kvm, Reqwest

MCSpinners == {c1, c2}
MCTriers == {r}
MCKinds == {Kvm, Reqwest}
MCKind == [e \in {c1, c2, r} |-> IF e = r THEN Reqwest ELSE Kvm]
MCFlagSets == {{Kvm}, {Reqwest}}

=============================================================================
