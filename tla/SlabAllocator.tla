---------------------------- MODULE SlabAllocator ----------------------------
(***************************************************************************)
(* What a pooled memory domain promises its callers: a caller is given a   *)
(* contiguous run of units nobody holds, gives all of it back at once, and *)
(* is refused for lack of space only when no free run is long enough.  A   *)
(* run whose preparation fails is lost for good.                           *)
(***************************************************************************)
EXTENDS Integers

CONSTANTS Handles, Units, Sizes

VARIABLES owned, leaked, asked, reply

vars == <<owned, leaked, asked, reply>>

Available == (0 .. (Units - 1)) \ (leaked \cup UNION {owned[h] : h \in Handles})

Run(a, n) == a .. (a + n - 1)

Init ==
    /\ owned = [h \in Handles |-> {}]
    /\ leaked = {}
    /\ asked = [h \in Handles |-> 0]
    /\ reply = [h \in Handles |-> "idle"]

Grant(h, n) ==
    /\ owned[h] = {}
    /\ \E a \in 0 .. (Units - n) :
        /\ Run(a, n) \subseteq Available
        /\ owned' = [owned EXCEPT ![h] = Run(a, n)]
    /\ asked' = [asked EXCEPT ![h] = n]
    /\ reply' = [reply EXCEPT ![h] = "idle"]
    /\ UNCHANGED leaked

Refuse(h, n) ==
    /\ owned[h] = {}
    /\ \A a \in 0 .. (Units - n) : ~(Run(a, n) \subseteq Available)
    /\ asked' = [asked EXCEPT ![h] = n]
    /\ reply' = [reply EXCEPT ![h] = "ReachedCapacity"]
    /\ UNCHANGED <<owned, leaked>>

RefuseSize(h) ==
    /\ owned[h] = {}
    /\ reply' = [reply EXCEPT ![h] = "InvalidMemorySize"]
    /\ UNCHANGED <<owned, leaked, asked>>

Deliver(h) ==
    /\ owned[h] # {}
    /\ reply' = [reply EXCEPT ![h] = "ok"]
    /\ UNCHANGED <<owned, leaked, asked>>

Lose(h) ==
    /\ owned[h] # {}
    /\ leaked' = leaked \cup owned[h]
    /\ owned' = [owned EXCEPT ![h] = {}]
    /\ reply' = [reply EXCEPT ![h] = "CleaningFailure"]
    /\ UNCHANGED asked

Release(h) ==
    /\ owned[h] # {}
    /\ owned' = [owned EXCEPT ![h] = {}]
    /\ asked' = [asked EXCEPT ![h] = 0]
    /\ reply' = [reply EXCEPT ![h] = "idle"]
    /\ UNCHANGED leaked

Next ==
    \E h \in Handles :
        \/ \E n \in Sizes : Grant(h, n) \/ Refuse(h, n)
        \/ RefuseSize(h) \/ Deliver(h) \/ Lose(h) \/ Release(h)

Spec == Init /\ [][Next]_vars

=============================================================================
