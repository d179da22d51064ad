----------------------------- MODULE MemoryPool ------------------------------
(***************************************************************************)
(* The users of a RangePool: MmapMemPool (util/mmapmem.rs), which the      *)
(* process domain allocates its contexts from, and KvmMemoryDomain         *)
(* (memory_domain/kvm.rs).  Both hand out multiples of a unit (SLAB_SIZE,  *)
(* PAGE_SIZE), take the units from the pool under its mutex, prepare the   *)
(* memory outside of the mutex (madvise, mmap), and give the units back    *)
(* when the context is dropped.                                            *)
(*                                                                         *)
(* A handle stands for one caller and the context it may hold.  Callers    *)
(* run on different engine threads, so their steps interleave.             *)
(***************************************************************************)
EXTENDS RangePool

CONSTANTS
    Handles,   \* callers, each holding at most one allocation
    Unit,      \* SLAB_SIZE or PAGE_SIZE
    PoolSize,  \* size of the backing memory in bytes
    MaxSize,   \* largest size not refused outright: the pool's size in
               \* MmapMemPool, u32::MAX pages in KvmMemoryDomain
    Requests   \* sizes in bytes the callers ask for

VARIABLES
    phase,   \* per handle: "none", "preparing" or "live"
    first,   \* per handle: first unit of its allocation
    past,    \* per handle: one past the last unit
    asked,   \* per handle: units its last acquire_context asked the pool for
    reply,   \* per handle: outcome of that acquire_context
    leaked   \* units taken from the pool that nothing will give back

vars == <<ranges, sizes, phase, first, past, asked, reply,
          leaked>>

Units == PoolSize \div Unit

ASSUME UnitAssumption == Unit \in Nat \ {0}
ASSUME PoolSizeAssumption == PoolSize \in Nat
ASSUME RequestsAssumption == Requests \subseteq Nat
ASSUME MaxSizeAssumption == MaxSize \in Nat

Replies ==
    {"idle", "ok", "InvalidMemorySize", "ReachedCapacity", "CleaningFailure"}

(* Round up to whole units. *)
UnitsFor(bytes) == (bytes + Unit - 1) \div Unit

Init ==
    /\ New(0, Units)
    /\ phase = [h \in Handles |-> "none"]
    /\ first = [h \in Handles |-> 0]
    /\ past = [h \in Handles |-> 0]
    /\ asked = [h \in Handles |-> 0]
    /\ reply = [h \in Handles |-> "idle"]
    /\ leaked = {}

(* The size check before anything is taken. *)
RefuseSize(h, bytes) ==
    /\ phase[h] = "none"
    /\ bytes > MaxSize
    /\ reply' = [reply EXCEPT ![h] = "InvalidMemorySize"]
    /\ UNCHANGED <<ranges, sizes, phase, first, past, asked, leaked>>

(* Take the units under the mutex. *)
Take(h, bytes) ==
    /\ phase[h] = "none"
    /\ ~(bytes > MaxSize)
    /\ \E got \in 0 .. Units :
        /\ Get(UnitsFor(bytes), 0, got)
        /\ first' = [first EXCEPT ![h] = got]
        /\ past' = [past EXCEPT ![h] = got + UnitsFor(bytes)]
    /\ phase' = [phase EXCEPT ![h] = "preparing"]
    /\ asked' = [asked EXCEPT ![h] = UnitsFor(bytes)]
    /\ reply' = [reply EXCEPT ![h] = "idle"]
    /\ UNCHANGED leaked

(* Nothing fits. *)
RefuseFull(h, bytes) ==
    /\ phase[h] = "none"
    /\ ~(bytes > MaxSize)
    /\ GetNone(UnitsFor(bytes), 0)
    /\ asked' = [asked EXCEPT ![h] = UnitsFor(bytes)]
    /\ reply' = [reply EXCEPT ![h] = "ReachedCapacity"]
    /\ UNCHANGED <<phase, first, past, leaked>>

(* madvise or mmap succeeded and the context is returned. *)
Prepared(h) ==
    /\ phase[h] = "preparing"
    /\ phase' = [phase EXCEPT ![h] = "live"]
    /\ reply' = [reply EXCEPT ![h] = "ok"]
    /\ UNCHANGED <<ranges, sizes, first, past, asked, leaked>>

(* madvise or mmap failed: the error (CleaningFailure, or Mapping in the   *)
(* kvm domain) is returned and the units stay taken.                       *)
PrepareFails(h) ==
    /\ phase[h] = "preparing"
    /\ phase' = [phase EXCEPT ![h] = "none"]
    /\ reply' = [reply EXCEPT ![h] = "CleaningFailure"]
    /\ leaked' = leaked \cup Span(first[h], past[h])
    /\ first' = [first EXCEPT ![h] = 0]
    /\ past' = [past EXCEPT ![h] = 0]
    /\ UNCHANGED <<ranges, sizes, asked>>

(* Drop of MmapMem or KvmContext. *)
Drop(h) ==
    /\ phase[h] = "live"
    /\ Insert(first[h], past[h])
    /\ phase' = [phase EXCEPT ![h] = "none"]
    /\ first' = [first EXCEPT ![h] = 0]
    /\ past' = [past EXCEPT ![h] = 0]
    /\ asked' = [asked EXCEPT ![h] = 0]
    /\ reply' = [reply EXCEPT ![h] = "idle"]
    /\ UNCHANGED leaked

Next ==
    \E h \in Handles :
        \/ \E bytes \in Requests :
            \/ RefuseSize(h, bytes)
            \/ Take(h, bytes)
            \/ RefuseFull(h, bytes)
        \/ Prepared(h)
        \/ PrepareFails(h)
        \/ Drop(h)

Spec == Init /\ [][Next]_vars

-----------------------------------------------------------------------------
(* The units a handle holds, and the units held by anybody. *)
Owned(h) == IF phase[h] = "none" THEN {} ELSE Span(first[h], past[h])
Taken == leaked \cup UNION {Owned(h) : h \in Handles}

(* Every variable holds a value of its kind, and every range lies inside   *)
(* the backing memory.                                                     *)
TypeOK ==
    /\ DOMAIN ranges \subseteq 0 .. Units
    /\ ranges \in [DOMAIN ranges -> 0 .. Units]
    /\ sizes \subseteq (0 .. Units) \X (0 .. Units)
    /\ phase \in [Handles -> {"none", "preparing", "live"}]
    /\ first \in [Handles -> 0 .. Units]
    /\ past \in [Handles -> 0 .. Units]
    /\ asked \in [Handles -> Nat]
    /\ reply \in [Handles -> Replies]
    /\ leaked \subseteq 0 .. (Units - 1)

(* No unit is given to two contexts, and none that is in use or leaked is  *)
(* still in the pool: contexts never share memory, however acquisitions,   *)
(* failures and drops interleave.                                          *)
NoOverlap ==
    /\ Taken \cap Free = {}
    /\ \A g, h \in Handles : g # h => Owned(g) \cap Owned(h) = {}
    /\ \A h \in Handles : Owned(h) \cap leaked = {}

(* No unit is forgotten: each one is free, held, or lost to a failed       *)
(* preparation.                                                            *)
NothingLost == Free \cup Taken = 0 .. (Units - 1)

(* insert merges with both neighbours, so a free range never ends where    *)
(* another one begins, and the ranges do not overlap.                      *)
Coalesced == \A s, t \in DOMAIN ranges : s < t => ranges[s] < t

(* get fails only when no run of free units is long enough: best fit over  *)
(* coalesced ranges never refuses a request that could be served.          *)
RefusalIsJustified ==
    \A n \in 1 .. Units : \A a \in 0 .. (Units - n) :
        Span(a, a + n) \subseteq Free => Fitting(n, 0) # {}

(* What the pools promise: an allocator of contiguous runs of units that   *)
(* may lose a run when its preparation fails.                              *)
Allocator ==
    INSTANCE SlabAllocator WITH
        Sizes <- {UnitsFor(bytes) : bytes \in Requests},
        owned <- [h \in Handles |-> Owned(h)]
RefinesAllocator == Allocator!Spec

=============================================================================
