------------------------------ MODULE RangePool ------------------------------
(***************************************************************************)
(* dandelion_commons/src/range_pool.rs: the allocator of index ranges that *)
(* sits under every pooled memory domain.  Free indices are recorded       *)
(* twice: "ranges" maps the start of each free range to one past its end,  *)
(* "sizes" orders the same ranges by <<size, start>> so that the smallest  *)
(* range that fits is found first.                                         *)
(*                                                                         *)
(* The two operations are step predicates; the pool is used behind a       *)
(* mutex, so each of them is one atomic step of its caller (MemoryPool).   *)
(***************************************************************************)
EXTENDS Integers

VARIABLES
    ranges,   \* BTreeMap: start of a free range |-> one past its end
    sizes     \* BTreeSet of <<size, start>> of the free ranges

poolVars == <<ranges, sizes>>

(* BTreeMap::insert and BTreeMap::remove. *)
Put(m, k, v) == [x \in DOMAIN m \cup {k} |-> IF x = k THEN v ELSE m[x]]
Remove(m, k) == [x \in DOMAIN m \ {k} |-> m[x]]

(* Order of the (size, start) tuples in the BTreeSet. *)
TupleLeq(e, f) == e[1] < f[1] \/ (e[1] = f[1] /\ e[2] <= f[2])

(* RangePool::new(start..end) *)
New(start, end) ==
    /\ ranges = [s \in {start} |-> end]
    /\ sizes = {<<end - start, start>>}

(* The entries of sizes.range((Included((requested, min)), Unbounded)). *)
Fitting(requested, min) == {e \in sizes : TupleLeq(<<requested, min>>, e)}

(* The first of them, which is the smallest range that fits. *)
IsFirst(e, requested, min) ==
    /\ e \in Fitting(requested, min)
    /\ \A f \in Fitting(requested, min) : TupleLeq(e, f)

(* get on a larger range: the range keeps its start and its last           *)
(* "requested" indices are handed out.  The expect of line 47 is the       *)
(* second conjunct; SizesMirrorRanges says that it always holds.           *)
Split(e, requested, got) ==
    /\ e[1] > requested
    /\ e[2] \in DOMAIN ranges
    /\ got = ranges[e[2]] - requested
    /\ ranges' = [ranges EXCEPT ![e[2]] = got]
    /\ sizes' = (sizes \ {e}) \cup {<<e[1] - requested, e[2]>>}

(* get on a range of exactly the requested size. *)
TakeWhole(e, requested, got) ==
    /\ ~(e[1] > requested)
    /\ got = e[2]
    /\ ranges' = Remove(ranges, e[2])
    /\ sizes' = sizes \ {e}

(* get(requested, min) = Some(got) *)
Get(requested, min, got) ==
    \E e \in sizes :
        /\ IsFirst(e, requested, min)
        /\ Split(e, requested, got) \/ TakeWhole(e, requested, got)

(* get(requested, min) = None *)
GetNone(requested, min) ==
    /\ Fitting(requested, min) = {}
    /\ UNCHANGED poolVars

(* The range before start, if it ends exactly at start. *)
EndsAt(m, start, p) ==
    /\ p \in DOMAIN m
    /\ p < start
    /\ \A q \in DOMAIN m : q < start => q <= p
    /\ m[p] = start

(* Mutant: no merge with either neighbour. *)
InsertAlone(start, end) ==
    /\ ranges' = Put(ranges, start, end)
    /\ sizes' = sizes \cup {<<end - start, start>>}

(* Mutant: a merge with the previous range leaves its old size behind. *)
InsertKeepsOldSize(start, end) ==
    \/ \E p \in DOMAIN ranges :
        /\ EndsAt(ranges, start, p)
        /\ ranges' = [ranges EXCEPT ![p] = end]
        /\ sizes' = sizes \cup {<<end - p, p>>}
    \/ /\ ~ \E p \in DOMAIN ranges : EndsAt(ranges, start, p)
       /\ ranges' = Put(ranges, start, end)
       /\ sizes' = sizes \cup {<<end - start, start>>}

(* insert(start, end): merge with the range that starts at end, then with  *)
(* the range that ends at start.                                           *)
Insert(start, end) ==
    LET joins  == end \in DOMAIN ranges
        newEnd == IF joins THEN ranges[end] ELSE end
        rest   == Remove(ranges, end)
        kept   == IF joins THEN sizes \ {<<newEnd - end, end>>} ELSE sizes
    IN  /\ \/ \E p \in DOMAIN rest :
                /\ EndsAt(rest, start, p)
                /\ ranges' = [rest EXCEPT ![p] = newEnd]
                /\ sizes' = (kept \ {<<start - p, p>>})
                               \cup {<<newEnd - p, p>>}
           \/ /\ ~ \E p \in DOMAIN rest : EndsAt(rest, start, p)
              /\ ranges' = Put(rest, start, newEnd)
              /\ sizes' = kept \cup {<<newEnd - start, start>>}
    
-----------------------------------------------------------------------------
(* The free indices. *)
Span(start, end) == start .. (end - 1)
Free == UNION {Span(s, ranges[s]) : s \in DOMAIN ranges}

(* "sizes" is an index of "ranges": the debug_asserts of insert and the    *)
(* expect of get hold in every state.                                      *)
SizesMirrorRanges == sizes = {<<ranges[s] - s, s>> : s \in DOMAIN ranges}

(* The expect of get alone, line 47: "Should have range in ranges that was *)
(* found in sizes".                                                        *)
SizesHaveRanges == \A e \in sizes : e[2] \in DOMAIN ranges

=============================================================================
