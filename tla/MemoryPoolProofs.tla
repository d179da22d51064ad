--------------------------- MODULE MemoryPoolProofs --------------------------
(***************************************************************************)
(* Proofs about MemoryPool for every pool size, unit, set of callers and   *)
(* set of (non-empty) requests.                                            *)
(*                                                                         *)
(* The argument has two layers.  PoolInv is about the two maps of the      *)
(* RangePool alone; GetLemma and InsertLemma say what the operations do to *)
(* the set Free and that they preserve PoolInv.  Inv adds the callers, and *)
(* from then on only Free, never the maps, is mentioned.                   *)
(***************************************************************************)
EXTENDS MemoryPool, TLAPS

(* The solvers are given time, for slow or busy machines. *)
USE SMTT(60), ZenonT(30)

(* The callers never ask for zero bytes.  The program does not ensure it:  *)
(* the context size of a registration is taken as the client gives it, and *)
(* MemoryPoolZero.cfg shows what a zero leads to.                          *)
PositiveRequests == 0 \notin Requests

LEMMA UnitsNat == Units \in Nat
  BY UnitAssumption, PoolSizeAssumption DEF Units

LEMMA UnitsForPositive ==
  ASSUME PositiveRequests, NEW bytes \in Requests
  PROVE  UnitsFor(bytes) \in Nat \ {0}
  <1>1. bytes \in Nat \ {0}
    BY RequestsAssumption DEF PositiveRequests
  <1>2. bytes + Unit - 1 >= Unit
    BY <1>1, UnitAssumption
  <1>3. QED
    BY <1>1, <1>2, UnitAssumption DEF UnitsFor

-----------------------------------------------------------------------------
(* The maps of the pool: every range is within the memory and not empty    *)
(* (the single range of a pool without units is), ranges are disjoint and  *)
(* not adjacent, and sizes is their index.                                 *)
PoolInv ==
  /\ DOMAIN ranges \subseteq 0 .. Units
  /\ ranges \in [DOMAIN ranges -> 0 .. Units]
  /\ \A s \in DOMAIN ranges : s < ranges[s] \/ Units = 0
  /\ Coalesced
  /\ SizesMirrorRanges

InFree(x) == \E s \in DOMAIN ranges : s <= x /\ x < ranges[s]

LEMMA FreeIff ==
  ASSUME PoolInv, NEW x
  PROVE  x \in Free <=> x \in Int /\ InFree(x)
  BY UnitsNat DEF PoolInv, Free, Span, InFree

LEMMA FreeIffPrime ==
  ASSUME PoolInv', NEW x
  PROVE  x \in Free' <=> x \in Int /\ InFree(x)'
  BY UnitsNat DEF PoolInv, Free, Span, InFree

(* A successful get returns the start of n free units inside one range and *)
(* removes exactly those.                                                  *)
LEMMA GetLemma ==
  ASSUME PoolInv, NEW n \in Nat \ {0}, NEW got, Get(n, 0, got)
  PROVE  /\ PoolInv'
         /\ got \in 0 .. Units /\ got + n \in 0 .. Units
         /\ Span(got, got + n) \subseteq Free
         /\ Free' = Free \ Span(got, got + n)
  <1> USE UnitsNat
  <1>1. PICK e \in sizes :
            /\ IsFirst(e, n, 0)
            /\ Split(e, n, got) \/ TakeWhole(e, n, got)
    BY DEF Get
  <1>2. PICK s \in DOMAIN ranges : e = <<ranges[s] - s, s>>
    BY <1>1 DEF PoolInv, SizesMirrorRanges
  <1>3. s \in 0 .. Units /\ ranges[s] \in 0 .. Units /\ ranges[s] - s >= n
    BY <1>1, <1>2 DEF PoolInv, IsFirst, Fitting, TupleLeq
  <1>4. e[1] = ranges[s] - s /\ e[2] = s
    BY <1>2
  <1>5. CASE Split(e, n, got)
    <2>1. /\ ranges[s] - s > n
          /\ got = ranges[s] - n
          /\ ranges' = [ranges EXCEPT ![s] = got]
          /\ sizes' = (sizes \ {e}) \cup {<<(ranges[s] - s) - n, s>>}
      BY <1>4, <1>5 DEF Split
    <2>2. DOMAIN ranges' = DOMAIN ranges
      BY <2>1
    <2>3. \A t \in DOMAIN ranges :
             ranges'[t] = IF t = s THEN ranges[s] - n ELSE ranges[t]
      BY <2>1
    <2>4. PoolInv'
      <3>1. SizesMirrorRanges'
        <4>1. \A t \in DOMAIN ranges : t \in Int /\ ranges[t] \in Int
          BY DEF PoolInv
        <4>2. sizes = {<<ranges[t] - t, t>> : t \in DOMAIN ranges}
          BY DEF PoolInv, SizesMirrorRanges
        <4>3. \A t \in DOMAIN ranges :
                 t # s => <<ranges[t] - t, t>> # <<ranges[s] - s, s>>
          OBVIOUS
        <4>4. sizes \ {e} = {<<ranges[t] - t, t>> : t \in DOMAIN ranges \ {s}}
          BY <1>2, <4>2, <4>3
        <4>5. got - s = (ranges[s] - s) - n
          BY <1>3, <2>1
        <4>6. QED
          BY <2>1, <2>2, <2>3, <4>4, <4>5 DEF SizesMirrorRanges
      <3>2. Coalesced'
        BY <1>3, <2>1, <2>2, <2>3 DEF PoolInv, Coalesced
      <3>3. QED
        BY <1>3, <2>1, <2>2, <2>3, <3>1, <3>2 DEF PoolInv
    <2>5. got \in 0 .. Units /\ got + n \in 0 .. Units /\ s <= got
      BY <1>3, <2>1
    <2>6. \A x \in Int :
             InFree(x)' <=> InFree(x) /\ ~(got <= x /\ x < got + n)
      BY <1>3, <2>1, <2>2, <2>3 DEF InFree, PoolInv, Coalesced
    <2>7. \A x \in Int : got <= x /\ x < got + n => InFree(x)
      BY <1>3, <2>1 DEF InFree
    <2>8. \A x : x \in Span(got, got + n) <=> x \in Int /\ got <= x /\ x < got + n
      BY <2>5 DEF Span
    <2>9. QED
      BY <2>4, <2>5, <2>6, <2>7, <2>8, FreeIff, FreeIffPrime
  <1>6. CASE TakeWhole(e, n, got)
    <2>1. /\ ranges[s] - s = n
          /\ got = s
          /\ ranges' = [t \in DOMAIN ranges \ {s} |-> ranges[t]]
          /\ sizes' = sizes \ {e}
      BY <1>3, <1>4, <1>6 DEF TakeWhole, Remove
    <2>2. DOMAIN ranges' = DOMAIN ranges \ {s}
      BY <2>1
    <2>3. \A t \in DOMAIN ranges \ {s} : ranges'[t] = ranges[t]
      BY <2>1
    <2>4. PoolInv'
      <3>1. SizesMirrorRanges'
        <4>1. \A t \in DOMAIN ranges :
                 t # s => <<ranges[t] - t, t>> # <<ranges[s] - s, s>>
          OBVIOUS
        <4>2. sizes \ {e} = {<<ranges[t] - t, t>> : t \in DOMAIN ranges \ {s}}
          BY <1>2, <4>1 DEF PoolInv, SizesMirrorRanges
        <4>3. QED
          BY <2>1, <2>2, <2>3, <4>2 DEF SizesMirrorRanges
      <3>2. QED
        BY <2>1, <2>2, <2>3, <3>1 DEF PoolInv, Coalesced
    <2>5. got \in 0 .. Units /\ got + n \in 0 .. Units
      BY <1>3, <2>1
    <2>6. \A x \in Int :
             InFree(x)' <=> InFree(x) /\ ~(got <= x /\ x < got + n)
      BY <1>3, <2>1, <2>2, <2>3 DEF InFree, PoolInv, Coalesced
    <2>7. \A x \in Int : got <= x /\ x < got + n => InFree(x)
      BY <1>3, <2>1 DEF InFree
    <2>8. \A x : x \in Span(got, got + n) <=> x \in Int /\ got <= x /\ x < got + n
      BY <2>5 DEF Span
    <2>9. QED
      BY <2>4, <2>5, <2>6, <2>7, <2>8, FreeIff, FreeIffPrime
  <1>7. QED
    BY <1>1, <1>5, <1>6

(* insert of a range of taken units adds exactly those to Free. *)
LEMMA InsertLemma ==
  ASSUME PoolInv, NEW a \in 0 .. Units, NEW b \in 0 .. Units, a < b,
         Span(a, b) \cap Free = {}, Insert(a, b)
  PROVE  PoolInv' /\ Free' = Free \cup Span(a, b)
  <1> USE UnitsNat
  <1> DEFINE joins  == b \in DOMAIN ranges
             newEnd == IF joins THEN ranges[b] ELSE b
             rest   == Remove(ranges, b)
             kept   == IF joins THEN sizes \ {<<newEnd - b, b>>} ELSE sizes
  <1>1. \A s \in DOMAIN ranges : s \in 0 .. Units /\ ranges[s] \in 0 .. Units
    BY Zenon DEF PoolInv
  <1>2. \A s \in DOMAIN ranges : s < ranges[s]
    <2>1. Units # 0
      OBVIOUS
    <2>2. QED
      BY <2>1, Zenon DEF PoolInv
  <1>3. \A x \in Int : x \in Span(a, b) <=> a <= x /\ x < b
    BY DEF Span
  (* The range being returned lies in a gap between the free ranges. *)
  <1>4. \A s \in DOMAIN ranges : ranges[s] <= a \/ b <= s
    <2>1. TAKE s \in DOMAIN ranges
    <2>2. s \in Int /\ ranges[s] \in Int /\ s < ranges[s]
      BY <1>1, <1>2
    <2>3. CASE a <= s
      <3>1. s \in Free
        BY <2>2, FreeIff DEF InFree
      <3>2. QED
        BY <1>3, <2>2, <2>3, <3>1
    <2>4. CASE s < a /\ a < ranges[s]
      <3>1. a \in Free
        BY <2>2, <2>4, FreeIff DEF InFree
      <3>2. QED
        BY <1>3, <3>1
    <2>5. QED
      BY <2>2, <2>3, <2>4
  <1>5. newEnd \in 0 .. Units /\ b <= newEnd
    BY <1>1, <1>2
  <1>6. /\ DOMAIN rest = DOMAIN ranges \ {b}
        /\ \A t \in DOMAIN rest : rest[t] = ranges[t]
    BY DEF Remove
  <1>7. \A t \in DOMAIN rest : ranges[t] <= a \/ newEnd < t
    <2>1. TAKE t \in DOMAIN rest
    <2>2. t \in DOMAIN ranges /\ t # b /\ t \in Int
      BY <1>1, <1>6
    <2>3. CASE ranges[t] <= a
      BY <2>3
    <2>4. CASE b < t
      <3>1. CASE joins
        BY <2>2, <2>4, <3>1 DEF PoolInv, Coalesced
      <3>2. CASE ~joins
        BY <2>4, <3>2
      <3>3. QED
        BY <3>1, <3>2
    <2>5. QED
      BY <1>4, <2>2, <2>3, <2>4
  <1>8. kept = {<<rest[t] - t, t>> : t \in DOMAIN rest}
    <2>1. CASE joins
      <3>1. \A t \in DOMAIN ranges :
               t # b => <<ranges[t] - t, t>> # <<ranges[b] - b, b>>
        OBVIOUS
      <3>2. kept = {<<ranges[t] - t, t>> : t \in DOMAIN ranges \ {b}}
        BY <2>1, <3>1 DEF PoolInv, SizesMirrorRanges
      <3>3. QED
        BY <1>6, <3>2
    <2>2. CASE ~joins
      BY <1>6, <2>2 DEF PoolInv, SizesMirrorRanges
    <2>3. QED
      BY <2>1, <2>2
  <1>9. \A x \in Int :
           InFree(x) <=> \/ \E t \in DOMAIN rest : t <= x /\ x < rest[t]
                         \/ b <= x /\ x < newEnd
    BY <1>1, <1>6 DEF InFree
  <1>10. ASSUME NEW p \in DOMAIN rest, EndsAt(rest, a, p),
                ranges' = [rest EXCEPT ![p] = newEnd],
                sizes' = (kept \ {<<a - p, p>>}) \cup {<<newEnd - p, p>>}
         PROVE  /\ PoolInv'
                /\ \A x \in Int : InFree(x)' <=> InFree(x) \/ (a <= x /\ x < b)
    <2>1. p \in 0 .. Units /\ p < a /\ rest[p] = a /\ ranges[p] = a
      BY <1>1, <1>6, <1>10 DEF EndsAt
    <2>2. DOMAIN ranges' = DOMAIN rest
      BY <1>10
    <2>3. \A t \in DOMAIN rest :
             ranges'[t] = IF t = p THEN newEnd ELSE rest[t]
      BY <1>10
    <2>4. SizesMirrorRanges'
      <3>1. \A t \in DOMAIN rest :
               t # p => <<rest[t] - t, t>> # <<rest[p] - p, p>>
        OBVIOUS
      <3>2. kept \ {<<a - p, p>>} =
               {<<rest[t] - t, t>> : t \in DOMAIN rest \ {p}}
        BY <1>8, <2>1, <3>1
      <3>3. QED
        BY <1>10, <2>2, <2>3, <3>2 DEF SizesMirrorRanges
    <2>5. Coalesced'
      BY <1>1, <1>2, <1>5, <1>6, <1>7, <2>1, <2>2, <2>3 DEF PoolInv, Coalesced
    <2>6. PoolInv'
      <3>1. \A t \in DOMAIN rest :
               /\ t \in 0 .. Units
               /\ ranges'[t] \in 0 .. Units
               /\ t < ranges'[t]
        BY <1>1, <1>2, <1>5, <1>6, <2>1, <2>3
      <3>2. ranges' = [t \in DOMAIN ranges' |-> ranges'[t]]
        BY <1>10, Zenon
      <3>3. QED
        BY <2>2, <2>4, <2>5, <3>1, <3>2 DEF PoolInv
    <2>7. \A x \in Int : InFree(x)' <=> InFree(x) \/ (a <= x /\ x < b)
      BY <1>1, <1>5, <1>6, <1>9, <2>1, <2>2, <2>3 DEF InFree
    <2>8. QED
      BY <2>6, <2>7
  <1>11. ASSUME ~ \E p \in DOMAIN rest : EndsAt(rest, a, p),
                ranges' = Put(rest, a, newEnd),
                sizes' = kept \cup {<<newEnd - a, a>>}
         PROVE  /\ PoolInv'
                /\ \A x \in Int : InFree(x)' <=> InFree(x) \/ (a <= x /\ x < b)
    <2>1. /\ DOMAIN ranges' = DOMAIN rest \cup {a}
          /\ \A t \in DOMAIN ranges' :
                ranges'[t] = IF t = a THEN newEnd ELSE rest[t]
          /\ ranges' = [t \in DOMAIN ranges' |-> ranges'[t]]
      BY <1>11 DEF Put
    (* The last range before a would be the one that ends at a. *)
    <2>2. \A t \in DOMAIN rest : rest[t] # a
      <3>1. SUFFICES ASSUME NEW t \in DOMAIN rest, rest[t] = a
                     PROVE  EndsAt(rest, a, t)
        BY <1>11
      <3>2. t \in Int /\ t < a
        BY <1>1, <1>2, <1>6, <3>1
      <3>3. \A q \in DOMAIN rest : q < a => q <= t
        BY <1>1, <1>2, <1>6, <3>1, <3>2 DEF PoolInv, Coalesced
      <3>4. QED
        BY <3>1, <3>2, <3>3 DEF EndsAt
    <2>3. a \notin DOMAIN rest
      BY <1>1, <1>2, <1>6, <1>7, <1>5
    <2>4. SizesMirrorRanges'
      BY <1>8, <1>11, <2>1, <2>3 DEF SizesMirrorRanges
    <2>5. Coalesced'
      BY <1>1, <1>2, <1>5, <1>6, <1>7, <2>1, <2>2, <2>3 DEF PoolInv, Coalesced
    <2>6. PoolInv'
      BY <1>1, <1>2, <1>5, <1>6, <2>1, <2>4, <2>5 DEF PoolInv
    <2>7. \A x \in Int : InFree(x)' <=> InFree(x) \/ (a <= x /\ x < b)
      BY <1>1, <1>5, <1>6, <1>9, <2>1, <2>3 DEF InFree
    <2>8. QED
      BY <2>6, <2>7
  <1>12. /\ PoolInv'
         /\ \A x \in Int : InFree(x)' <=> InFree(x) \/ (a <= x /\ x < b)
    BY <1>10, <1>11 DEF Insert
  <1>13. Free' = Free \cup Span(a, b)
    BY <1>3, <1>12, FreeIff, FreeIffPrime DEF Span
  <1>14. QED
    BY <1>12, <1>13

-----------------------------------------------------------------------------
(* The whole system: the pool's maps are sound, every allocation is a      *)
(* non-empty run of units, and no unit is free twice, held twice or        *)
(* forgotten.                                                              *)
Inv ==
  /\ PoolInv
  /\ phase \in [Handles -> {"none", "preparing", "live"}]
  /\ first \in [Handles -> 0 .. Units]
  /\ past \in [Handles -> 0 .. Units]
  /\ asked \in [Handles -> Nat]
  /\ reply \in [Handles -> Replies]
  /\ leaked \subseteq 0 .. (Units - 1)
  /\ \A h \in Handles : phase[h] # "none" => first[h] < past[h]
  /\ NoOverlap
  /\ NothingLost

LEMMA InitInv ==
  ASSUME Init
  PROVE  Inv
  <1> USE UnitsNat
  <1>1. PoolInv
    <2>1. DOMAIN ranges = {0} /\ ranges[0] = Units
      BY DEF Init, New
    <2>2. SizesMirrorRanges
      BY <2>1 DEF Init, New, SizesMirrorRanges
    <2>3. QED
      BY <2>1, <2>2 DEF Init, New, PoolInv, Coalesced
  <1>2. Free = 0 .. (Units - 1)
    BY Zenon DEF Init, New, Free, Span
  <1>3. Taken = {} /\ \A h \in Handles : Owned(h) = {}
    BY DEF Init, Taken, Owned
  <1>4. NoOverlap /\ NothingLost
    BY <1>2, <1>3 DEF Init, NoOverlap, NothingLost
  <1>5. QED
    BY <1>1, <1>4 DEF Init, Inv, Replies

(* Taking units from the pool. *)
LEMMA TakeInv ==
  ASSUME PositiveRequests, Inv, NEW h \in Handles, NEW bytes \in Requests,
         Take(h, bytes)
  PROVE  Inv'
  <1> USE UnitsNat
  <1> DEFINE n == UnitsFor(bytes)
  <1>1. n \in Nat \ {0}
    BY UnitsForPositive
  <1>2. PICK got \in 0 .. Units :
            /\ Get(n, 0, got)
            /\ first' = [first EXCEPT ![h] = got]
            /\ past' = [past EXCEPT ![h] = got + n]
    BY Zenon DEF Take
  <1>3. /\ phase[h] = "none"
        /\ phase' = [phase EXCEPT ![h] = "preparing"]
        /\ asked' = [asked EXCEPT ![h] = n]
        /\ reply' = [reply EXCEPT ![h] = "idle"]
        /\ leaked' = leaked
    BY DEF Take
  <1> HIDE DEF n
  <1>4. /\ PoolInv'
        /\ got + n \in 0 .. Units
        /\ Span(got, got + n) \subseteq Free
        /\ Free' = Free \ Span(got, got + n)
    BY <1>1, <1>2, GetLemma DEF Inv
  <1>5. Owned(h) = {} /\ Owned(h)' = Span(got, got + n)
    BY <1>2, <1>3 DEF Inv, Owned, Span
  <1>6. \A g \in Handles : g # h => Owned(g)' = Owned(g)
    BY <1>2, <1>3 DEF Inv, Owned, Span
  <1>7. Taken' = Taken \cup Span(got, got + n)
    BY <1>3, <1>5, <1>6 DEF Taken
  <1>8. NoOverlap'
    <2>1. Taken' \cap Free' = {}
      BY <1>4, <1>7 DEF Inv, NoOverlap
    <2>2. \A g \in Handles : Owned(g) \cap Span(got, got + n) = {}
      BY <1>4 DEF Inv, NoOverlap, Taken
    <2>3. leaked \cap Span(got, got + n) = {}
      BY <1>4 DEF Inv, NoOverlap, Taken
    <2>4. \A g, k \in Handles : g # k => Owned(g)' \cap Owned(k)' = {}
      BY <1>5, <1>6, <2>2 DEF Inv, NoOverlap
    <2>5. \A g \in Handles : Owned(g)' \cap leaked' = {}
      BY <1>3, <1>5, <1>6, <2>3 DEF Inv, NoOverlap
    <2>6. QED
      BY <2>1, <2>4, <2>5 DEF NoOverlap
  <1>9. NothingLost'
    BY <1>4, <1>7 DEF Inv, NothingLost
  <1>10. \A g \in Handles : phase'[g] # "none" => first'[g] < past'[g]
    BY <1>1, <1>2, <1>3 DEF Inv
  <1>11. QED
    BY <1>1, <1>2, <1>3, <1>4, <1>8, <1>9, <1>10 DEF Inv, Replies

(* A failed preparation moves the units of h to the leaked ones. *)
LEMMA PrepareFailsInv ==
  ASSUME Inv, NEW h \in Handles, PrepareFails(h)
  PROVE  Inv'
  <1> USE UnitsNat
  <1>1. /\ phase[h] = "preparing"
        /\ phase' = [phase EXCEPT ![h] = "none"]
        /\ reply' = [reply EXCEPT ![h] = "CleaningFailure"]
        /\ leaked' = leaked \cup Span(first[h], past[h])
        /\ first' = [first EXCEPT ![h] = 0]
        /\ past' = [past EXCEPT ![h] = 0]
        /\ UNCHANGED <<ranges, sizes, asked>>
    BY DEF PrepareFails
  <1>2. PoolInv' /\ Free' = Free
    BY <1>1 DEF Inv, PoolInv, Coalesced, SizesMirrorRanges, Free
  <1>3. Owned(h) = Span(first[h], past[h]) /\ Owned(h)' = {}
    BY <1>1 DEF Inv, Owned
  <1>4. \A g \in Handles : g # h => Owned(g)' = Owned(g)
    BY <1>1 DEF Inv, Owned, Span
  <1>5. Taken' = Taken
    BY <1>1, <1>3, <1>4 DEF Taken
  <1>6. Span(first[h], past[h]) \subseteq 0 .. (Units - 1)
    BY DEF Inv, Span
  <1>7. NoOverlap'
    BY <1>1, <1>2, <1>3, <1>4, <1>5 DEF Inv, NoOverlap
  <1>8. NothingLost'
    BY <1>2, <1>5 DEF Inv, NothingLost
  <1>9. \A g \in Handles : phase'[g] # "none" => first'[g] < past'[g]
    BY <1>1 DEF Inv
  <1>10. leaked' \subseteq 0 .. (Units - 1)
    BY <1>1, <1>6, Zenon DEF Inv
  <1>11. reply' \in [Handles -> Replies] /\ asked' \in [Handles -> Nat]
    BY <1>1 DEF Inv, Replies
  <1>12. /\ phase' \in [Handles -> {"none", "preparing", "live"}]
         /\ first' \in [Handles -> 0 .. Units]
         /\ past' \in [Handles -> 0 .. Units]
    BY <1>1 DEF Inv
  <1>13. QED
    BY <1>2, <1>7, <1>8, <1>9, <1>10, <1>11, <1>12 DEF Inv

(* Dropping a context moves its units back to the pool. *)
LEMMA DropInv ==
  ASSUME Inv, NEW h \in Handles, Drop(h)
  PROVE  Inv'
  <1> USE UnitsNat
  <1>1. /\ phase[h] = "live"
        /\ Insert(first[h], past[h])
        /\ phase' = [phase EXCEPT ![h] = "none"]
        /\ first' = [first EXCEPT ![h] = 0]
        /\ past' = [past EXCEPT ![h] = 0]
        /\ asked' = [asked EXCEPT ![h] = 0]
        /\ reply' = [reply EXCEPT ![h] = "idle"]
        /\ leaked' = leaked
    BY DEF Drop
  <1>2. /\ first[h] \in 0 .. Units
        /\ past[h] \in 0 .. Units
        /\ first[h] < past[h]
    BY <1>1 DEF Inv
  <1>3. Owned(h) = Span(first[h], past[h]) /\ Owned(h)' = {}
    BY <1>1 DEF Inv, Owned
  <1>4. Owned(h) \cap Free = {}
    BY DEF Inv, NoOverlap, Taken
  <1>5. PoolInv' /\ Free' = Free \cup Owned(h)
    BY <1>1, <1>2, <1>3, <1>4, InsertLemma DEF Inv
  <1>6. \A g \in Handles : g # h => Owned(g)' = Owned(g)
    BY <1>1 DEF Inv, Owned, Span
  <1>7. Taken = Taken' \cup Owned(h)
    BY <1>1, <1>3, <1>6 DEF Taken
  <1>8. Taken' \cap Owned(h) = {}
    BY <1>1, <1>3, <1>6 DEF Taken, Inv, NoOverlap
  <1>9. NoOverlap'
    BY <1>1, <1>3, <1>5, <1>6, <1>7, <1>8 DEF Inv, NoOverlap
  <1>10. NothingLost'
    BY <1>5, <1>7 DEF Inv, NothingLost
  <1>11. \A g \in Handles : phase'[g] # "none" => first'[g] < past'[g]
    BY <1>1 DEF Inv
  <1>12. QED
    BY <1>1, <1>5, <1>9, <1>10, <1>11 DEF Inv, Replies

(* Every step preserves the invariant. *)
LEMMA NextInv ==
  ASSUME PositiveRequests, Inv, [Next]_vars
  PROVE  Inv'
  <1>1. CASE UNCHANGED vars
    BY <1>1 DEF vars, Inv, PoolInv, Coalesced, SizesMirrorRanges, NoOverlap,
                NothingLost, Taken, Owned, Free, Span
  <1>2. ASSUME NEW h \in Handles, NEW bytes \in Requests, Take(h, bytes)
        PROVE  Inv'
    BY <1>2, TakeInv
  (* The steps below leave the pool, the allocations and the leak alone. *)
  <1>3. ASSUME UNCHANGED <<ranges, sizes, first, past, leaked>>,
               \A g \in Handles : phase'[g] = "none" <=> phase[g] = "none",
               phase' \in [Handles -> {"none", "preparing", "live"}],
               asked' \in [Handles -> Nat],
               reply' \in [Handles -> Replies]
        PROVE  Inv'
    <2>1. PoolInv' /\ Free' = Free
      BY <1>3 DEF Inv, PoolInv, Coalesced, SizesMirrorRanges, Free
    <2>2. \A g \in Handles : Owned(g)' = Owned(g)
      BY <1>3 DEF Owned, Span
    <2>3. Taken' = Taken
      BY <1>3, <2>2 DEF Taken
    <2>4. NoOverlap' /\ NothingLost'
      BY <1>3, <2>1, <2>2, <2>3 DEF Inv, NoOverlap, NothingLost
    <2>5. QED
      BY <1>3, <2>1, <2>4 DEF Inv
  <1>4. ASSUME NEW h \in Handles, NEW bytes \in Requests, RefuseSize(h, bytes)
        PROVE  Inv'
    BY <1>3, <1>4 DEF RefuseSize, Inv, Replies
  <1>5. ASSUME NEW h \in Handles, NEW bytes \in Requests, RefuseFull(h, bytes)
        PROVE  Inv'
    <2>1. UnitsFor(bytes) \in Nat
      BY UnitsForPositive
    <2>2. QED
      BY <1>3, <1>5, <2>1 DEF RefuseFull, GetNone, poolVars, Inv, Replies
  <1>6. ASSUME NEW h \in Handles, Prepared(h)
        PROVE  Inv'
    BY <1>3, <1>6 DEF Prepared, Inv, Replies
  <1>7. ASSUME NEW h \in Handles, PrepareFails(h)
        PROVE  Inv'
    BY <1>7, PrepareFailsInv
  <1>8. ASSUME NEW h \in Handles, Drop(h)
        PROVE  Inv'
    BY <1>8, DropInv
  <1>9. QED
    BY <1>1, <1>2, <1>4, <1>5, <1>6, <1>7, <1>8 DEF Next

LEMMA InvariantLemma ==
  ASSUME PositiveRequests
  PROVE  Spec => []Inv
  <1>1. Init => Inv
    BY InitInv
  <1>2. Inv /\ [Next]_vars => Inv'
    BY NextInv
  <1>3. QED
    BY <1>1, <1>2, PTL DEF Spec

-----------------------------------------------------------------------------
(* TypeOK: every range, allocation and leak stays inside the backing       *)
(* memory.                                                                 *)
THEOREM TypeCorrect ==
  ASSUME PositiveRequests
  PROVE  Spec => []TypeOK
  <1>1. Inv => TypeOK
    <2>1. SUFFICES ASSUME Inv PROVE sizes \subseteq (0 .. Units) \X (0 .. Units)
      BY DEF Inv, PoolInv, TypeOK
    <2>2. \A s \in DOMAIN ranges :
             ranges[s] - s \in 0 .. Units /\ s \in 0 .. Units
      <3>1. TAKE s \in DOMAIN ranges
      <3>2. s \in 0 .. Units /\ ranges[s] \in 0 .. Units
        BY <2>1 DEF Inv, PoolInv
      <3>3. s <= ranges[s]
        BY <2>1, <3>2, UnitsNat DEF Inv, PoolInv
      <3>4. QED
        BY <3>2, <3>3, UnitsNat
    <2>3. QED
      BY <2>1, <2>2 DEF Inv, PoolInv, SizesMirrorRanges
  <1>2. QED
    BY <1>1, InvariantLemma, PTL

(* NoOverlap: acquire_context and the drops of contexts never let two      *)
(* contexts share a unit, nor leave a held unit in the pool.               *)
THEOREM ContextsAreDisjoint ==
  ASSUME PositiveRequests
  PROVE  Spec => []NoOverlap
  <1>1. Inv => NoOverlap
    BY DEF Inv
  <1>2. QED
    BY <1>1, InvariantLemma, PTL

(* NothingLost: every unit is free, held by a context, or leaked by a      *)
(* failed madvise or mmap.                                                 *)
THEOREM UnitsAreConserved ==
  ASSUME PositiveRequests
  PROVE  Spec => []NothingLost
  <1>1. Inv => NothingLost
    BY DEF Inv
  <1>2. QED
    BY <1>1, InvariantLemma, PTL

(* SizesMirrorRanges and Coalesced: the expect and the debug_asserts of    *)
(* RangePool never fire, and insert leaves no two adjacent free ranges.    *)
THEOREM PoolIsConsistent ==
  ASSUME PositiveRequests
  PROVE  Spec => [](SizesMirrorRanges /\ Coalesced)
  <1>1. Inv => SizesMirrorRanges /\ Coalesced
    BY DEF Inv, PoolInv
  <1>2. QED
    BY <1>1, InvariantLemma, PTL

(* A run of n free units lies within one range, because the unit after a   *)
(* coalesced range is not free; so get(n) finds a range that fits.         *)
LEMMA FreeRunFits ==
  ASSUME PoolInv, NEW n \in Nat \ {0}, NEW a \in Nat,
         Span(a, a + n) \subseteq Free
  PROVE  Fitting(n, 0) # {}
  <1>1. \A x \in Int : a <= x /\ x < a + n => InFree(x)
    BY FreeIff DEF Span
  <1>2. PICK s \in DOMAIN ranges : s <= a /\ a < ranges[s]
    BY <1>1 DEF InFree
  <1>3. s \in 0 .. Units /\ ranges[s] \in 0 .. Units
    BY DEF PoolInv
  <1>4. ~ InFree(ranges[s])
    <2>1. SUFFICES ASSUME NEW t \in DOMAIN ranges,
                          t <= ranges[s], ranges[s] < ranges[t]
                   PROVE  FALSE
      BY DEF InFree
    <2>2. t \in 0 .. Units /\ ranges[t] \in 0 .. Units
      BY DEF PoolInv
    <2>3. QED
      BY <1>2, <1>3, <2>1, <2>2, UnitsNat DEF PoolInv, Coalesced
  <1>5. ranges[s] >= a + n
    BY <1>1, <1>2, <1>3, <1>4, UnitsNat
  <1>6. <<ranges[s] - s, s>> \in sizes
    BY DEF PoolInv, SizesMirrorRanges
  <1>7. ranges[s] - s >= n
    BY <1>2, <1>3, <1>5, UnitsNat
  <1>8. <<ranges[s] - s, s>> \in Fitting(n, 0)
    BY <1>3, <1>6, <1>7, UnitsNat DEF Fitting, TupleLeq
  <1>9. QED
    BY <1>8

(* RefusalIsJustified: acquire_context answers ReachedCapacity only when   *)
(* no run of free units is long enough.                                    *)
THEOREM NoFalseRefusal ==
  ASSUME PositiveRequests
  PROVE  Spec => []RefusalIsJustified
  <1>1. Inv => RefusalIsJustified
    <2>1. SUFFICES ASSUME Inv,
                          NEW n \in 1 .. Units, NEW a \in 0 .. (Units - n),
                          Span(a, a + n) \subseteq Free
                   PROVE  Fitting(n, 0) # {}
      BY DEF RefusalIsJustified
    <2>2. PoolInv /\ n \in Nat \ {0} /\ a \in Nat
      BY <2>1, UnitsNat DEF Inv
    <2>3. QED
      BY <2>1, <2>2, FreeRunFits
  <1>2. QED
    BY <1>1, InvariantLemma, PTL

-----------------------------------------------------------------------------
(* The units the abstract allocator regards as available are the free ones *)
(* of the pool.                                                            *)
LEMMA AvailableIsFree ==
  ASSUME Inv
  PROVE  Allocator!Available = Free
  <1> DEFINE own == [h \in Handles |-> Owned(h)]
  <1>1. UNION {own[h] : h \in Handles} = UNION {Owned(h) : h \in Handles}
    OBVIOUS
  <1>2. Allocator!Available = (0 .. (Units - 1)) \ Taken
    BY <1>1 DEF Allocator!Available, Taken
  <1>3. QED
    BY <1>2 DEF Inv, NoOverlap, NothingLost

(* What the mapped variable owned does when only the handle h changes. *)
LEMMA OwnedChanges ==
  ASSUME NEW h \in Handles, NEW new, Owned(h)' = new,
         \A g \in Handles : g # h => Owned(g)' = Owned(g)
  PROVE  [g \in Handles |-> Owned(g)]' =
           [[g \in Handles |-> Owned(g)] EXCEPT ![h] = new]
  BY Zenon

LEMMA StepRefines ==
  ASSUME PositiveRequests, Inv, Inv', [Next]_vars
  PROVE  [Allocator!Next]_(Allocator!vars)
  <1> USE UnitsNat
  <1> DEFINE own == [g \in Handles |-> Owned(g)]
             szs == {UnitsFor(bytes) : bytes \in Requests}
  <1>1. CASE UNCHANGED vars
    BY <1>1 DEF vars, Allocator!vars, Owned, Span
  <1>2. ASSUME NEW h \in Handles, NEW bytes \in Requests, Take(h, bytes)
        PROVE  Allocator!Next
    <2> DEFINE n == UnitsFor(bytes)
    <2>1. n \in Nat \ {0} /\ n \in szs
      BY UnitsForPositive
    <2>2. PICK got \in 0 .. Units :
              /\ Get(n, 0, got)
              /\ first' = [first EXCEPT ![h] = got]
              /\ past' = [past EXCEPT ![h] = got + n]
      BY <1>2, Zenon DEF Take
    <2>3. /\ phase[h] = "none"
          /\ phase' = [phase EXCEPT ![h] = "preparing"]
          /\ asked' = [asked EXCEPT ![h] = n]
          /\ reply' = [reply EXCEPT ![h] = "idle"]
          /\ leaked' = leaked
      BY <1>2 DEF Take
    <2> HIDE DEF n
    <2>4. got + n \in 0 .. Units /\ Span(got, got + n) \subseteq Free
      BY <2>1, <2>2, GetLemma DEF Inv
    <2>5. got \in 0 .. (Units - n)
      BY <2>1, <2>4
    <2>6. Owned(h)' = Span(got, got + n)
      BY <2>2, <2>3 DEF Inv, Owned, Span
    <2>7. \A g \in Handles : g # h => Owned(g)' = Owned(g)
      BY <2>2, <2>3 DEF Inv, Owned, Span
    <2>8. own' = [own EXCEPT ![h] = Span(got, got + n)]
      BY <2>6, <2>7, OwnedChanges
    <2>9. own[h] = {}
      BY <2>3 DEF Owned
    <2>10. Allocator!Run(got, n) = Span(got, got + n)
      BY <2>1 DEF Allocator!Run, Span
    <2>11. Allocator!Grant(h, n)
      BY <2>3, <2>4, <2>5, <2>8, <2>9, <2>10, AvailableIsFree, Zenon
         DEF Allocator!Grant
    <2>12. QED
      BY <2>1, <2>11 DEF Allocator!Next
  <1>3. ASSUME NEW h \in Handles, NEW bytes \in Requests, RefuseFull(h, bytes)
        PROVE  Allocator!Next
    <2> DEFINE n == UnitsFor(bytes)
    <2>1. n \in Nat \ {0} /\ n \in szs
      BY UnitsForPositive
    <2>2. /\ phase[h] = "none"
          /\ Fitting(n, 0) = {}
          /\ asked' = [asked EXCEPT ![h] = n]
          /\ reply' = [reply EXCEPT ![h] = "ReachedCapacity"]
          /\ UNCHANGED <<ranges, sizes, phase, first, past, leaked>>
      BY <1>3 DEF RefuseFull, GetNone, poolVars
    <2> HIDE DEF n
    <2>3. \A a \in 0 .. (Units - n) : ~(Allocator!Run(a, n) \subseteq Free)
      <3>1. SUFFICES ASSUME NEW a \in 0 .. (Units - n),
                            Allocator!Run(a, n) \subseteq Free
                     PROVE  FALSE
        OBVIOUS
      <3>2. Span(a, a + n) \subseteq Free /\ a \in Nat
        BY <2>1, <3>1 DEF Allocator!Run, Span
      <3>3. QED
        BY <2>1, <2>2, <3>2, FreeRunFits DEF Inv
    <2>4. own' = own
      BY <2>2 DEF Owned, Span
    <2>5. own[h] = {}
      BY <2>2 DEF Owned
    <2>6. Allocator!Refuse(h, n)
      BY <2>2, <2>3, <2>4, <2>5, AvailableIsFree DEF Allocator!Refuse
    <2>7. QED
      BY <2>1, <2>6 DEF Allocator!Next
  <1>4. ASSUME NEW h \in Handles, NEW bytes \in Requests, RefuseSize(h, bytes)
        PROVE  Allocator!Next
    <2>1. own' = own /\ own[h] = {}
      BY <1>4 DEF RefuseSize, Owned, Span
    <2>2. Allocator!RefuseSize(h)
      BY <1>4, <2>1 DEF RefuseSize, Allocator!RefuseSize
    <2>3. QED
      BY <2>2 DEF Allocator!Next
  (* The handle holds at least one unit. *)
  <1>5. \A h \in Handles : phase[h] # "none" =>
            own[h] = Span(first[h], past[h]) /\ own[h] # {}
    BY DEF Inv, Owned, Span
  <1>6. ASSUME NEW h \in Handles, Prepared(h)
        PROVE  Allocator!Next
    <2>1. own' = own
      BY <1>6 DEF Prepared, Owned, Span, Inv
    <2>2. Allocator!Deliver(h)
      BY <1>5, <1>6, <2>1 DEF Prepared, Allocator!Deliver
    <2>3. QED
      BY <2>2 DEF Allocator!Next
  <1>7. ASSUME NEW h \in Handles, PrepareFails(h)
        PROVE  Allocator!Next
    <2>1. Owned(h)' = {} /\ \A g \in Handles : g # h => Owned(g)' = Owned(g)
      BY <1>7 DEF PrepareFails, Owned, Span, Inv
    <2>2. own' = [own EXCEPT ![h] = {}]
      BY <2>1, OwnedChanges
    <2>3. Allocator!Lose(h)
      BY <1>5, <1>7, <2>2 DEF PrepareFails, Allocator!Lose
    <2>4. QED
      BY <2>3 DEF Allocator!Next
  <1>8. ASSUME NEW h \in Handles, Drop(h)
        PROVE  Allocator!Next
    <2>1. Owned(h)' = {} /\ \A g \in Handles : g # h => Owned(g)' = Owned(g)
      BY <1>8 DEF Drop, Owned, Span, Inv
    <2>2. own' = [own EXCEPT ![h] = {}]
      BY <2>1, OwnedChanges
    <2>3. Allocator!Release(h)
      BY <1>5, <1>8, <2>2 DEF Drop, Allocator!Release
    <2>4. QED
      BY <2>3 DEF Allocator!Next
  <1>9. QED
    BY <1>1, <1>2, <1>3, <1>4, <1>6, <1>7, <1>8 DEF Next

(* RefinesAllocator: the pools built on RangePool implement the allocator  *)
(* of contiguous runs, refusals included.                                  *)
THEOREM PoolRefinesAllocator ==
  ASSUME PositiveRequests
  PROVE  Spec => RefinesAllocator
  <1>1. Init => Allocator!Init
    BY DEF Init, Allocator!Init, Owned
  <1>2. Inv /\ Inv' /\ [Next]_vars => [Allocator!Next]_(Allocator!vars)
    BY StepRefines
  <1>3. QED
    BY <1>1, <1>2, InvariantLemma, PTL DEF Spec, RefinesAllocator, Allocator!Spec

=============================================================================
