----------------------- MODULE ContextOccupationProofs -----------------------
(***************************************************************************)
(* Proofs about ContextOccupation for every size of the context, of its    *)
(* pages and of the items, and every alignment.                            *)
(***************************************************************************)
EXTENDS ContextOccupation, WellFoundedInduction, TLAPS

(* The solvers are given time, for slow or busy machines. *)
USE SMTT(60), ZenonT(30)

(* A nonempty set of numbers has a least element. *)
LEMMA LeastNumber ==
    ASSUME NEW S \in SUBSET Nat, S # {}
    PROVE  \E m \in S : \A n \in S : m <= n
<1> DEFINE R == OpToRel(<, Nat)
<1>1. IsWellFoundedOn(R, Nat)
    BY NatLessThanWellFounded, Zenon
<1>2. \A x, y \in Nat : x < y => <<x, y>> \in R
    BY DEF OpToRel
<1> HIDE DEF R
<1>3. PICK m \in S : \A n \in S : <<n, m>> \notin R
    BY <1>1, WFMin, Zenon
<1>4. ASSUME NEW n \in S
      PROVE  m <= n
    <2>1. ~(n < m)
        BY <1>2, <1>3, Zenon
    <2> QED
        BY <2>1
<1> QED
    BY <1>4

-----------------------------------------------------------------------------
(* Rounding.  What a quotient and a remainder are: *)
LEMMA Division ==
    \A a, x \in Int : a > 0 =>
        x \div a \in Int /\ x % a \in 0 .. a - 1 /\ x = a * (x \div a) + (x % a)
<1>1. \A a, x \in Int : a > 0 => x = a * (x \div a) + (x % a)
    OBVIOUS
<1>2. \A a, x \in Int : a > 0 => x \div a \in Int /\ x % a \in 0 .. a - 1
    OBVIOUS
<1> QED
    BY <1>1, <1>2

LEMMA DivisionNat ==
    ASSUME NEW a \in Nat \ {0}, NEW x \in Nat
    PROVE  x \div a \in Nat /\ x % a \in 0 .. a - 1 /\ x = a * (x \div a) + (x % a)
<1>1. x \div a \in Int /\ x % a \in 0 .. a - 1 /\ x = a * (x \div a) + (x % a)
    BY Division
<1>2. x \div a \in Nat
    OBVIOUS
<1> QED
    BY <1>1, <1>2

LEMMA Remainder ==
    ASSUME NEW a \in Nat \ {0}, NEW q \in Nat, NEW r \in 0 .. a - 1
    PROVE  (a * q + r) % a = r
OBVIOUS

(* Multiples of a are a apart. *)
LEMMA MultiplesApart ==
    ASSUME NEW a \in Nat \ {0}, NEW p \in Int, NEW q \in Int, a * p < a * q + a
    PROVE  a * p <= a * q
<1>1. a * q + a = a * (q + 1)
    OBVIOUS
<1>2. p < q + 1
    BY <1>1
<1> QED
    BY <1>2

(* usize::next_multiple_of is the least multiple that is not below n. *)
LEMMA NextMultipleIsLeast ==
    ASSUME NEW n \in Nat, NEW a \in Nat \ {0}
    PROVE  /\ NextMultiple(n, a) \in Nat
           /\ n <= NextMultiple(n, a)
           /\ NextMultiple(n, a) % a = 0
           /\ \A m \in Nat : m % a = 0 /\ n <= m => NextMultiple(n, a) <= m
<1> DEFINE x == n + a - 1
           q == x \div a
           r == x % a
           t == a * q
<1>1. x \in Nat
    OBVIOUS
<1>2. q \in Nat /\ r \in 0 .. a - 1 /\ x = a * q + r
    BY <1>1, DivisionNat, Zenon
<1>3. NextMultiple(n, a) = t
    BY <1>2 DEF NextMultiple
<1>4. t \in Nat
    BY <1>2
<1>5. t % a = 0
    <2>1. 0 \in 0 .. a - 1
        OBVIOUS
    <2>2. (a * q + 0) % a = 0
        BY <1>2, <2>1, Remainder, Zenon
    <2> QED
        BY <1>2, <2>2
<1> HIDE DEF q, r
<1>6. x = t + r
    BY <1>2
<1> HIDE DEF t
<1>7. n <= t /\ t < n + a
    BY <1>2, <1>4, <1>6
<1>8. ASSUME NEW m \in Nat, m % a = 0, n <= m
      PROVE  t <= m
    <2> DEFINE k == m \div a
    <2>1. k \in Nat /\ m = a * k
        BY <1>8, DivisionNat
    <2>2. t < m + a
        BY <1>4, <1>7, <1>8
    <2> HIDE DEF k
    <2>3. a * q < a * k + a
        BY <2>1, <2>2 DEF t
    <2> QED
        BY <1>2, <2>1, <2>3, MultiplesApart DEF t
<1> QED
    BY <1>3, <1>4, <1>5, <1>7, <1>8

(* The kvm placement is the least address behind the window's lower end    *)
(* with the wanted position inside its page.                               *)
LEMMA TransferStartIsLeast ==
    ASSUME NEW i, NEW p \in 0 .. Page - 1, End(occupation[i]) \in Nat
    PROVE  /\ TransferStart(i, p) \in Nat
           /\ End(occupation[i]) <= TransferStart(i, p)
           /\ TransferStart(i, p) % Page = p
           /\ \A m \in Nat : m % Page = p /\ End(occupation[i]) <= m => TransferStart(i, p) <= m
<1> DEFINE n == End(occupation[i])
           q == n \div Page
           r == n % Page
           s == IF r > p THEN q + 1 ELSE q
           t == Page * s
<1>1. Page \in Nat \ {0} /\ p \in Nat /\ p < Page
    BY AlignmentsAreNested
<1>2. n \in Nat /\ q \in Nat /\ r \in 0 .. Page - 1 /\ n = Page * q + r
    BY <1>1, DivisionNat, Zenon
<1>3. TransferStart(i, p) = q * Page + (IF r > p THEN Page ELSE 0) + p
    BY DEF TransferStart
<1> HIDE DEF n, q, r
<1>4. Page * q \in Nat /\ q * Page = Page * q /\ Page * (q + 1) = Page * q + Page
    BY <1>1, <1>2
<1>5. s \in Nat /\ t = Page * q + (IF r > p THEN Page ELSE 0)
    BY <1>2, <1>4
<1> DEFINE w == Page * q
<1>6. w \in Nat /\ n = w + r /\ t = w + (IF r > p THEN Page ELSE 0)
    BY <1>2, <1>4, <1>5
<1>7. TransferStart(i, p) = t + p
    BY <1>3, <1>4, <1>5
<1> HIDE DEF w, s
<1>8. (t + p) % Page = p
    BY <1>1, <1>5, Remainder
<1> HIDE DEF t
<1>9. t \in Nat /\ n <= t + p /\ t + p < n + Page
    BY <1>1, <1>2, <1>6
<1>10. ASSUME NEW m \in Nat, m % Page = p, n <= m
       PROVE  t + p <= m
    <2> DEFINE k == m \div Page
               z == Page * k
    <2>1. k \in Nat /\ m = z + p
        BY <1>1, <1>10, DivisionNat, Zenon
    <2>2. z \in Nat
        BY <1>1, <2>1
    <2> HIDE DEF k, z
    <2>3. t < z + Page
        BY <1>1, <1>2, <1>9, <1>10, <2>1, <2>2
    <2>4. t <= z
        BY <1>1, <1>5, <2>1, <2>3, MultiplesApart DEF t, z
    <2> QED
        BY <1>1, <1>9, <2>1, <2>2, <2>4
<1> QED
    BY <1>1, <1>7, <1>8, <1>9, <1>10 DEF n

(* Addresses with an aligned position inside their page are aligned. *)
LEMMA PageAligned ==
    ASSUME NEW m \in Nat, (m % Page) % Align = 0
    PROVE  m % Align = 0
<1> DEFINE p == m % Page
           q == m \div Page
           u == Page \div Align
           v == p \div Align
<1>1. Page \in Nat \ {0} /\ Align \in Nat \ {0} /\ Page % Align = 0
    BY AlignmentsAreNested
<1>2. p \in Nat /\ q \in Nat /\ m = Page * q + p
    BY <1>1, DivisionNat
<1>3. u \in Nat /\ Page = Align * u
    BY <1>1, DivisionNat
<1>4. v \in Nat /\ p = Align * v
    BY <1>1, <1>2, DivisionNat
<1> HIDE DEF p, q, u, v
<1>5. (Align * u) * q = Align * (u * q)
    BY <1>1, <1>2, <1>3
<1>6. u * q + v \in Nat /\ m = Align * (u * q + v) + 0
    BY <1>1, <1>2, <1>3, <1>4, <1>5
<1> QED
    <2> DEFINE w == u * q + v
    <2> HIDE DEF w
    <2>1. w \in Nat /\ m = Align * w + 0
        BY <1>6 DEF w
    <2>2. (Align * w + 0) % Align = 0
        BY <1>1, <2>1, Remainder
    <2> QED
        BY <2>1, <2>2

-----------------------------------------------------------------------------
(* Lists of positions.  "Sorted" and "Apart" speak about all pairs, not    *)
(* only neighbours, so that they need no induction.                        *)
Positions == [offset : Nat, size : Nat]
Inside(list) ==
    /\ list \in Seq(Positions) /\ Len(list) >= 1
    /\ \A i \in 1 .. Len(list) : End(list[i]) <= Size
Sorted(list) ==
    \A i, j \in 1 .. Len(list) : i < j => list[i].offset <= list[j].offset
Apart(list) ==
    \A i, j \in 1 .. Len(list) : i < j => End(list[i]) < list[j].offset
Covers(list, b) == \E i \in 1 .. Len(list) : list[i].offset <= b /\ b < End(list[i])

LEMMA PositionFacts ==
    ASSUME NEW p \in Positions
    PROVE  /\ p.offset \in Nat /\ p.size \in Nat /\ End(p) \in Nat
           /\ p.offset <= End(p) /\ End(p) = p.offset + p.size
BY DEF Positions, End

(* What insert makes of the list once the loop has found the last position *)
(* that is absorbed.                                                       *)
Joined(list, c, n) ==
    SubSeq(list, 1, c - 1)
    \o <<Position(list[c].offset, End(list[n]) - list[c].offset)>>
    \o SubSeq(list, n + 1, Len(list))
Touches(list, j) == list[j + 1].offset <= End(list[j])

(* The loop stops at some position. *)
LEMMA MergedJoins ==
    ASSUME NEW list \in Seq(Positions), NEW c \in 1 .. Len(list)
    PROVE  \E n \in c .. Len(list) :
              /\ Merged(list, c) = Joined(list, c, n)
              /\ \A j \in c .. n - 1 : Touches(list, j)
              /\ n = Len(list) \/ ~Touches(list, n)
<1> DEFINE S == {n \in c .. Len(list) : n = Len(list) \/ ~Touches(list, n)}
           IsLast(n) == /\ \A j \in c .. n - 1 : Touches(list, j)
                        /\ n = Len(list) \/ ~Touches(list, n)
           last == CHOOSE n \in c .. Len(list) : IsLast(n)
<1>1. Len(list) \in Nat /\ c \in Nat /\ 1 <= c /\ c <= Len(list)
    OBVIOUS
<1>2. S \in SUBSET Nat /\ S # {}
    BY <1>1
<1>3. PICK m \in S : \A n \in S : m <= n
    BY <1>2, LeastNumber, Zenon
<1>4. m \in c .. Len(list) /\ IsLast(m)
    <2>1. m \in c .. Len(list) /\ (m = Len(list) \/ ~Touches(list, m))
        BY <1>3
    <2>2. ASSUME NEW j \in c .. m - 1
          PROVE  Touches(list, j)
        <3>1. j \in c .. Len(list) /\ j # Len(list) /\ ~(m <= j)
            BY <1>1, <2>1
        <3>2. j \notin S
            BY <1>3, <3>1
        <3> QED
            BY <3>1, <3>2
    <2> QED
        BY <2>1, <2>2
<1>5. last \in c .. Len(list) /\ IsLast(last)
    BY <1>4, Zenon
<1>6. Merged(list, c) = Joined(list, c, last)
    BY Zenon DEF Merged, Joined, Touches
<1> HIDE DEF last
<1> QED
    BY <1>5, <1>6

LEMMA JoinedList ==
    ASSUME NEW list \in Seq(Positions), NEW c \in 1 .. Len(list), NEW n \in c .. Len(list),
           list[c].offset <= End(list[n])
    PROVE  /\ Joined(list, c, n) \in Seq(Positions)
           /\ Len(Joined(list, c, n)) = Len(list) - (n - c)
           /\ \A k \in 1 .. c - 1 : Joined(list, c, n)[k] = list[k]
           /\ Joined(list, c, n)[c].offset = list[c].offset
           /\ End(Joined(list, c, n)[c]) = End(list[n])
           /\ \A k \in c + 1 .. Len(list) - (n - c) : Joined(list, c, n)[k] = list[k + (n - c)]
<1> DEFINE p == Position(list[c].offset, End(list[n]) - list[c].offset)
           left == SubSeq(list, 1, c - 1)
           right == SubSeq(list, n + 1, Len(list))
<1>1. list[c] \in Positions /\ list[n] \in Positions /\ Len(list) \in Nat
    OBVIOUS
<1>2. p \in Positions /\ p.offset = list[c].offset /\ End(p) = End(list[n])
    BY <1>1 DEF Positions, Position, End
<1>3. /\ left \in Seq(Positions) /\ Len(left) = c - 1
      /\ \A k \in 1 .. c - 1 : left[k] = list[k]
    OBVIOUS
<1>4. /\ right \in Seq(Positions) /\ Len(right) = Len(list) - n
      /\ \A k \in 1 .. Len(list) - n : right[k] = list[k + n]
    OBVIOUS
<1> DEFINE front == left \o <<p>>
           J == front \o right
<1>5. Joined(list, c, n) = J
    BY DEF Joined
<1> HIDE DEF p, left, right
<1>6. front \in Seq(Positions) /\ Len(front) = c /\ front[c] = p
      /\ \A k \in 1 .. c - 1 : front[k] = list[k]
    BY <1>2, <1>3
<1> HIDE DEF front
<1>7. /\ J \in Seq(Positions) /\ Len(J) = Len(front) + Len(right)
      /\ \A k \in 1 .. Len(front) : J[k] = front[k]
      /\ \A k \in 1 .. Len(right) : J[Len(front) + k] = right[k]
    <2>1. front \in Seq(Positions) /\ right \in Seq(Positions)
        BY <1>4, <1>6
    <2> QED
        BY <2>1
<1> HIDE DEF J
<1>8. ASSUME NEW k \in c + 1 .. Len(list) - (n - c)
      PROVE  J[k] = list[k + (n - c)]
    <2>1. k - c \in 1 .. Len(right) /\ c + (k - c) = k /\ (k - c) + n = k + (n - c)
        BY <1>1, <1>4
    <2>2. J[c + (k - c)] = right[k - c]
        BY <1>6, <1>7, <2>1
    <2>3. right[k - c] = list[(k - c) + n]
        BY <1>4, <2>1
    <2> QED
        BY <2>1, <2>2, <2>3
<1>9. Len(J) = Len(list) - (n - c)
    BY <1>1, <1>4, <1>6, <1>7
<1>10. J[c] = p /\ \A k \in 1 .. c - 1 : J[k] = list[k]
    BY <1>6, <1>7
<1> QED
    BY <1>2, <1>5, <1>7, <1>8, <1>9, <1>10, Zenon

(* The list with a position inserted behind index i. *)
With(list, i, p) == SubSeq(list, 1, i) \o <<p>> \o SubSeq(list, i + 1, Len(list))

LEMMA WithList ==
    ASSUME NEW list \in Seq(Positions), NEW i \in 1 .. Len(list), NEW p \in Positions
    PROVE  /\ With(list, i, p) \in Seq(Positions)
           /\ Len(With(list, i, p)) = Len(list) + 1
           /\ \A k \in 1 .. i : With(list, i, p)[k] = list[k]
           /\ With(list, i, p)[i + 1] = p
           /\ \A k \in i + 2 .. Len(list) + 1 : With(list, i, p)[k] = list[k - 1]
<1> DEFINE left == SubSeq(list, 1, i)
           right == SubSeq(list, i + 1, Len(list))
           front == left \o <<p>>
           J == front \o right
<1>1. Len(list) \in Nat
    OBVIOUS
<1>2. /\ left \in Seq(Positions) /\ Len(left) = i
      /\ \A k \in 1 .. i : left[k] = list[k]
    OBVIOUS
<1>3. /\ right \in Seq(Positions) /\ Len(right) = Len(list) - i
      /\ \A k \in 1 .. Len(list) - i : right[k] = list[k + i]
    OBVIOUS
<1>4. With(list, i, p) = J
    BY DEF With
<1> HIDE DEF left, right
<1>5. front \in Seq(Positions) /\ Len(front) = i + 1 /\ front[i + 1] = p
      /\ \A k \in 1 .. i : front[k] = list[k]
    BY <1>2
<1> HIDE DEF front
<1>6. /\ J \in Seq(Positions) /\ Len(J) = Len(front) + Len(right)
      /\ \A k \in 1 .. Len(front) : J[k] = front[k]
      /\ \A k \in 1 .. Len(right) : J[Len(front) + k] = right[k]
    <2>1. front \in Seq(Positions) /\ right \in Seq(Positions)
        BY <1>3, <1>5
    <2> QED
        BY <2>1
<1> HIDE DEF J
<1>7. ASSUME NEW k \in i + 2 .. Len(list) + 1
      PROVE  J[k] = list[k - 1]
    <2> DEFINE m == Len(list)
    <2> HIDE DEF m
    <2>0. m \in Nat /\ i \in Nat /\ k \in Nat /\ i + 2 <= k /\ k <= m + 1 /\ Len(right) = m - i
        BY <1>1, <1>3 DEF m
    <2>1. k - (i + 1) \in 1 .. Len(right) /\ (i + 1) + (k - (i + 1)) = k
          /\ (k - (i + 1)) + i = k - 1
        BY <2>0
    <2>2. J[(i + 1) + (k - (i + 1))] = right[k - (i + 1)]
        BY <1>5, <1>6, <2>1, Zenon
    <2>3. right[k - (i + 1)] = list[(k - (i + 1)) + i]
        BY <1>3, <2>1, ZenonT(60)
    <2> QED
        BY <2>1, <2>2, <2>3
<1>8. Len(J) = Len(list) + 1
    BY <1>1, <1>3, <1>5, <1>6
<1>9. J[i + 1] = p /\ \A k \in 1 .. i : J[k] = list[k]
    BY <1>5, <1>6
<1> QED
    BY <1>4, <1>6, <1>7, <1>8, <1>9, Zenon

LEMMA Extended ==
    ASSUME NEW p \in Positions, NEW n \in Nat
    PROVE  LET q == [p EXCEPT !.size = @ + n]
           IN  q \in Positions /\ q.offset = p.offset /\ End(q) = End(p) + n
BY DEF Positions, End

(* Merging and inserting keep a sorted list sorted and inside the context, *)
(* even if positions overlap.                                              *)
LEMMA MergedSorted ==
    ASSUME NEW list, Inside(list), Sorted(list), NEW c \in 1 .. Len(list)
    PROVE  Inside(Merged(list, c)) /\ Sorted(Merged(list, c))
<1> DEFINE len == Len(list)
<1>1. list \in Seq(Positions) /\ len \in Nat /\ len >= 1
    BY DEF Inside
<1>2. \A k \in 1 .. len : /\ list[k].offset \in Nat /\ list[k].offset <= End(list[k])
                          /\ End(list[k]) \in Nat /\ End(list[k]) <= Size
    BY <1>1, PositionFacts DEF Inside
<1>3. PICK n \in c .. len : Merged(list, c) = Joined(list, c, n)
    BY <1>1, MergedJoins
<1> DEFINE J == Joined(list, c, n)
           src(k) == IF k <= c THEN k ELSE k + (n - c)
<1>4. list[c].offset <= list[n].offset /\ n \in 1 .. len
    <2>1. CASE n = c
        BY <1>1, <1>2, <2>1
    <2>2. CASE n # c
        BY <1>1, <2>2 DEF Sorted
    <2> QED
        BY <2>1, <2>2
<1>5. list[c].offset <= End(list[n])
    BY <1>2, <1>4
<1>6. /\ J \in Seq(Positions) /\ Len(J) = len - (n - c)
      /\ \A k \in 1 .. c - 1 : J[k] = list[k]
      /\ J[c].offset = list[c].offset /\ End(J[c]) = End(list[n])
      /\ \A k \in c + 1 .. len - (n - c) : J[k] = list[k + (n - c)]
    BY <1>1, <1>5, JoinedList
<1> HIDE DEF J, len
<1>7. Len(J) \in Nat /\ Len(J) >= 1
    BY <1>1, <1>6 DEF len
<1>8. ASSUME NEW k \in 1 .. Len(J)
      PROVE  src(k) \in 1 .. len /\ J[k].offset = list[src(k)].offset /\ End(J[k]) <= Size
    <2>1. src(k) \in 1 .. len
        BY <1>1, <1>4, <1>6 DEF len
    <2>2. CASE k < c
        BY <1>2, <1>6, <2>1, <2>2 DEF len
    <2>3. CASE k = c
        <3>1. src(k) = c
            BY <2>3
        <3> QED
            BY <1>2, <1>4, <1>6, <2>1, <2>3, <3>1
    <2>4. CASE k > c
        <3>1. k \in c + 1 .. len - (n - c)
            BY <1>1, <1>6, <2>4 DEF len
        <3>2. src(k) = k + (n - c)
            BY <2>4
        <3>3. J[k] = list[src(k)]
            BY <1>6, <3>1, <3>2
        <3> QED
            BY <1>2, <2>1, <3>3
    <2> QED
        BY <2>2, <2>3, <2>4
<1>9. Sorted(J)
    <2> SUFFICES ASSUME NEW k \in 1 .. Len(J), NEW l \in 1 .. Len(J), k < l
                 PROVE  J[k].offset <= J[l].offset
        BY DEF Sorted
    <2>1. src(k) < src(l)
        BY <1>1, <1>4 DEF len
    <2>2. src(k) \in 1 .. len /\ src(l) \in 1 .. len
        BY <1>8
    <2> HIDE DEF src
    <2>3. list[src(k)].offset <= list[src(l)].offset
        BY <2>1, <2>2 DEF Sorted, len
    <2> QED
        BY <1>8, <2>3
<1>10. Inside(J)
    BY <1>6, <1>7, <1>8 DEF Inside
<1> QED
    BY <1>3, <1>9, <1>10 DEF J

LEMMA InsertedSorted ==
    ASSUME NEW list, Inside(list), Sorted(list), NEW i \in 1 .. Len(list) - 1,
           NEW offset \in Nat, NEW size \in Nat, offset + size <= Size,
           list[i].offset <= offset, offset < list[i + 1].offset
    PROVE  Inside(Inserted(list, i, offset, size)) /\ Sorted(Inserted(list, i, offset, size))
<1>1. list \in Seq(Positions) /\ Len(list) \in Nat /\ i \in 1 .. Len(list) /\ i + 1 \in 1 .. Len(list)
    BY DEF Inside
<1>2. \A k \in 1 .. Len(list) : list[k] \in Positions /\ End(list[k]) <= Size
    BY <1>1 DEF Inside
<1>3. CASE End(list[i]) = offset
    <2> DEFINE L == [list EXCEPT ![i].size = @ + size]
    <2>1. list[i].size + size \in Nat
        <3>1. list[i].size \in Nat
            BY <1>1, <1>2, PositionFacts
        <3> QED
            BY <3>1
    <2>2. L[i] = [list[i] EXCEPT !.size = @ + size]
        BY <1>1
    <2>3. /\ Len(L) = Len(list) /\ \A k \in 1 .. Len(list) : k # i => L[k] = list[k]
        BY <1>1
    <2>4. L[i] \in Positions /\ L[i].offset = list[i].offset /\ End(L[i]) = offset + size
        BY <1>1, <1>2, <1>3, <2>1, <2>2, Extended
    <2>5. L \in Seq(Positions)
        BY <1>1, <2>2, <2>4
    <2> HIDE DEF L
    <2>6. Inside(L)
        BY <1>1, <1>2, <2>3, <2>4, <2>5 DEF Inside
    <2>7. Sorted(L)
        BY <1>1, <2>3, <2>4 DEF Sorted
    <2>8. Inserted(list, i, offset, size) = Merged(L, i)
        BY <1>3 DEF Inserted, L
    <2>9. i \in 1 .. Len(L)
        BY <1>1, <2>3
    <2> QED
        BY <2>6, <2>7, <2>8, <2>9, MergedSorted
<1>4. CASE End(list[i]) # offset
    <2> DEFINE p == Position(offset, size)
               L == With(list, i, p)
    <2>1. p \in Positions /\ p.offset = offset /\ End(p) = offset + size
        BY DEF Position, Positions, End
    <2> HIDE DEF p
    <2>2. /\ L \in Seq(Positions) /\ Len(L) = Len(list) + 1
          /\ \A k \in 1 .. i : L[k] = list[k]
          /\ L[i + 1] = p
          /\ \A k \in i + 2 .. Len(list) + 1 : L[k] = list[k - 1]
        BY <1>1, <2>1, WithList, ZenonT(60)
    <2> HIDE DEF L
    <2>3. Inside(L)
        <3>1. ASSUME NEW k \in 1 .. Len(L)
              PROVE  End(L[k]) <= Size
            <4>1. CASE k <= i
                BY <1>1, <1>2, <2>2, <4>1
            <4>2. CASE k = i + 1
                BY <2>1, <2>2, <4>2
            <4>3. CASE k > i + 1
                <5>1. k \in i + 2 .. Len(list) + 1 /\ k - 1 \in 1 .. Len(list)
                    BY <1>1, <2>2, <4>3
                <5> QED
                    BY <1>2, <2>2, <5>1
            <4> QED
                BY <1>1, <4>1, <4>2, <4>3
        <3>2. Len(L) >= 1
            BY <1>1, <2>2
        <3> QED
            BY <2>2, <3>1, <3>2 DEF Inside
    <2>4. Sorted(L)
        <3> SUFFICES ASSUME NEW k \in 1 .. Len(L), NEW l \in 1 .. Len(L), k < l
                     PROVE  L[k].offset <= L[l].offset
            BY DEF Sorted
        <3>1. /\ k <= i => L[k] = list[k] /\ k \in 1 .. Len(list)
              /\ k > i + 1 => L[k] = list[k - 1] /\ k - 1 \in 1 .. Len(list)
              /\ l <= i => L[l] = list[l] /\ l \in 1 .. Len(list)
              /\ l > i + 1 => L[l] = list[l - 1] /\ l - 1 \in 1 .. Len(list)
            BY <1>1, <2>2
        <3>2. \A m \in 1 .. Len(list) : list[m].offset \in Nat
            BY <1>2 DEF Positions
        <3>3. \A m \in 1 .. Len(list) : /\ m <= i => list[m].offset <= offset
                                        /\ m >= i + 1 => offset <= list[m].offset
            <4> SUFFICES ASSUME NEW m \in 1 .. Len(list)
                         PROVE  /\ m <= i => list[m].offset <= offset
                                /\ m >= i + 1 => offset <= list[m].offset
                OBVIOUS
            <4>1. /\ m < i => list[m].offset <= list[i].offset
                  /\ m > i + 1 => list[i + 1].offset <= list[m].offset
                BY <1>1 DEF Sorted
            <4>2. list[m].offset \in Nat /\ list[i].offset \in Nat /\ list[i + 1].offset \in Nat
                BY <1>1, <3>2
            <4>3. CASE m < i
                BY <1>1, <4>1, <4>2, <4>3
            <4>4. CASE m > i + 1
                BY <1>1, <4>1, <4>2, <4>4
            <4>5. CASE m = i \/ m = i + 1
                BY <1>1, <4>2, <4>5
            <4> QED
                BY <1>1, <4>3, <4>4, <4>5
        <3>4. CASE k = i + 1
            BY <1>1, <2>1, <2>2, <3>1, <3>3, <3>4
        <3>5. CASE l = i + 1
            BY <1>1, <2>1, <2>2, <3>1, <3>3, <3>5
        <3>6. CASE k # i + 1 /\ l # i + 1
            <4> DEFINE a == IF k <= i THEN k ELSE k - 1
                       b == IF l <= i THEN l ELSE l - 1
            <4>1. a \in 1 .. Len(list) /\ b \in 1 .. Len(list) /\ a < b
                BY <1>1, <2>2, <3>6
            <4>2. L[k] = list[a] /\ L[l] = list[b]
                BY <1>1, <2>2, <3>1, <3>6
            <4> HIDE DEF a, b
            <4> QED
                BY <4>1, <4>2 DEF Sorted
        <3> QED
            BY <3>4, <3>5, <3>6
    <2>5. Inserted(list, i, offset, size) = Merged(L, i + 1)
        BY <1>4 DEF Inserted, With, L, p
    <2>6. i + 1 \in 1 .. Len(L)
        BY <1>1, <2>2
    <2> QED
        BY <2>3, <2>4, <2>5, <2>6, MergedSorted
<1> QED
    BY <1>3, <1>4

-----------------------------------------------------------------------------
(* A list whose positions neither touch nor overlap, except that position  *)
(* c may touch the next one: merging joins these two and loses nothing.    *)
NearlyApart(list, c) ==
    /\ \A j, k \in 1 .. Len(list) :
           j < k /\ ~(j = c /\ k = c + 1) => End(list[j]) < list[k].offset
    /\ c < Len(list) => End(list[c]) <= list[c + 1].offset
Keeps(new, list) ==
    /\ \A b \in Nat : Covers(new, b) <=> Covers(list, b)
    /\ \A k \in 1 .. Len(new) : \E m \in 1 .. Len(list) : new[k].offset = list[m].offset
    /\ new[1].offset = list[1].offset
    /\ End(new[Len(new)]) = End(list[Len(list)])

LEMMA MergedApart ==
    ASSUME NEW list, Inside(list), NEW c \in 1 .. Len(list), NearlyApart(list, c)
    PROVE  Apart(Merged(list, c)) /\ Keeps(Merged(list, c), list)
<1> DEFINE len == Len(list)
<1>1. list \in Seq(Positions) /\ len \in Nat /\ len >= 1 /\ c \in Nat /\ 1 <= c /\ c <= len
    BY DEF Inside
<1>2. \A k \in 1 .. len : /\ list[k].offset \in Nat /\ list[k].offset <= End(list[k])
                          /\ End(list[k]) \in Nat
    BY <1>1, PositionFacts
<1>3. PICK n \in c .. len : /\ Merged(list, c) = Joined(list, c, n)
                            /\ \A j \in c .. n - 1 : Touches(list, j)
                            /\ n = len \/ ~Touches(list, n)
    BY <1>1, MergedJoins
<1> HIDE DEF len
<1>4. n \in {c, c + 1} /\ n \in 1 .. len
    <2> SUFFICES ASSUME n > c + 1
                 PROVE  FALSE
        BY <1>1
    <2>1. c + 1 \in c .. n - 1 /\ c + 1 \in 1 .. len /\ c + 2 \in 1 .. len /\ (c + 1) + 1 = c + 2
        BY <1>1
    <2>2. list[c + 2].offset <= End(list[c + 1])
        BY <1>3, <2>1 DEF Touches
    <2>3. End(list[c + 1]) < list[c + 2].offset
        BY <1>1, <2>1 DEF NearlyApart, len
    <2> QED
        BY <1>2, <2>1, <2>2, <2>3
<1>5. n = c + 1 => End(list[c]) = list[c + 1].offset
    <2> SUFFICES ASSUME n = c + 1
                 PROVE  End(list[c]) = list[c + 1].offset
        OBVIOUS
    <2>1. c \in c .. n - 1 /\ c < len /\ c \in 1 .. len /\ c + 1 \in 1 .. len
        BY <1>1
    <2>2. list[c + 1].offset <= End(list[c])
        BY <1>3, <2>1 DEF Touches
    <2>3. End(list[c]) <= list[c + 1].offset
        BY <2>1 DEF NearlyApart, len
    <2> QED
        BY <1>2, <2>1, <2>2, <2>3
<1>6. n = c /\ c < len => End(list[c]) < list[c + 1].offset
    <2> SUFFICES ASSUME n = c, c < len
                 PROVE  End(list[c]) < list[c + 1].offset
        OBVIOUS
    <2>1. ~(list[c + 1].offset <= End(list[c]))
        BY <1>1, <1>3 DEF Touches
    <2>2. c \in 1 .. len /\ c + 1 \in 1 .. len
        BY <1>1
    <2> QED
        BY <1>2, <2>1, <2>2
<1>7. list[c].offset <= End(list[n])
    <2>1. c \in 1 .. len /\ n \in 1 .. len
        BY <1>1, <1>4
    <2> QED
        BY <1>2, <1>4, <1>5, <2>1
<1> DEFINE J == Joined(list, c, n)
           lo(k) == IF k <= c THEN k ELSE k + (n - c)
           hi(k) == IF k < c THEN k ELSE k + (n - c)
<1>8. /\ J \in Seq(Positions) /\ Len(J) = len - (n - c)
      /\ \A k \in 1 .. c - 1 : J[k] = list[k]
      /\ J[c].offset = list[c].offset /\ End(J[c]) = End(list[n])
      /\ \A k \in c + 1 .. len - (n - c) : J[k] = list[k + (n - c)]
    BY <1>1, <1>3, <1>7, JoinedList DEF len
<1> HIDE DEF J
<1>9. Len(J) \in Nat /\ c <= Len(J)
    BY <1>1, <1>4, <1>8
<1>10. ASSUME NEW k \in 1 .. Len(J)
       PROVE  /\ lo(k) \in 1 .. len /\ hi(k) \in 1 .. len
              /\ J[k].offset = list[lo(k)].offset /\ End(J[k]) = End(list[hi(k)])
    <2>1. lo(k) \in 1 .. len /\ hi(k) \in 1 .. len
        BY <1>1, <1>4, <1>8
    <2>2. CASE k < c
        <3>1. lo(k) = k /\ hi(k) = k /\ k \in 1 .. c - 1
            BY <1>1, <2>2
        <3> QED
            BY <1>8, <2>1, <3>1
    <2>3. CASE k = c
        <3>1. lo(k) = c /\ hi(k) = n
            BY <1>1, <1>4, <2>3
        <3> QED
            BY <1>8, <2>1, <2>3, <3>1
    <2>4. CASE k > c
        <3>1. lo(k) = k + (n - c) /\ hi(k) = k + (n - c) /\ k \in c + 1 .. len - (n - c)
            BY <1>1, <1>8, <2>4
        <3> QED
            BY <1>8, <2>1, <3>1, ZenonT(60)
    <2> QED
        BY <1>1, <2>2, <2>3, <2>4
<1>11. Apart(J)
    <2> SUFFICES ASSUME NEW k \in 1 .. Len(J), NEW l \in 1 .. Len(J), k < l
                 PROVE  End(J[k]) < J[l].offset
        BY DEF Apart
    <2>1. hi(k) \in 1 .. len /\ lo(l) \in 1 .. len /\ hi(k) < lo(l)
        BY <1>1, <1>4, <1>10
    <2>2. hi(k) = c /\ lo(l) = c + 1 => n = c /\ c < len
        BY <1>1, <1>4, <1>8
    <2>3. J[l].offset = list[lo(l)].offset /\ End(J[k]) = End(list[hi(k)])
        BY <1>10
    <2> HIDE DEF hi, lo
    <2>4. End(list[hi(k)]) < list[lo(l)].offset
        BY <1>6, <2>1, <2>2 DEF NearlyApart, len
    <2> QED
        BY <2>3, <2>4
<1>12. ASSUME NEW b \in Nat
       PROVE  Covers(J, b) <=> Covers(list, b)
    <2>1. ASSUME NEW k \in 1 .. Len(J), J[k].offset <= b, b < End(J[k])
          PROVE  Covers(list, b)
        <3>1. lo(k) \in 1 .. len /\ hi(k) \in 1 .. len
              /\ list[lo(k)].offset <= b /\ b < End(list[hi(k)])
            BY <1>10, <2>1
        <3>2. CASE lo(k) = hi(k)
            BY <3>1, <3>2 DEF Covers, len
        <3>3. CASE lo(k) # hi(k)
            <4>1. lo(k) = c /\ hi(k) = c + 1 /\ n = c + 1
                BY <1>1, <1>4, <3>3
            <4>2. list[c].offset <= b /\ b < End(list[c + 1]) /\ c \in 1 .. len /\ c + 1 \in 1 .. len
                BY <3>1, <4>1
            <4>3. b < End(list[c]) \/ list[c + 1].offset <= b
                BY <1>2, <1>5, <4>1, <4>2
            <4> QED
                BY <4>2, <4>3 DEF Covers, len
        <3> QED
            BY <3>2, <3>3
    <2>2. ASSUME NEW m \in 1 .. len, list[m].offset <= b, b < End(list[m])
          PROVE  \E k \in 1 .. Len(J) : J[k].offset <= b /\ b < End(J[k])
        <3>1. CASE m < c
            <4>1. m \in 1 .. Len(J) /\ J[m] = list[m]
                BY <1>1, <1>8, <1>9, <3>1
            <4> QED
                BY <2>2, <4>1
        <3>2. CASE m \in {c, n}
            <4>1. c \in 1 .. Len(J) /\ c \in 1 .. len /\ n \in 1 .. len
                BY <1>1, <1>4, <1>9
            <4>2. list[c].offset <= b /\ b < End(list[n])
                BY <1>2, <1>4, <1>5, <2>2, <3>2, <4>1
            <4> QED
                BY <1>8, <4>1, <4>2
        <3>3. CASE m > n
            <4>1. /\ m - (n - c) \in 1 .. Len(J) /\ m - (n - c) \in c + 1 .. len - (n - c)
                  /\ (m - (n - c)) + (n - c) = m
                BY <1>1, <1>4, <1>8, <3>3
            <4>2. J[m - (n - c)] = list[m]
                BY <1>8, <4>1
            <4> QED
                BY <2>2, <4>1, <4>2, ZenonT(60)
        <3> QED
            BY <1>1, <1>4, <3>1, <3>2, <3>3
    <2> QED
        BY <2>1, <2>2 DEF Covers, len
<1>13. J[1].offset = list[1].offset /\ End(J[Len(J)]) = End(list[len])
    <2>1. 1 \in 1 .. Len(J) /\ lo(1) = 1 /\ Len(J) \in 1 .. Len(J) /\ hi(Len(J)) = len
        BY <1>1, <1>4, <1>8, <1>9
    <2> QED
        BY <1>10, <2>1
<1>14. Keeps(J, list)
    BY <1>10, <1>12, <1>13 DEF Keeps, len
<1> QED
    BY <1>3, <1>11, <1>14 DEF J

LEMMA NearlyApartIsSorted ==
    ASSUME NEW list, Inside(list), NEW c \in 1 .. Len(list), NearlyApart(list, c)
    PROVE  Sorted(list)
<1> SUFFICES ASSUME NEW j \in 1 .. Len(list), NEW k \in 1 .. Len(list), j < k
             PROVE  list[j].offset <= list[k].offset
    BY DEF Sorted
<1>1. list[j] \in Positions /\ list[k] \in Positions /\ Len(list) \in Nat
    BY DEF Inside
<1>2. list[j].offset \in Nat /\ End(list[j]) \in Nat /\ list[j].offset <= End(list[j])
      /\ list[k].offset \in Nat
    BY <1>1, PositionFacts
<1>3. End(list[j]) <= list[k].offset
    BY <1>1, <1>2 DEF NearlyApart
<1> QED
    BY <1>2, <1>3

(* The list with the new bytes, before it is merged. *)
Marks(new, list, offset, size) ==
    /\ \A b \in Nat : Covers(new, b) <=> Covers(list, b) \/ (offset <= b /\ b < offset + size)
    /\ \A k \in 1 .. Len(new) : \/ new[k].offset = offset
                                \/ \E m \in 1 .. Len(list) : new[k].offset = list[m].offset
    /\ new[1].offset = list[1].offset
    /\ End(new[Len(new)]) = End(list[Len(list)])

LEMMA ExtendedApart ==
    ASSUME NEW list, Inside(list), Apart(list), NEW i \in 1 .. Len(list) - 1,
           NEW offset \in Nat, NEW size \in Nat,
           End(list[i]) = offset, offset + size <= list[i + 1].offset
    PROVE  LET L == [list EXCEPT ![i].size = @ + size]
           IN  /\ Inside(L) /\ NearlyApart(L, i) /\ i \in 1 .. Len(L)
               /\ Marks(L, list, offset, size)
<1> DEFINE len == Len(list)
           L == [list EXCEPT ![i].size = @ + size]
<1>1. list \in Seq(Positions) /\ len \in Nat /\ i \in 1 .. len /\ i + 1 \in 1 .. len /\ i # len
    BY DEF Inside
<1>2. \A k \in 1 .. len : /\ list[k].offset \in Nat /\ list[k].offset <= End(list[k])
                          /\ End(list[k]) \in Nat /\ End(list[k]) <= Size
    BY <1>1, PositionFacts DEF Inside
<1>3. L[i] = [list[i] EXCEPT !.size = @ + size] /\ list[i] \in Positions
    BY <1>1
<1>4. Len(L) = len /\ \A k \in 1 .. len : k # i => L[k] = list[k]
    BY <1>1
<1>5. L[i] \in Positions /\ L[i].offset = list[i].offset /\ End(L[i]) = offset + size
    BY <1>3, Extended
<1>6. L \in Seq(Positions)
    BY <1>1, <1>3, <1>5
<1> HIDE DEF L, len
<1>7. Inside(L)
    <2>1. End(L[i]) <= Size
        BY <1>1, <1>2, <1>5, SizesAreNaturals
    <2> QED
        BY <1>1, <1>2, <1>4, <1>6, <2>1 DEF Inside, len
<1>8. \A j, k \in 1 .. len : j < k => End(list[j]) < list[k].offset
    BY DEF Apart, len
<1>9. NearlyApart(L, i)
    <2>1. ASSUME NEW j \in 1 .. len, NEW k \in 1 .. len, j < k, ~(j = i /\ k = i + 1)
          PROVE  End(L[j]) < L[k].offset
        <3>1. L[k].offset = list[k].offset
            BY <1>4, <1>5
        <3>2. CASE j # i
            BY <1>4, <1>8, <2>1, <3>1, <3>2, ZenonT(60)
        <3>3. CASE j = i
            <4>1. i + 1 < k
                BY <1>1, <2>1, <3>3
            <4>2. End(list[i + 1]) < list[k].offset
                BY <1>1, <1>8, <4>1
            <4> QED
                BY <1>1, <1>2, <1>5, <3>1, <3>3, <4>2
        <3> QED
            BY <3>2, <3>3
    <2>2. End(L[i]) <= L[i + 1].offset
        BY <1>1, <1>4, <1>5
    <2> QED
        BY <1>4, <2>1, <2>2 DEF NearlyApart
<1>10. ASSUME NEW b \in Nat
       PROVE  Covers(L, b) <=> Covers(list, b) \/ (offset <= b /\ b < offset + size)
    <2>0. list[i].offset \in Nat /\ list[i].offset <= offset
        BY <1>1, <1>2
    <2>1. (list[i].offset <= b /\ b < End(L[i]))
          <=> \/ list[i].offset <= b /\ b < End(list[i])
              \/ offset <= b /\ b < offset + size
        BY <1>5, <2>0
    <2> QED
        BY <1>1, <1>4, <1>5, <2>1, ZenonT(60) DEF Covers, len
<1>11. L[1].offset = list[1].offset /\ End(L[len]) = End(list[len])
    BY <1>1, <1>4, <1>5
<1>12. Marks(L, list, offset, size)
    BY <1>4, <1>5, <1>10, <1>11 DEF Marks, len
<1> QED
    BY <1>1, <1>4, <1>7, <1>9, <1>12 DEF L

LEMMA WithApart ==
    ASSUME NEW list, Inside(list), Apart(list), NEW i \in 1 .. Len(list) - 1,
           NEW offset \in Nat, NEW size \in Nat,
           End(list[i]) < offset, offset + size <= list[i + 1].offset
    PROVE  LET L == With(list, i, Position(offset, size))
           IN  /\ Inside(L) /\ NearlyApart(L, i + 1) /\ i + 1 \in 1 .. Len(L)
               /\ Marks(L, list, offset, size)
<1> DEFINE len == Len(list)
           p == Position(offset, size)
           L == With(list, i, p)
<1>1. list \in Seq(Positions) /\ len \in Nat /\ i \in 1 .. len /\ i + 1 \in 1 .. len /\ i # len
    BY DEF Inside
<1>2. \A k \in 1 .. len : /\ list[k].offset \in Nat /\ list[k].offset <= End(list[k])
                          /\ End(list[k]) \in Nat /\ End(list[k]) <= Size
    BY <1>1, PositionFacts DEF Inside
<1>3. p \in Positions /\ p.offset = offset /\ End(p) = offset + size
    BY DEF Position, Positions, End
<1> HIDE DEF p
<1>4. /\ L \in Seq(Positions) /\ Len(L) = len + 1
      /\ \A k \in 1 .. i : L[k] = list[k]
      /\ L[i + 1] = p
      /\ \A k \in i + 2 .. len + 1 : L[k] = list[k - 1]
    BY <1>1, <1>3, WithList, ZenonT(60)
<1> HIDE DEF L, len
<1> DEFINE at(k) == IF k <= i THEN k ELSE k - 1
<1>5. ASSUME NEW k \in 1 .. Len(L), k # i + 1
      PROVE  at(k) \in 1 .. len /\ L[k] = list[at(k)]
    <2>1. CASE k <= i
        BY <1>1, <1>4, <2>1
    <2>2. CASE k > i
        <3>1. k \in i + 2 .. len + 1
            BY <1>1, <1>4, <1>5, <2>2
        <3> QED
            BY <1>1, <1>4, <2>2, <3>1
    <2> QED
        BY <1>1, <1>4, <2>1, <2>2
<1>6. End(p) <= Size
    BY <1>1, <1>2, <1>3, SizesAreNaturals
<1>7. Inside(L)
    <2>1. \A k \in 1 .. Len(L) : End(L[k]) <= Size
        BY <1>2, <1>4, <1>5, <1>6
    <2>2. Len(L) >= 1
        BY <1>1, <1>4
    <2> QED
        BY <1>4, <2>1, <2>2 DEF Inside
<1>8. \A j, k \in 1 .. len : j < k => End(list[j]) < list[k].offset
    BY DEF Apart, len
<1>9. \A k \in 1 .. len : /\ k <= i => End(list[k]) < offset
                          /\ k > i + 1 => offset + size < list[k].offset
    <2> SUFFICES ASSUME NEW k \in 1 .. len
                 PROVE  /\ k <= i => End(list[k]) < offset
                        /\ k > i + 1 => offset + size < list[k].offset
        OBVIOUS
    <2>1. CASE k < i
        <3>1. End(list[k]) < list[i].offset
            BY <1>1, <1>8, <2>1
        <3>2. End(list[k]) \in Nat /\ list[i].offset \in Nat /\ End(list[i]) \in Nat
              /\ list[i].offset <= End(list[i])
            BY <1>1, <1>2
        <3>3. k <= i /\ ~(k > i + 1)
            BY <1>1, <2>1
        <3> QED
            BY <3>1, <3>2, <3>3
    <2>2. CASE k = i \/ k = i + 1
        BY <1>1, <2>2
    <2>3. CASE k > i + 1
        <3>1. End(list[i + 1]) < list[k].offset
            BY <1>1, <1>8, <2>3
        <3>2. list[k].offset \in Nat /\ list[i + 1].offset \in Nat /\ End(list[i + 1]) \in Nat
              /\ list[i + 1].offset <= End(list[i + 1])
            BY <1>1, <1>2
        <3>3. ~(k <= i)
            BY <1>1, <2>3
        <3> QED
            BY <3>1, <3>2, <3>3
    <2> QED
        BY <1>1, <2>1, <2>2, <2>3
<1>10. NearlyApart(L, i + 1)
    <2>1. ASSUME NEW j \in 1 .. Len(L), NEW k \in 1 .. Len(L), j < k, ~(j = i + 1 /\ k = i + 2)
          PROVE  End(L[j]) < L[k].offset
        <3>1. CASE j = i + 1
            <4>0. k # i + 1 /\ k > i + 2
                BY <1>1, <2>1, <3>1
            <4>1. k # i + 1 /\ at(k) \in 1 .. len /\ at(k) > i + 1
                BY <1>1, <1>4, <4>0
            <4> QED
                BY <1>3, <1>4, <1>5, <1>9, <3>1, <4>1
        <3>2. CASE k = i + 1
            <4>1. j # i + 1 /\ at(j) \in 1 .. len /\ at(j) <= i
                BY <1>1, <1>4, <2>1, <3>2
            <4> QED
                BY <1>3, <1>4, <1>5, <1>9, <3>2, <4>1
        <3>3. CASE j # i + 1 /\ k # i + 1
            <4>1. at(j) < at(k)
                BY <1>1, <1>4, <2>1, <3>3
            <4> QED
                BY <1>5, <1>8, <3>3, <4>1, ZenonT(60)
        <3> QED
            BY <3>1, <3>2, <3>3
    <2>2. (i + 1) + 1 \in i + 2 .. len + 1 /\ ((i + 1) + 1) - 1 = i + 1
        BY <1>1
    <2>3. End(L[i + 1]) <= L[(i + 1) + 1].offset
        BY <1>3, <1>4, <2>2
    <2> QED
        BY <1>1, <2>1, <2>3 DEF NearlyApart
<1>11. ASSUME NEW b \in Nat
       PROVE  Covers(L, b) <=> Covers(list, b) \/ (offset <= b /\ b < offset + size)
    <2>1. i + 1 \in 1 .. Len(L)
        BY <1>1, <1>4
    <2>2. ASSUME NEW m \in 1 .. len
          PROVE  \E k \in 1 .. Len(L) : L[k] = list[m]
        <3>1. CASE m <= i
            BY <1>1, <1>4, <3>1
        <3>2. CASE m > i
            <4>1. m + 1 \in i + 2 .. len + 1 /\ m + 1 \in 1 .. Len(L) /\ (m + 1) - 1 = m
                BY <1>1, <1>4, <3>2
            <4> QED
                BY <1>4, <4>1
        <3> QED
            BY <1>1, <3>1, <3>2
    <2>3. Covers(L, b) => Covers(list, b) \/ (offset <= b /\ b < offset + size)
        BY <1>3, <1>4, <1>5, Zenon DEF Covers, len
    <2>4. Covers(list, b) => Covers(L, b)
        BY <2>2, Zenon DEF Covers, len
    <2>5. offset <= b /\ b < offset + size => Covers(L, b)
        BY <1>3, <1>4, <2>1 DEF Covers
    <2> QED
        BY <2>3, <2>4, <2>5
<1>12. L[1].offset = list[1].offset /\ End(L[Len(L)]) = End(list[len])
    <2>1. Len(L) \in i + 2 .. len + 1 /\ Len(L) - 1 = len
        BY <1>1, <1>4
    <2> QED
        BY <1>1, <1>4, <2>1
<1>13. Marks(L, list, offset, size)
    BY <1>3, <1>4, <1>5, <1>11, <1>12, ZenonT(60) DEF Marks, len
<1> QED
    BY <1>1, <1>4, <1>7, <1>10, <1>13 DEF L, p

(* Inserting bytes into a window of a list whose positions do not touch:   *)
(* they still do not, and exactly these bytes are added.                   *)
LEMMA InsertedApart ==
    ASSUME NEW list, Inside(list), Apart(list), NEW i \in 1 .. Len(list) - 1,
           NEW offset \in Nat, NEW size \in Nat,
           End(list[i]) <= offset, offset + size <= list[i + 1].offset
    PROVE  LET M == Inserted(list, i, offset, size)
           IN  Inside(M) /\ Sorted(M) /\ Apart(M) /\ Marks(M, list, offset, size)
<1> DEFINE M == Inserted(list, i, offset, size)
<1>1. ASSUME NEW L, NEW c \in 1 .. Len(L), Inside(L), NearlyApart(L, c),
             Marks(L, list, offset, size), M = Merged(L, c)
      PROVE  Inside(M) /\ Sorted(M) /\ Apart(M) /\ Marks(M, list, offset, size)
    <2> HIDE DEF M
    <2>1. Sorted(L)
        BY <1>1, NearlyApartIsSorted
    <2>2. Inside(M) /\ Sorted(M)
        BY <1>1, <2>1, MergedSorted
    <2>3. Apart(M) /\ Keeps(M, L)
        BY <1>1, MergedApart
    <2>4. Marks(M, list, offset, size)
        <3>1. \A b \in Nat : Covers(M, b) <=> Covers(list, b) \/ (offset <= b /\ b < offset + size)
            BY <1>1, <2>3 DEF Marks, Keeps
        <3>2. \A k \in 1 .. Len(M) : \/ M[k].offset = offset
                                    \/ \E m \in 1 .. Len(list) : M[k].offset = list[m].offset
            <4> TAKE k \in 1 .. Len(M)
            <4>1. PICK n \in 1 .. Len(L) : M[k].offset = L[n].offset
                BY <2>3 DEF Keeps
            <4>2. \/ L[n].offset = offset
                  \/ \E m \in 1 .. Len(list) : L[n].offset = list[m].offset
                BY <1>1 DEF Marks
            <4> QED
                BY <4>1, <4>2, ZenonT(60)
        <3>3. M[1].offset = list[1].offset /\ End(M[Len(M)]) = End(list[Len(list)])
            BY <1>1, <2>3 DEF Marks, Keeps
        <3> QED
            BY <3>1, <3>2, <3>3 DEF Marks
    <2> QED
        BY <2>2, <2>3, <2>4
<1>2. CASE End(list[i]) = offset
    <2>1. M = Merged([list EXCEPT ![i].size = @ + size], i)
        BY <1>2 DEF Inserted
    <2> QED
        BY <1>1, <1>2, <2>1, ExtendedApart, Zenon
<1>3. CASE End(list[i]) # offset
    <2>1. M = Merged(With(list, i, Position(offset, size)), i + 1)
        BY <1>3 DEF Inserted, With
    <2>2. End(list[i]) < offset
        <3>1. list[i] \in Positions
            BY DEF Inside
        <3> QED
            BY <1>3, <3>1, PositionFacts
    <2> QED
        BY <1>1, <2>1, <2>2, WithApart, Zenon
<1> QED
    BY <1>2, <1>3

-----------------------------------------------------------------------------
(* The list says exactly which bytes are in use, begins at 0 and ends with *)
(* the context.                                                            *)
Exact(list, bytes) ==
    /\ Apart(list)
    /\ \A b \in 0 .. Size : b \in bytes <=> Covers(list, b)
    /\ list[1].offset = 0
    /\ End(list[Len(list)]) = Size

Aligned(list) == \A i \in 1 .. Len(list) : list[i].offset % Align = 0

(* The inductive invariant.  While inputs are placed all positions are     *)
(* aligned, so that the aligned start of an empty item is in its window.   *)
Inv ==
    /\ Inside(occupation) /\ Sorted(occupation)
    /\ stage \in {"new", "loaded", "placed", "started", "output", "failed"}
    /\ outputs \in 0 .. MaxOutputs
    /\ marked \subseteq 0 .. Size - 1
    /\ reply \in [kind : {"none", "ok", "InvalidWrite", "granted", "ContextFull",
                          "end", "panic", "error"},
                  offset : Nat, size : Nat, align : Nat, rest : Nat]
    /\ stage \in {"new", "loaded", "placed", "started"} => Exact(occupation, marked)
    /\ stage \in {"new", "loaded"} => Aligned(occupation)
    /\ stage = "new" => occupation = Empty /\ marked = {}

(* The two outcomes of a search for space. *)
Granted(size, align, rest) ==
    LET offset == reply'.offset
    IN  /\ reply' = [kind |-> "granted", offset |-> offset, size |-> size, align |-> align,
                     rest |-> rest]
        /\ offset \in Nat /\ offset + size <= Size /\ offset % align = rest
        /\ marked' = marked \cup Bytes(offset, size) /\ Bytes(offset, size) \cap marked = {}
        /\ Inside(occupation') /\ Sorted(occupation') /\ Exact(occupation', marked')
        /\ \A k \in 1 .. Len(occupation') :
            \/ occupation'[k].offset = offset
            \/ \E m \in 1 .. Len(occupation) : occupation'[k].offset = occupation[m].offset
InTheWay(a, size) ==
    \/ Bytes(a, size) \cap marked # {}
    \/ \E i \in 1 .. Len(occupation) :
           /\ occupation[i].size = 0
           /\ a < occupation[i].offset
           /\ occupation[i].offset < a + size
Refused(size, align, rest) ==
    /\ reply' = [kind |-> "ContextFull", offset |-> 0, size |-> size, align |-> align,
                 rest |-> rest]
    /\ UNCHANGED <<occupation, marked>>
    /\ size > 0 => \A a \in 0 .. Size - size : a % align = rest => InTheWay(a, size)

(* In every window, the first address of the wanted alignment. *)
FirstStarts(start, align, rest) ==
    \A i \in Windows :
        /\ start[i] \in Nat /\ End(occupation[i]) <= start[i] /\ start[i] % align = rest
        /\ \A m \in Nat : m % align = rest /\ End(occupation[i]) <= m => start[i] <= m

LEMMA WindowFacts ==
    ASSUME Inside(occupation)
    PROVE  /\ Len(occupation) \in Nat
           /\ \A i \in Windows : i \in Nat /\ i \in 1 .. Len(occupation) /\ i + 1 \in 1 .. Len(occupation)
           /\ \A i \in 1 .. Len(occupation) :
                  /\ occupation[i] \in Positions /\ End(occupation[i]) <= Size
                  /\ occupation[i].offset \in Nat /\ occupation[i].size \in Nat
                  /\ End(occupation[i]) \in Nat
                  /\ End(occupation[i]) = occupation[i].offset + occupation[i].size
<1>1. occupation \in Seq(Positions) /\ Len(occupation) \in Nat
    BY DEF Inside
<1>2. \A i \in Windows : i \in Nat /\ i \in 1 .. Len(occupation) /\ i + 1 \in 1 .. Len(occupation)
    BY <1>1 DEF Windows
<1>3. \A i \in 1 .. Len(occupation) : occupation[i] \in Positions /\ End(occupation[i]) <= Size
    BY <1>1 DEF Inside
<1> QED
    BY <1>1, <1>2, <1>3, PositionFacts

(* Space in a window is given out: free, inside the context, and entered   *)
(* in the list.                                                            *)
LEMMA WindowGranted ==
    ASSUME Inside(occupation), Exact(occupation, marked), NEW i \in Windows,
           NEW s \in Nat, NEW size \in Nat,
           End(occupation[i]) <= s, s + size <= occupation[i + 1].offset,
           occupation' = Inserted(occupation, i, s, size),
           marked' = marked \cup Bytes(s, size)
    PROVE  /\ s + size <= Size /\ Bytes(s, size) \cap marked = {}
           /\ Inside(occupation') /\ Sorted(occupation') /\ Exact(occupation', marked')
           /\ \A k \in 1 .. Len(occupation') :
                  \/ occupation'[k].offset = s
                  \/ \E m \in 1 .. Len(occupation) : occupation'[k].offset = occupation[m].offset
<1> DEFINE M == Inserted(occupation, i, s, size)
<1>1. i \in 1 .. Len(occupation) - 1 /\ i + 1 \in 1 .. Len(occupation)
    BY WindowFacts DEF Windows
<1>2. Inside(M) /\ Sorted(M) /\ Apart(M) /\ Marks(M, occupation, s, size)
    BY <1>1, InsertedApart DEF Exact
<1> HIDE DEF M
<1>3. occupation' = M
    BY DEF M
<1>4. s + size <= Size
    BY <1>1, WindowFacts, SizesAreNaturals
<1>5. \A b : b \in Bytes(s, size) <=> b \in 0 .. Size /\ s <= b /\ b < s + size
    BY DEF Bytes
<1>6. \A b \in 0 .. Size : b \in marked' <=> Covers(M, b)
    <2> TAKE b \in 0 .. Size
    <2>1. b \in Nat
        BY SizesAreNaturals
    <2>2. Covers(M, b) <=> Covers(occupation, b) \/ (s <= b /\ b < s + size)
        BY <1>2, <2>1 DEF Marks
    <2>3. b \in marked <=> Covers(occupation, b)
        BY DEF Exact
    <2> QED
        BY <1>5, <2>2, <2>3
<1>7. ASSUME NEW b \in Bytes(s, size)
      PROVE  b \notin marked
    <2>1. b \in 0 .. Size /\ s <= b /\ b < s + size /\ b \in Nat
        BY <1>5
    <2>2. ASSUME NEW k \in 1 .. Len(occupation), occupation[k].offset <= b, b < End(occupation[k])
          PROVE  FALSE
        <3>1. /\ k < i + 1 => k <= i
              /\ ~(k < i + 1) => k = i + 1 \/ i + 1 < k
            BY <1>1, WindowFacts
        <3>2. /\ occupation[k].offset \in Nat /\ End(occupation[k]) \in Nat
              /\ occupation[i].offset \in Nat /\ End(occupation[i]) \in Nat
              /\ occupation[i + 1].offset \in Nat /\ End(occupation[i + 1]) \in Nat
              /\ occupation[i].offset <= End(occupation[i])
              /\ occupation[i + 1].offset <= End(occupation[i + 1])
            <4>1. /\ occupation[k] \in Positions /\ occupation[i] \in Positions
                  /\ occupation[i + 1] \in Positions
                BY <1>1, WindowFacts, ZenonT(60)
            <4> QED
                BY <4>1, PositionFacts, Zenon
        <3>3. /\ k < i => End(occupation[k]) < occupation[i].offset
              /\ i + 1 < k => End(occupation[i + 1]) < occupation[k].offset
            BY <1>1, WindowFacts, ZenonT(60) DEF Exact, Apart
        <3>4. CASE k < i + 1
            <4>1. End(occupation[k]) <= End(occupation[i])
                BY <1>1, <3>1, <3>2, <3>3, <3>4, WindowFacts
            <4> QED
                BY <2>1, <2>2, <3>2, <4>1
        <3>5. CASE ~(k < i + 1)
            <4>1. occupation[i + 1].offset <= occupation[k].offset
                BY <1>1, <3>1, <3>2, <3>3, <3>5
            <4> QED
                BY <2>1, <2>2, <3>2, <4>1
        <3> QED
            BY <3>4, <3>5
    <2>3. ~Covers(occupation, b)
        BY <2>2 DEF Covers
    <2> QED
        BY <2>1, <2>3 DEF Exact
<1>8. Exact(M, marked')
    BY <1>2, <1>6 DEF Exact, Marks
<1>9. \A k \in 1 .. Len(M) : \/ M[k].offset = s
                            \/ \E m \in 1 .. Len(occupation) : M[k].offset = occupation[m].offset
    BY <1>2 DEF Marks
<1> QED
    BY <1>2, <1>3, <1>4, <1>7, <1>8, <1>9

(* If no window has room, then at every aligned address a byte is in use,  *)
(* or an empty item lies inside.                                           *)
LEMMA NoWindowFits ==
    ASSUME Inside(occupation), Exact(occupation, marked), NEW size \in Nat \ {0},
           NEW align, NEW rest, NEW start, FirstStarts(start, align, rest),
           \A i \in Windows : Available(i, start[i]) < size,
           NEW a \in 0 .. Size - size, a % align = rest
    PROVE  InTheWay(a, size)
<1> DEFINE len == Len(occupation)
           S == {n \in 1 .. len : a < occupation[n].offset}
<1> SUFFICES ASSUME ~InTheWay(a, size)
             PROVE  FALSE
    OBVIOUS
<1>1. a \in Nat /\ a + size <= Size /\ a < Size
    BY SizesAreNaturals
<1>2. \A b \in 0 .. Size : a <= b /\ b < a + size => ~Covers(occupation, b)
    BY DEF InTheWay, Bytes, Exact
<1>3. \A i \in 1 .. len : occupation[i].size = 0 =>
          ~(a < occupation[i].offset /\ occupation[i].offset < a + size)
    BY DEF InTheWay
<1>4. /\ len \in Nat /\ len >= 1
      /\ \A i \in 1 .. len : /\ occupation[i].offset \in Nat /\ occupation[i].size \in Nat
                             /\ End(occupation[i]) \in Nat /\ End(occupation[i]) <= Size
                             /\ End(occupation[i]) = occupation[i].offset + occupation[i].size
    BY WindowFacts DEF Inside
<1>5. occupation[1].offset = 0 /\ End(occupation[len]) = Size
    BY DEF Exact
<1>6. \A i \in 1 .. len : occupation[i].offset <= a => End(occupation[i]) <= a
    <2> SUFFICES ASSUME NEW i \in 1 .. len, occupation[i].offset <= a, ~(End(occupation[i]) <= a)
                 PROVE  FALSE
        OBVIOUS
    <2>1. a < End(occupation[i])
        BY <1>1, <1>4
    <2>2. Covers(occupation, a)
        BY <2>1 DEF Covers
    <2> QED
        BY <1>1, <1>2, <2>2, SizesAreNaturals
<1>7. S # {}
    <2>1. ~(occupation[len].offset <= a)
        BY <1>1, <1>4, <1>5, <1>6, SizesAreNaturals
    <2>2. len \in 1 .. len /\ occupation[len].offset \in Nat
        BY <1>4
    <2>3. a < occupation[len].offset
        BY <1>1, <2>1, <2>2
    <2> QED
        BY <2>2, <2>3
<1>8. S \in SUBSET Nat
    BY <1>4
<1>9. PICK m \in S : \A n \in S : m <= n
    BY <1>7, <1>8, LeastNumber, ZenonT(60)
<1>10. m \in 1 .. len /\ a < occupation[m].offset /\ m # 1
    BY <1>1, <1>5, <1>9
<1> DEFINE i == m - 1
<1>11. i \in 1 .. len /\ i \in Windows /\ i + 1 = m /\ i < m
    BY <1>4, <1>10 DEF Windows
<1>12. occupation[i].offset <= a
    <2>1. i \notin S
        BY <1>8, <1>9, <1>11
    <2> QED
        BY <1>1, <1>4, <1>11, <2>1
<1>13. End(occupation[i]) <= a
    BY <1>6, <1>11, <1>12
<1>14. a + size <= occupation[m].offset
    <2> SUFFICES ASSUME ~(a + size <= occupation[m].offset)
                 PROVE  FALSE
        OBVIOUS
    <2> DEFINE b == occupation[m].offset
    <2>1. b \in Nat /\ a < b /\ b < a + size /\ b <= Size
        BY <1>1, <1>4, <1>10, SizesAreNaturals
    <2>2. occupation[m].size # 0
        BY <1>3, <1>10, <2>1
    <2>3. b < End(occupation[m])
        BY <1>4, <1>10, <2>2
    <2>4. Covers(occupation, b)
        BY <1>10, <2>1, <2>3 DEF Covers
    <2> HIDE DEF b
    <2>5. b \in 0 .. Size /\ a <= b
        BY <1>1, <2>1, SizesAreNaturals
    <2> QED
        BY <1>2, <2>1, <2>4, <2>5
<1>15. start[i] \in Nat /\ start[i] <= a
    BY <1>1, <1>11, <1>13 DEF FirstStarts
<1>16. Available(i, start[i]) = occupation[m].offset - start[i]
    BY <1>1, <1>4, <1>10, <1>11, <1>15 DEF Available
<1>17. Available(i, start[i]) < size
    BY <1>11
<1> HIDE DEF i
<1> QED
    BY <1>1, <1>4, <1>10, <1>14, <1>15, <1>16, <1>17

(* get_free_space and the kvm placement, whatever start they compute. *)
LEMMA PlaceGives ==
    ASSUME Inside(occupation), Exact(occupation, marked), NEW size \in Nat,
           NEW align, NEW rest, NEW start, FirstStarts(start, align, rest),
           size = 0 => \A i \in Windows : start[i] <= occupation[i + 1].offset,
           Place(size, align, rest, start)
    PROVE  Granted(size, align, rest) \/ Refused(size, align, rest)
<1> DEFINE full == [kind |-> "ContextFull", offset |-> 0, size |-> size, align |-> align,
                    rest |-> rest]
           yes(s) == [kind |-> "granted", offset |-> s, size |-> size, align |-> align,
                      rest |-> rest]
<1>1. \/ \E i \in Windows :
            /\ BestFit(i, size, start)
            /\ occupation' = Inserted(occupation, i, start[i], size)
            /\ marked' = marked \cup Bytes(start[i], size)
            /\ reply' = yes(start[i])
      \/ /\ \A i \in Windows : Available(i, start[i]) < size
         /\ reply' = full
         /\ UNCHANGED <<occupation, marked>>
    BY ZenonT(60) DEF Place, Reply
<1>2. ASSUME NEW i \in Windows, BestFit(i, size, start),
             occupation' = Inserted(occupation, i, start[i], size),
             marked' = marked \cup Bytes(start[i], size),
             reply' = yes(start[i])
      PROVE  Granted(size, align, rest)
    <2>1. start[i] \in Nat /\ End(occupation[i]) <= start[i] /\ start[i] % align = rest
        BY DEF FirstStarts
    <2>2. occupation[i + 1].offset \in Nat
        BY WindowFacts, ZenonT(60)
    <2>3. start[i] + size <= occupation[i + 1].offset
        BY <1>2, <2>1, <2>2 DEF BestFit, Available
    <2>4. reply'.offset = start[i]
        BY <1>2
    <2> DEFINE s == start[i]
    <2>5. /\ s + size <= Size /\ Bytes(s, size) \cap marked = {}
          /\ Inside(occupation') /\ Sorted(occupation') /\ Exact(occupation', marked')
          /\ \A k \in 1 .. Len(occupation') :
                \/ occupation'[k].offset = s
                \/ \E m \in 1 .. Len(occupation) : occupation'[k].offset = occupation[m].offset
        BY <1>2, <2>1, <2>3, WindowGranted, ZenonT(60)
    <2> QED
        BY <1>2, <2>1, <2>4, <2>5, Zenon DEF Granted
<1>3. ASSUME \A i \in Windows : Available(i, start[i]) < size, reply' = full,
             UNCHANGED <<occupation, marked>>
      PROVE  Refused(size, align, rest)
    BY <1>3, NoWindowFits DEF Refused
<1> QED
    BY <1>1, <1>2, <1>3

LEMMA FreeSpaceGives ==
    ASSUME Inside(occupation), Exact(occupation, marked), NEW size \in Nat,
           NEW alignment \in Nat \ {0}, GetFreeSpace(size, alignment),
           size = 0 => \A i \in 1 .. Len(occupation) : occupation[i].offset % alignment = 0
    PROVE  Granted(size, alignment, 0) \/ Refused(size, alignment, 0)
<1> DEFINE start == [i \in Windows |-> NextMultiple(End(occupation[i]), alignment)]
<1>1. Place(size, alignment, 0, start)
    BY DEF GetFreeSpace
<1>2. \A i \in Windows : start[i] = NextMultiple(End(occupation[i]), alignment)
    OBVIOUS
<1> HIDE DEF start
<1>3. FirstStarts(start, alignment, 0)
    <2> SUFFICES ASSUME NEW i \in Windows
                 PROVE  /\ start[i] \in Nat /\ End(occupation[i]) <= start[i]
                        /\ start[i] % alignment = 0
                        /\ \A m \in Nat : m % alignment = 0 /\ End(occupation[i]) <= m
                                         => start[i] <= m
        BY DEF FirstStarts
    <2>1. End(occupation[i]) \in Nat
        BY WindowFacts
    <2> QED
        BY <1>2, <2>1, NextMultipleIsLeast, ZenonT(60)
<1>4. ASSUME size = 0, NEW i \in Windows
      PROVE  start[i] <= occupation[i + 1].offset
    <2>1. i \in 1 .. Len(occupation) /\ i + 1 \in 1 .. Len(occupation) /\ i < i + 1
          /\ occupation[i + 1].offset \in Nat /\ End(occupation[i]) \in Nat
        BY WindowFacts
    <2>2. End(occupation[i]) <= occupation[i + 1].offset
        BY <2>1 DEF Exact, Apart
    <2>3. occupation[i + 1].offset % alignment = 0
        BY <1>4, <2>1
    <2> QED
        BY <1>3, <2>1, <2>2, <2>3 DEF FirstStarts
<1> QED
    BY <1>1, <1>3, <1>4, PlaceGives

LEMMA TransferGives ==
    ASSUME Inside(occupation), Exact(occupation, marked), NEW size \in Nat,
           NEW p \in 0 .. Page - 1, GetTransferOffset(size, p)
    PROVE  Granted(size, Page, p) \/ Refused(size, Page, p)
<1> DEFINE start == [i \in Windows |-> TransferStart(i, p)]
<1>1. Place(size, Page, p, start) /\ size # 0
    BY AlignmentsAreNested DEF GetTransferOffset
<1>2. \A i \in Windows : start[i] = TransferStart(i, p)
    OBVIOUS
<1> HIDE DEF start
<1>3. FirstStarts(start, Page, p)
    <2> SUFFICES ASSUME NEW i \in Windows
                 PROVE  /\ start[i] \in Nat /\ End(occupation[i]) <= start[i]
                        /\ start[i] % Page = p
                        /\ \A m \in Nat : m % Page = p /\ End(occupation[i]) <= m
                                         => start[i] <= m
        BY DEF FirstStarts
    <2>1. End(occupation[i]) \in Nat
        BY WindowFacts
    <2> QED
        BY <1>2, <2>1, TransferStartIsLeast
<1> QED
    BY <1>1, <1>3, PlaceGives

-----------------------------------------------------------------------------
LEMMA InitInv ==
    ASSUME Init
    PROVE  Inv
<1> USE SizesAreNaturals, AlignmentsAreNested
<1>1. occupation = Empty /\ marked = {} /\ stage = "new" /\ outputs = 0 /\ reply = Reply("none")
    BY DEF Init
<1>2. Inside(Empty) /\ Sorted(Empty) /\ Apart(Empty)
    BY DEF Empty, Inside, Sorted, Apart, Position, Positions, End
<1>3. \A b \in 0 .. Size : ~Covers(Empty, b)
    BY DEF Empty, Covers, Position, End
<1>4. Empty[1].offset = 0 /\ End(Empty[Len(Empty)]) = Size
    BY DEF Empty, Position, End
<1>5. Aligned(Empty)
    <2>1. 0 % Align = 0 /\ Size % Align = 0
        <3>1. Size % Page = 0 /\ Size \in Nat
            OBVIOUS
        <3>2. 0 % Align = 0
            OBVIOUS
        <3> QED
            BY <3>1, <3>2, PageAligned, Zenon
    <2>2. Len(Empty) = 2 /\ Empty[1].offset = 0 /\ Empty[2].offset = Size
        BY DEF Empty, Position
    <2> QED
        BY <2>1, <2>2 DEF Aligned
<1>6. Exact(Empty, marked)
    BY <1>1, <1>2, <1>3, <1>4 DEF Exact
<1> QED
    BY <1>1, <1>2, <1>5, <1>6 DEF Inv, Reply

(* occupy_space on a sorted list. *)
LEMMA OccupyShape ==
    ASSUME Inv, NEW offset \in Nat, NEW size \in Nat, OccupySpace(offset, size)
    PROVE  /\ Inside(occupation') /\ Sorted(occupation')
           /\ marked' \subseteq 0 .. Size - 1
           /\ reply' \in {Reply("ok"), Reply("InvalidWrite")}
<1>1. CASE offset + size > Size /\ reply' = Reply("InvalidWrite") /\ UNCHANGED <<occupation, marked>>
    BY <1>1 DEF Inv
<1>2. CASE /\ offset + size <= Size
           /\ marked' = marked \cup Bytes(offset, size) /\ reply' = Reply("ok")
    <2>1. Bytes(offset, size) \subseteq 0 .. Size - 1
        BY <1>2, SizesAreNaturals DEF Bytes
    <2>2. CASE occupation' = occupation
        BY <1>2, <2>1, <2>2, ZenonT(60) DEF Inv
    <2>3. ASSUME NEW i \in Windows, occupation[i].offset <= offset,
                 offset < occupation[i + 1].offset,
                 occupation' = Inserted(occupation, i, offset, size)
          PROVE  Inside(occupation') /\ Sorted(occupation')
        BY <1>2, <2>3, InsertedSorted DEF Inv, Windows
    <2> QED
        BY <1>2, <2>1, <2>2, <2>3, ZenonT(60) DEF OccupySpace, Inv
<1> QED
    BY <1>1, <1>2 DEF OccupySpace

(* load_static marks the pages from 0 on. *)
LEMMA LoadExact ==
    ASSUME Inv, stage = "new", NEW size \in Nat, OccupySpace(0, size), reply' = Reply("ok")
    PROVE  Exact(occupation', marked') /\ Aligned(occupation')
<1> USE SizesAreNaturals
<1> occupation = Empty /\ marked = {}
    BY DEF Inv
<1>1. size <= Size /\ marked' = marked \cup Bytes(0, size)
    BY DEF OccupySpace, Reply
<1>2. /\ Windows = {1} /\ occupation[1].offset = 0 /\ End(occupation[1]) = 0
      /\ occupation[1 + 1].offset = Size
    BY DEF Windows, Empty, Position, End
<1>3. occupation' = Inserted(occupation, 1, 0, size)
    BY <1>1, <1>2 DEF OccupySpace, Reply
<1>4. Exact(occupation, marked) /\ Inside(occupation) /\ Aligned(occupation)
    BY DEF Inv
<1>5. /\ Exact(occupation', marked')
      /\ \A k \in 1 .. Len(occupation') :
            \/ occupation'[k].offset = 0
            \/ \E m \in 1 .. Len(occupation) : occupation'[k].offset = occupation[m].offset
    BY <1>1, <1>2, <1>3, <1>4, WindowGranted
<1>6. 0 % Align = 0
    BY AlignmentsAreNested
<1> QED
    BY <1>4, <1>5, <1>6 DEF Aligned

Replies == [kind : {"none", "ok", "InvalidWrite", "granted", "ContextFull",
                    "end", "panic", "error"},
            offset : Nat, size : Nat, align : Nat, rest : Nat]

LEMMA RepliesTyped ==
    /\ \A kind \in {"none", "ok", "InvalidWrite", "end", "panic", "error"} : Reply(kind) \in Replies
    /\ \A offset \in Nat : [Reply("end") EXCEPT !.offset = offset] \in Replies
BY DEF Reply, Replies

LEMMA LoadInv ==
    ASSUME Inv, LoadStatic
    PROVE  Inv'
<1>1. PICK pages \in 0 .. Size \div Page + 1 : OccupySpace(0, pages * Page)
    BY DEF LoadStatic
<1> DEFINE size == pages * Page
<1>2. size \in Nat
    <2>1. pages \in Nat /\ Page \in Nat
        BY SizesAreNaturals, AlignmentsAreNested, DivisionNat
    <2> QED
        BY <2>1
<1> HIDE DEF size
<1>3. OccupySpace(0, size) /\ stage = "new" /\ outputs' = outputs
      /\ stage' = IF reply'.kind \in {"ok", "granted"} THEN "loaded" ELSE "failed"
    BY <1>1 DEF LoadStatic, Continue, size
<1>4. /\ Inside(occupation') /\ Sorted(occupation') /\ marked' \subseteq 0 .. Size - 1
      /\ reply' \in {Reply("ok"), Reply("InvalidWrite")}
    BY <1>2, <1>3, OccupyShape
<1>5. reply' \in Replies /\ outputs' \in 0 .. MaxOutputs
    BY <1>3, <1>4, RepliesTyped DEF Inv
<1>6. CASE reply' = Reply("ok")
    <2>1. Exact(occupation', marked') /\ Aligned(occupation')
        BY <1>2, <1>3, <1>6, LoadExact
    <2>2. stage' = "loaded"
        BY <1>3, <1>6 DEF Reply
    <2> QED
        BY <1>4, <1>5, <2>1, <2>2 DEF Inv, Replies
<1>7. CASE reply' = Reply("InvalidWrite")
    <2>1. stage' = "failed"
        BY <1>3, <1>7 DEF Reply
    <2> QED
        BY <1>4, <1>5, <2>1 DEF Inv, Replies
<1> QED
    BY <1>4, <1>6, <1>7

(* A search for space keeps the invariant. *)
LEMMA SearchInv ==
    ASSUME Inv, stage \in {"loaded", "placed"}, NEW next \in {"loaded", "placed"},
           NEW size \in Nat, NEW align \in Nat \ {0}, NEW rest \in Nat,
           Granted(size, align, rest) \/ Refused(size, align, rest),
           next = "loaded" => stage = "loaded" /\ \A m \in Nat : m % align = rest => m % Align = 0,
           Continue(next), outputs' = outputs
    PROVE  Inv'
<1>1. CASE Granted(size, align, rest)
    <2> DEFINE s == reply'.offset
    <2>1. /\ reply' = [kind |-> "granted", offset |-> s, size |-> size, align |-> align,
                       rest |-> rest]
          /\ s \in Nat /\ s + size <= Size /\ s % align = rest
          /\ marked' = marked \cup Bytes(s, size)
          /\ Inside(occupation') /\ Sorted(occupation') /\ Exact(occupation', marked')
          /\ \A k \in 1 .. Len(occupation') :
                \/ occupation'[k].offset = s
                \/ \E m \in 1 .. Len(occupation) : occupation'[k].offset = occupation[m].offset
        BY <1>1, ZenonT(60) DEF Granted
    <2> HIDE DEF s
    <2>2. reply' \in Replies
        BY <2>1 DEF Replies
    <2>3. stage' = next
        BY <2>1 DEF Continue
    <2>4. marked' \subseteq 0 .. Size - 1
        <3>1. Bytes(s, size) \subseteq 0 .. Size - 1
            BY <2>1, SizesAreNaturals DEF Bytes
        <3> QED
            BY <2>1, <3>1, ZenonT(60) DEF Inv
    <2>5. next = "loaded" => Aligned(occupation')
        <3> SUFFICES ASSUME next = "loaded"
                     PROVE  Aligned(occupation')
            OBVIOUS
        <3>1. s % Align = 0 /\ Aligned(occupation)
            BY <2>1 DEF Inv
        <3> QED
            BY <2>1, <3>1 DEF Aligned
    <2> QED
        BY <2>1, <2>2, <2>3, <2>4, <2>5, ZenonT(60) DEF Inv, Replies
<1>2. CASE Refused(size, align, rest)
    <2>1. /\ reply' = [kind |-> "ContextFull", offset |-> 0, size |-> size, align |-> align,
                       rest |-> rest]
          /\ UNCHANGED <<occupation, marked>>
        BY <1>2 DEF Refused
    <2>2. reply' \in Replies /\ stage' = "failed"
        BY <2>1 DEF Replies, Continue
    <2> QED
        BY <2>1, <2>2 DEF Inv, Replies
<1> QED
    BY <1>1, <1>2, ZenonT(60)

(* What the placing actions do, for their effect and for the replies. *)
LEMMA InputSearch ==
    ASSUME Inv, PlaceInput
    PROVE  \E size \in Nat, align \in Nat \ {0}, rest \in Nat :
              /\ Granted(size, align, rest) \/ Refused(size, align, rest)
              /\ \A m \in Nat : m % align = rest => m % Align = 0
<1>1. Inside(occupation) /\ Exact(occupation, marked) /\ Aligned(occupation) /\ stage = "loaded"
    BY DEF Inv, PlaceInput
<1>2. PICK size \in Sizes :
          \/ GetFreeSpace(size, Align)
          \/ \E p \in {n \in 0 .. Page - 1 : n % Align = 0} : GetTransferOffset(size, p)
    BY DEF PlaceInput
<1>3. size \in Nat /\ Align \in Nat \ {0} /\ Page \in Nat \ {0}
    BY SizesAreNaturals, AlignmentsAreNested
<1>4. CASE GetFreeSpace(size, Align)
    <2>1. Granted(size, Align, 0) \/ Refused(size, Align, 0)
        BY <1>1, <1>3, <1>4, FreeSpaceGives DEF Aligned
    <2> QED
        BY <1>3, <2>1
<1>5. ASSUME NEW p \in {n \in 0 .. Page - 1 : n % Align = 0}, GetTransferOffset(size, p)
      PROVE  \E sz \in Nat, align \in Nat \ {0}, rest \in Nat :
                /\ Granted(sz, align, rest) \/ Refused(sz, align, rest)
                /\ \A m \in Nat : m % align = rest => m % Align = 0
    <2>1. p \in 0 .. Page - 1 /\ p % Align = 0 /\ p \in Nat
        BY <1>3
    <2>2. Granted(size, Page, p) \/ Refused(size, Page, p)
        BY <1>1, <1>3, <1>5, <2>1, TransferGives
    <2>3. \A m \in Nat : m % Page = p => m % Align = 0
        BY <2>1, PageAligned
    <2> size \in Nat /\ Page \in Nat \ {0} /\ p \in Nat
        BY <1>3, <2>1
    <2> WITNESS size \in Nat, Page \in Nat \ {0}, p \in Nat
    <2> QED
        BY <2>2, <2>3
<1> QED
    BY <1>2, <1>4, <1>5

LEMMA StructureSearch ==
    ASSUME Inv, PlaceStructure
    PROVE  \E size \in Nat, align \in Nat \ {0} :
              Granted(size, align, 0) \/ Refused(size, align, 0)
<1>1. Inside(occupation) /\ Exact(occupation, marked)
    BY DEF Inv, PlaceStructure
<1>2. PICK size \in Sizes \ {0}, alignment \in TypeAligns : GetFreeSpace(size, alignment)
    BY DEF PlaceStructure
<1>3. size \in Nat /\ size # 0 /\ alignment \in Nat \ {0}
    BY SizesAreNaturals, AlignmentsAreNested
<1>4. Granted(size, alignment, 0) \/ Refused(size, alignment, 0)
    BY <1>1, <1>2, <1>3, FreeSpaceGives
<1> QED
    BY <1>3, <1>4

(* Every step keeps the invariant. *)
LEMMA NextInv ==
    ASSUME Inv, [Next]_vars
    PROVE  Inv'
<1>1. CASE LoadStatic
    BY <1>1, LoadInv
<1>2. CASE PlaceInput
    <2>1. PICK size \in Nat, align \in Nat \ {0}, rest \in Nat :
              /\ Granted(size, align, rest) \/ Refused(size, align, rest)
              /\ \A m \in Nat : m % align = rest => m % Align = 0
        BY <1>2, InputSearch
    <2>2. stage = "loaded" /\ Continue("loaded") /\ outputs' = outputs
        BY <1>2 DEF PlaceInput
    <2> QED
        BY <2>1, <2>2, SearchInv
<1>3. CASE PlaceStructure
    <2>1. PICK size \in Nat, align \in Nat \ {0} :
              Granted(size, align, 0) \/ Refused(size, align, 0)
        BY <1>3, StructureSearch
    <2>2. stage \in {"loaded", "placed"} /\ Continue("placed") /\ outputs' = outputs
        BY <1>3 DEF PlaceStructure
    <2> QED
        BY <2>1, <2>2, SearchInv
<1>4. CASE LastItemEnd
    <2>1. /\ stage = "placed" /\ stage' = "started" /\ UNCHANGED <<occupation, outputs, marked>>
          /\ reply' = IF Len(occupation) < 2
                      THEN Reply("panic")
                      ELSE [Reply("end") EXCEPT !.offset = End(occupation[Len(occupation) - 1])]
        BY <1>4 DEF LastItemEnd
    <2>2. Len(occupation) \in Nat
          /\ \A i \in 1 .. Len(occupation) : End(occupation[i]) \in Nat
        BY WindowFacts DEF Inv
    <2>3. CASE Len(occupation) < 2
        BY <2>1, <2>3, RepliesTyped DEF Inv, Replies
    <2>4. CASE ~(Len(occupation) < 2)
        <3>1. End(occupation[Len(occupation) - 1]) \in Nat
            BY <2>2, <2>4
        <3>2. reply' \in Replies
            BY <2>1, <2>4, <3>1, RepliesTyped
        <3> QED
            BY <2>1, <3>2 DEF Inv, Replies
    <2> QED
        BY <2>3, <2>4
<1>5. CASE ClearMetadata
    <2>1. /\ occupation' = Empty /\ marked' = {} /\ reply' = Reply("none") /\ stage' = "output"
          /\ outputs' = outputs
        BY <1>5 DEF ClearMetadata
    <2>2. Inside(Empty) /\ Sorted(Empty)
        BY SizesAreNaturals DEF Empty, Inside, Sorted, Position, Positions, End
    <2> QED
        BY <2>1, <2>2, RepliesTyped DEF Inv, Replies
<1>6. CASE MarkOutput
    <2>1. PICK offset \in 0 .. Size, size \in Sizes : OccupySpace(offset, size)
        BY <1>6 DEF MarkOutput
    <2>2. /\ Inside(occupation') /\ Sorted(occupation') /\ marked' \subseteq 0 .. Size - 1
          /\ reply' \in {Reply("ok"), Reply("InvalidWrite")}
        BY <2>1, SizesAreNaturals, OccupyShape
    <2>3. /\ outputs' \in 0 .. MaxOutputs
        BY <1>6, AlignmentsAreNested DEF MarkOutput, Inv
    <2>4. stage' \in {"output", "failed"}
        BY <1>6 DEF MarkOutput, Continue
    <2> QED
        BY <2>2, <2>3, <2>4, RepliesTyped DEF Inv, Replies
<1>7. CASE OtherError
    <2>1. reply' = Reply("error") /\ stage' = "failed" /\ UNCHANGED <<occupation, outputs, marked>>
        BY <1>7 DEF OtherError
    <2> QED
        BY <2>1, RepliesTyped DEF Inv, Replies
<1>8. CASE UNCHANGED vars
    BY <1>8 DEF vars, Inv, Inside, Sorted, Exact, Aligned
<1> QED
    BY <1>1, <1>2, <1>3, <1>4, <1>5, <1>6, <1>7, <1>8 DEF Next

LEMMA AlwaysInv == Spec => []Inv
<1>1. Init => Inv
    BY InitInv
<1>2. Inv /\ [Next]_vars => Inv'
    BY NextInv
<1> QED
    BY <1>1, <1>2, PTL DEF Spec

-----------------------------------------------------------------------------
(* The bytes of the list's positions are the bytes that are covered. *)
LEMMA OccupiedIsCovered ==
    ASSUME Inside(occupation)
    PROVE  Occupied = {b \in 0 .. Size : Covers(occupation, b)}
<1>1. \A i \in 1 .. Len(occupation) :
          /\ End(occupation[i]) = occupation[i].offset + occupation[i].size
          /\ End(occupation[i]) <= Size
    BY WindowFacts
<1>2. ASSUME NEW b
      PROVE  b \in Occupied <=> b \in 0 .. Size /\ Covers(occupation, b)
    <2>1. b \in Occupied <=> \E i \in 1 .. Len(occupation) :
                                 b \in Bytes(occupation[i].offset, occupation[i].size)
        BY Zenon DEF Occupied
    <2>2. \A i \in 1 .. Len(occupation) :
              b \in Bytes(occupation[i].offset, occupation[i].size)
                  <=> b \in 0 .. Size /\ occupation[i].offset <= b /\ b < End(occupation[i])
        BY <1>1, Zenon DEF Bytes
    <2> QED
        BY <2>1, <2>2, Zenon DEF Covers
<1> QED
    BY <1>2, ZenonT(60)

(* The occupation list of a Context (memory_domain.rs) is well formed, its  *)
(* windows are the free runs while space is searched, and its positions     *)
(* cover exactly the bytes that load_static, transfer_data_item and         *)
(* setup_input_structs asked for, for every size, alignment and order.      *)
THEOREM OccupationIsExact == Spec => []ListIsExact
<1>1. ASSUME Inv
      PROVE  ListIsExact
    <2>1. \A i \in 1 .. Len(occupation) :
              occupation[i] \in Positions /\ End(occupation[i]) <= Size
        BY <1>1, WindowFacts DEF Inv
    <2>2. TypeOK
        BY <1>1, <2>1 DEF Inv, TypeOK, Positions
    <2>3. stage \in {"new", "loaded", "placed", "started"} =>
              \A i \in Windows : End(occupation[i]) < occupation[i + 1].offset
        BY <1>1, WindowFacts DEF Inv, Exact, Apart
    <2>4. stage \in {"loaded", "placed", "started"} => Occupied = marked
        <3> SUFFICES ASSUME stage \in {"loaded", "placed", "started"}
                     PROVE  Occupied = marked
            OBVIOUS
        <3>1. Exact(occupation, marked) /\ Inside(occupation) /\ marked \subseteq 0 .. Size - 1
            BY <1>1 DEF Inv
        <3>2. Occupied = {b \in 0 .. Size : Covers(occupation, b)}
            BY <3>1, OccupiedIsCovered
        <3>3. \A b \in 0 .. Size : Covers(occupation, b) <=> b \in marked
            BY <3>1 DEF Exact
        <3>4. marked \subseteq 0 .. Size
            BY <3>1, SizesAreNaturals
        <3> QED
            BY <3>2, <3>3, <3>4, Zenon
    <2> QED
        BY <2>2, <2>3, <2>4 DEF ListIsExact
<1> QED
    BY <1>1, AlwaysInv, PTL

(* What a step that answers "granted" or "ContextFull" did. *)
LEMMA AnswersAreSearches ==
    ASSUME Inv, [Next]_vars, reply'.kind \in {"granted", "ContextFull"}, ~UNCHANGED vars
    PROVE  \E size \in Nat, align \in Nat \ {0}, rest \in Nat :
              Granted(size, align, rest) \/ Refused(size, align, rest)
<1>1. CASE LoadStatic
    BY <1>1 DEF LoadStatic, OccupySpace, Reply
<1>2. CASE PlaceInput
    BY <1>2, InputSearch
<1>3. CASE PlaceStructure
    BY <1>3, StructureSearch
<1>4. CASE LastItemEnd
    BY <1>4 DEF LastItemEnd, Reply
<1>5. CASE ClearMetadata
    BY <1>5 DEF ClearMetadata, Reply
<1>6. CASE MarkOutput
    BY <1>6 DEF MarkOutput, OccupySpace, Reply
<1>7. CASE OtherError
    BY <1>7 DEF OtherError, Reply
<1> QED
    BY <1>1, <1>2, <1>3, <1>4, <1>5, <1>6, <1>7 DEF Next

(* get_free_space and the kvm placement of transfer_data_item never hand    *)
(* out a byte that is in use or outside the context, and the address has    *)
(* the alignment, or the position inside its page, that was asked for.      *)
THEOREM GrantsTakeFreeBytes == Spec => GrantsAreFree
<1>1. ASSUME Inv, [Next]_vars
      PROVE  [reply'.kind = "granted" /\ occupation' # occupation =>
                /\ Bytes(reply'.offset, reply'.size) \cap marked = {}
                /\ reply'.offset + reply'.size <= Size
                /\ reply'.offset % reply'.align = reply'.rest]_vars
    <2> SUFFICES ASSUME ~UNCHANGED vars, reply'.kind = "granted"
                 PROVE  /\ Bytes(reply'.offset, reply'.size) \cap marked = {}
                        /\ reply'.offset + reply'.size <= Size
                        /\ reply'.offset % reply'.align = reply'.rest
        OBVIOUS
    <2>1. PICK size \in Nat, align \in Nat \ {0}, rest \in Nat :
              Granted(size, align, rest) \/ Refused(size, align, rest)
        BY <1>1, AnswersAreSearches
    <2>2. ~Refused(size, align, rest)
        BY DEF Refused
    <2>3. Granted(size, align, rest)
        BY <2>1, <2>2
    <2>4. reply'.size = size /\ reply'.align = align /\ reply'.rest = rest
        BY <2>3 DEF Granted
    <2> QED
        BY <2>3, <2>4 DEF Granted
<1> QED
    BY <1>1, AlwaysInv, PTL DEF Spec, GrantsAreFree

(* ContextFull is never a false alarm: whatever get_free_space or the kvm   *)
(* placement refuses would overlap bytes in use, or an empty item, at every *)
(* address of the alignment that was asked for.                             *)
THEOREM ContextFullIsTrue == Spec => NoFalseContextFull
<1>1. ASSUME Inv, [Next]_vars
      PROVE  [reply'.kind = "ContextFull" /\ reply'.size > 0 =>
                \A a \in 0 .. Size - reply'.size :
                    a % reply'.align = reply'.rest =>
                        \/ Bytes(a, reply'.size) \cap marked # {}
                        \/ \E i \in 1 .. Len(occupation) :
                               /\ occupation[i].size = 0
                               /\ a < occupation[i].offset
                               /\ occupation[i].offset < a + reply'.size]_vars
    <2> SUFFICES ASSUME ~UNCHANGED vars, reply'.kind = "ContextFull", reply'.size > 0,
                        NEW a \in 0 .. Size - reply'.size, a % reply'.align = reply'.rest
                 PROVE  InTheWay(a, reply'.size)
        BY DEF InTheWay
    <2>1. PICK size \in Nat, align \in Nat \ {0}, rest \in Nat :
              Granted(size, align, rest) \/ Refused(size, align, rest)
        BY <1>1, AnswersAreSearches
    <2>2. ~Granted(size, align, rest)
        BY DEF Granted
    <2>3. Refused(size, align, rest)
        BY <2>1, <2>2
    <2>4. reply'.size = size /\ reply'.align = align /\ reply'.rest = rest
        BY <2>3 DEF Refused
    <2> QED
        BY <2>3, <2>4 DEF Refused
<1> QED
    BY <1>1, AlwaysInv, PTL DEF Spec, NoFalseContextFull

=============================================================================
