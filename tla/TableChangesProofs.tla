-------------------------- MODULE TableChangesProofs --------------------------
(***************************************************************************)
(* For a table of any size and a log of any length: the change info leads   *)
(* each row to where it is now, its marks are the rows that were changed,   *)
(* and an observed list keeps to its owner unless erase_rows skips it.       *)
(***************************************************************************)
EXTENDS TableChanges, FiniteSetTheorems, WellFoundedInduction, TLAPS

-----------------------------------------------------------------------------
(* Induction and recursion *)

LEMMA LeastNumber ==
    ASSUME NEW T \in SUBSET Nat, T # {}
    PROVE  \E x \in T : \A y \in T : x <= y
<1>1. PICK x \in T : \A y \in T : ~(<<y, x>> \in OpToRel(<, Nat))
  BY WFMin, NatLessThanWellFounded
<1>2. ASSUME NEW y \in T PROVE x <= y
  <2>1. ~(y < x)
    BY <1>1 DEF OpToRel
  <2> QED BY <2>1
<1> QED BY <1>2

LEMMA Induction ==
    ASSUME NEW n \in Nat, NEW S, 0 \in S, \A k \in 0 .. n - 1 : k \in S => k + 1 \in S
    PROVE  \A k \in 0 .. n : k \in S
<1> DEFINE T == {k \in 0 .. n : k \notin S}
<1> SUFFICES ASSUME T # {} PROVE FALSE
  OBVIOUS
<1>1. T \in SUBSET Nat
  OBVIOUS
<1>2. PICK x \in T : \A y \in T : x <= y
  BY <1>1, LeastNumber
<1>3. x \in 0 .. n /\ x \notin S /\ x # 0
  BY <1>2
<1>4. x - 1 \in 0 .. n - 1 /\ x - 1 \in S
  BY <1>2, <1>3
<1>5. (x - 1) + 1 \in S
  BY <1>4
<1> QED BY <1>3, <1>5

(* g begins with b and its k-th step is F[k]. *)
Unfolds(g, b, F, n) == g[0] = b /\ \A k \in 1 .. n : g[k] = F[k][g[k - 1]]

(* A function may be defined from its value one step before. *)
LEMMA Recursion ==
    ASSUME NEW n \in Nat, NEW V, NEW b \in V, NEW F \in [1 .. n -> [V -> V]]
    PROVE  \E g \in [0 .. n -> V] : Unfolds(g, b, F, n)
<1> DEFINE Upto(m, g) == Unfolds(g, b, F, m)
           S == {m \in 0 .. n : \E g \in [0 .. m -> V] : Upto(m, g)}
<1>1. 0 \in S
  <2> DEFINE g == [k \in 0 .. 0 |-> b]
  <2>1. g \in [0 .. 0 -> V] /\ g[0] = b
    OBVIOUS
  <2>2. Upto(0, g)
    BY <2>1 DEF Unfolds
  <2>3. \E f \in [0 .. 0 -> V] : Upto(0, f)
    <3> HIDE DEF g, Upto
    <3> QED BY <2>1, <2>2
  <2> QED BY <2>3
<1>2. ASSUME NEW m \in 0 .. n - 1, m \in S PROVE m + 1 \in S
  <2>1. PICK g \in [0 .. m -> V] : Upto(m, g)
    BY <1>2
  <2> DEFINE h == [k \in 0 .. m + 1 |-> IF k = m + 1 THEN F[m + 1][g[m]] ELSE g[k]]
  <2>2. F[m + 1] \in [V -> V] /\ g[m] \in V
    BY <1>2
  <2>3. h \in [0 .. m + 1 -> V]
    BY <2>2
  <2>4. h[0] = b
    BY <2>1 DEF Unfolds
  <2>5. ASSUME NEW k \in 1 .. m + 1 PROVE h[k] = F[k][h[k - 1]]
    <3>1. k - 1 \in 0 .. m /\ h[k - 1] = g[k - 1]
      OBVIOUS
    <3>2. CASE k = m + 1
      BY <3>1, <3>2
    <3>3. CASE k # m + 1
      <4>1. k \in 1 .. m
        BY <3>3
      <4>2. g[k] = F[k][g[k - 1]]
        BY <2>1, <4>1 DEF Unfolds
      <4> QED BY <3>1, <4>1, <4>2
    <3> QED BY <3>2, <3>3
  <2>6. Upto(m + 1, h)
    <3> HIDE DEF h
    <3> QED BY <2>4, <2>5 DEF Unfolds
  <2>7. \E f \in [0 .. m + 1 -> V] : Upto(m + 1, f)
    <3> HIDE DEF h, Upto
    <3> QED BY <2>3, <2>6
  <2>8. m + 1 \in 0 .. n
    OBVIOUS
  <2> HIDE DEF Upto
  <2> QED BY <2>7, <2>8
<1>3. \A m \in 0 .. n : m \in S
  <2> HIDE DEF S
  <2> QED BY <1>1, <1>2, Induction
<1>4. \E g \in [0 .. n -> V] : Upto(n, g)
  <2> HIDE DEF Upto
  <2> QED BY <1>3
<1> QED BY <1>4

-----------------------------------------------------------------------------
(* IndexSet: shift undoes unshift. *)

Below(S, k) == {i \in S : 0 <= i /\ i < k}

LEMMA BelowFinite ==
    ASSUME NEW S \in SUBSET Nat, NEW k \in Nat
    PROVE  /\ IsFiniteSet(Below(S, k)) /\ Cardinality(Below(S, k)) \in 0 .. k
           /\ Unshift(S, k) = k - Cardinality(Below(S, k))
<1>1. Below(S, k) \in SUBSET (0 .. k - 1)
  <2> SUFFICES ASSUME NEW i \in Below(S, k) PROVE i \in 0 .. k - 1
    OBVIOUS
  <2>1. i \in S /\ 0 <= i /\ i < k
    BY DEF Below
  <2>2. i \in Nat
    BY <2>1
  <2> QED BY <2>1, <2>2
<1>2. IsFiniteSet(0 .. k - 1) /\ Cardinality(0 .. k - 1) = k
  BY FS_Interval
<1>3. IsFiniteSet(Below(S, k)) /\ Cardinality(Below(S, k)) <= k
  BY <1>1, <1>2, FS_Subset
<1>4. Cardinality(Below(S, k)) \in Nat
  BY <1>3, FS_CardinalityType
<1> QED BY <1>3, <1>4 DEF Unshift, Count, Below

(* Going up, unshift never goes down, and goes up behind an index that is not in S. *)
LEMMA UnshiftGrows ==
    ASSUME NEW S \in SUBSET Nat, NEW j \in Nat, NEW k \in Nat, j < k
    PROVE  /\ Unshift(S, j) <= Unshift(S, k)
           /\ j \notin S => Unshift(S, j) < Unshift(S, k)
<1> DEFINE A == Below(S, j)
           B == S \cap (j .. k - 1)
<1>1. /\ IsFiniteSet(A) /\ Cardinality(A) \in 0 .. j /\ Unshift(S, j) = j - Cardinality(A)
      /\ Cardinality(Below(S, k)) \in 0 .. k /\ Unshift(S, k) = k - Cardinality(Below(S, k))
  BY BelowFinite
<1>2. Below(S, k) = A \cup B /\ A \cap B = {}
  <2>1. \A i \in S : i \in Nat
    OBVIOUS
  <2>2. \A i \in Nat : 0 <= i /\ (i < k <=> i < j \/ i \in j .. k - 1) /\ ~(i < j /\ i \in j .. k - 1)
    OBVIOUS
  <2>3. \A i : i \in Below(S, k) <=> i \in A \/ i \in B
    BY <2>1, <2>2 DEF Below
  <2>4. \A i : ~(i \in A /\ i \in B)
    BY <2>1, <2>2 DEF Below
  <2> QED BY <2>3, <2>4
<1>3. IsFiniteSet(j .. k - 1) /\ Cardinality(j .. k - 1) = k - j
  BY FS_Interval
<1>4. IsFiniteSet(B) /\ Cardinality(B) <= k - j /\ Cardinality(B) \in Nat
  <2>1. B \in SUBSET (j .. k - 1)
    OBVIOUS
  <2> QED BY <1>3, <2>1, FS_Subset, FS_CardinalityType
<1>5. j \notin S => Cardinality(B) <= k - j - 1
  <2> SUFFICES ASSUME j \notin S PROVE Cardinality(B) <= k - j - 1
    OBVIOUS
  <2>1. B \in SUBSET (j + 1 .. k - 1)
    OBVIOUS
  <2>2. IsFiniteSet(j + 1 .. k - 1) /\ Cardinality(j + 1 .. k - 1) = k - j - 1
    BY FS_Interval
  <2> QED BY <2>1, <2>2, FS_Subset
<1>6. Cardinality(Below(S, k)) = Cardinality(A) + Cardinality(B)
  <2>1. Cardinality(A \cup B) = Cardinality(A) + Cardinality(B) - Cardinality(A \cap B)
    BY <1>1, <1>4, FS_Union
  <2> HIDE DEF A, B
  <2>2. Cardinality(A \cap B) = 0
    BY <1>2, FS_EmptySet
  <2> QED BY <1>1, <1>2, <1>4, <2>1, <2>2
<1> HIDE DEF A, B
<1> QED BY <1>1, <1>4, <1>5, <1>6

(* Two sets with the same indexes below k, which is in neither. *)
LEMMA ShiftUnshift ==
    ASSUME NEW S \in SUBSET Nat, NEW T \in SUBSET Nat, NEW k \in Nat, k \notin S,
           \A j \in 0 .. k - 1 : j \in S <=> j \in T
    PROVE  Shift(S, Unshift(T, k)) = k
<1>1. Below(T, k) = Below(S, k)
  <2>1. \A i \in S \cup T : i \in Nat
    OBVIOUS
  <2>2. \A i \in Nat : i < k => i \in 0 .. k - 1
    OBVIOUS
  <2>3. \A i : i \in Below(T, k) <=> i \in Below(S, k)
    BY <2>1, <2>2 DEF Below
  <2> QED BY <2>3
<1>2. Unshift(T, k) = Unshift(S, k)
  BY <1>1, BelowFinite
<1>3. \A j \in S : Unshift(S, j) <= Unshift(S, k) <=> j < k
  <2> SUFFICES ASSUME NEW j \in S PROVE Unshift(S, j) <= Unshift(S, k) <=> j < k
    OBVIOUS
  <2>1. CASE j < k
    BY <2>1, UnshiftGrows
  <2>2. CASE k < j
    <3>1. Unshift(S, k) < Unshift(S, j)
      BY <2>2, UnshiftGrows
    <3>2. Unshift(S, k) \in Int /\ Unshift(S, j) \in Int
      BY BelowFinite
    <3> QED BY <2>2, <3>1, <3>2
  <2> QED BY <2>1, <2>2
<1>4. {j \in S : Unshift(S, j) <= Unshift(S, k)} = Below(S, k)
  <2>1. \A i \in S : i \in Nat /\ 0 <= i
    OBVIOUS
  <2> DEFINE Lower == {j \in S : Unshift(S, j) <= Unshift(S, k)}
  <2>2. \A i : i \in Lower <=> i \in Below(S, k)
    BY <1>3, <2>1 DEF Below
  <2> QED BY <2>2
<1>5. Shift(S, Unshift(S, k)) = Unshift(S, k) + Cardinality(Below(S, k))
  BY <1>4 DEF Shift
<1> QED BY <1>2, <1>5, BelowFinite

-----------------------------------------------------------------------------
(* What the change info of a table says of its rows: r are the rows now, f the rows
   when it began, del, ins and map its deletions, insertions and mapping. *)

(* The rows that neither moved nor are new are the ones that were neither moved nor
   deleted, and have the same index; the mapping leads every moved row to its origin.
   The rows in gone are about to be erased. *)
TracksBut(del, ins, map, r, f, gone) ==
    /\ ins \subseteq Indexes(r)
    /\ \A k \in Indexes(r) \ ins : k \in Indexes(f) \ del /\ f[k + 1] = r[k + 1]
    /\ \A i \in Indexes(f) \ del : i \in Indexes(r) \ ins
    /\ DOMAIN map \subseteq ins
    /\ \A k \in DOMAIN map \ gone :
          /\ map[k] \in Indexes(f) /\ map[k] \in del \cup (gone \ ins)
          /\ f[map[k] + 1] = r[k + 1]
    /\ \A k \in ins \ (DOMAIN map \cup gone) : \A i \in Indexes(f) : f[i + 1] # r[k + 1]

Tracks(del, ins, map, r, f) == TracksBut(del, ins, map, r, f, {})

(* A row that stayed is found by its index. *)
LEMMA StayingSource ==
    ASSUME NEW r \in Seq(Nat), NEW f \in Seq(Nat), NEW del \in SUBSET Nat, NEW ins \in SUBSET Nat,
           NEW map, NEW gone, TracksBut(del, ins, map, r, f, gone), NEW k \in Indexes(r) \ ins
    PROVE  /\ Shift(del, Unshift(ins, k)) = k
           /\ \A j \in 0 .. k - 1 : j \in del <=> j \in ins
           /\ k \in Nat /\ k \notin del
<1>1. k \in Nat /\ k \in Indexes(f) \ del
  BY DEF TracksBut, Indexes
<1>2. ASSUME NEW j \in 0 .. k - 1 PROVE j \in del <=> j \in ins
  <2>1. j \in Indexes(r) /\ j \in Indexes(f)
    BY <1>1 DEF Indexes
  <2> QED BY <2>1 DEF TracksBut
<1> QED BY <1>1, <1>2, ShiftUnshift

Maps == UNION {[D -> Nat] : D \in SUBSET Nat}
MoveSeqs == Seq([from : Nat, to : Nat])
Changes ==
    [deletions : SUBSET Nat, insertions : SUBSET Nat, modifications : SUBSET Nat,
     moves : MoveSeqs, mapping : Maps]

LEMMA MovesShifted ==
    ASSUME NEW ms \in MoveSeqs, NEW at \in Nat
    PROVE  [k \in DOMAIN ms |-> [ms[k] EXCEPT !.to = IF @ >= at THEN @ + 1 ELSE @]] \in MoveSeqs
<1> DEFINE AMove == [from : Nat, to : Nat]
           New(m) == [m EXCEPT !.to = IF @ >= at THEN @ + 1 ELSE @]
<1>1. ms \in Seq(AMove)
  BY DEF MoveSeqs
<1>2. \A m \in AMove : New(m) \in AMove
  OBVIOUS
<1> HIDE DEF AMove, New
<1>3. [k \in DOMAIN ms |-> New(ms[k])] \in [1 .. Len(ms) -> AMove] /\ Len(ms) \in Nat
  BY <1>1, <1>2
<1>4. [k \in DOMAIN ms |-> New(ms[k])] \in Seq(AMove)
  BY <1>3
<1> QED BY <1>4 DEF New, AMove, MoveSeqs

LEMMA MapType ==
    ASSUME NEW map \in Maps
    PROVE  /\ DOMAIN map \in SUBSET Nat /\ map \in [DOMAIN map -> Nat]
           /\ \A k \in DOMAIN map : map[k] \in Nat
<1>1. PICK D \in SUBSET Nat : map \in [D -> Nat]
  BY DEF Maps
<1> QED BY <1>1

LEMMA WithoutType ==
    ASSUME NEW map \in Maps, NEW x
    PROVE  /\ Without(map, x) \in Maps /\ DOMAIN Without(map, x) = DOMAIN map \ {x}
           /\ \A k \in DOMAIN map \ {x} : Without(map, x)[k] = map[k]
<1>1. DOMAIN map \ {x} \in SUBSET Nat /\ Without(map, x) \in [DOMAIN map \ {x} -> Nat]
  BY MapType DEF Without
<1>2. Without(map, x) \in Maps
  BY <1>1 DEF Maps
<1> QED BY <1>2 DEF Without

LEMMA PutType ==
    ASSUME NEW map \in Maps, NEW x \in Nat, NEW v \in Nat
    PROVE  /\ Put(map, x, v) \in Maps /\ DOMAIN Put(map, x, v) = DOMAIN map \cup {x}
           /\ Put(map, x, v)[x] = v
           /\ \A k \in DOMAIN map \ {x} : Put(map, x, v)[k] = map[k]
<1>1. DOMAIN map \cup {x} \in SUBSET Nat /\ Put(map, x, v) \in [DOMAIN map \cup {x} -> Nat]
  BY MapType DEF Put
<1>2. Put(map, x, v) \in Maps
  BY <1>1 DEF Maps
<1> QED BY <1>2 DEF Put

LEMMA MovedOverRows ==
    ASSUME NEW V, NEW r \in Seq(V), NEW row \in Indexes(r)
    PROVE  /\ MovedOver(r, row) \in Seq(V) /\ Len(MovedOver(r, row)) = Len(r) - 1
           /\ Indexes(MovedOver(r, row)) = Indexes(r) \ {Len(r) - 1}
           /\ \A k \in Indexes(r) \ {Len(r) - 1} :
                MovedOver(r, row)[k + 1] = IF k = row THEN r[Len(r)] ELSE r[k + 1]
<1> DEFINE n == Len(r)
           q == [r EXCEPT ![row + 1] = r[n]]
<1>1. n \in Nat /\ row \in 0 .. n - 1 /\ row + 1 \in 1 .. n /\ n >= 1
  BY DEF Indexes
<1>2. q \in Seq(V) /\ Len(q) = n /\ \A k \in 1 .. n : q[k] = IF k = row + 1 THEN r[n] ELSE r[k]
  BY <1>1
<1>3. MovedOver(r, row) = SubSeq(q, 1, n - 1)
  BY <1>2 DEF MovedOver, Front, ReplaceAt, Last
<1> HIDE DEF q, n
<1>4. /\ SubSeq(q, 1, n - 1) \in Seq(V) /\ Len(SubSeq(q, 1, n - 1)) = n - 1
      /\ \A k \in 1 .. n - 1 : SubSeq(q, 1, n - 1)[k] = q[k]
  BY <1>1, <1>2
<1>5. Indexes(SubSeq(q, 1, n - 1)) = Indexes(r) \ {n - 1}
  BY <1>1, <1>4 DEF Indexes, n
<1>6. ASSUME NEW k \in Indexes(r) \ {n - 1}
      PROVE  SubSeq(q, 1, n - 1)[k + 1] = IF k = row THEN r[n] ELSE r[k + 1]
  <2>1. k + 1 \in 1 .. n - 1 /\ k + 1 \in 1 .. n /\ (k + 1 = row + 1 <=> k = row)
    BY <1>1 DEF Indexes, n
  <2> QED BY <1>2, <1>4, <2>1
<1> QED BY <1>3, <1>4, <1>5, <1>6 DEF n

(* The erased row's index, when a row that had been there before has moved into it *)
Refilled(c, row, last) ==
    IF row # last /\ (last \notin c.insertions \/ last \in DOMAIN c.mapping) THEN {row} ELSE {}

(* What move_over does to the change info c, said of the sets themselves *)
LeadsOver(c, row, last, d) ==
    LET moved == Refilled(c, row, last)
    IN  /\ d.deletions = c.deletions \cup ({row, last} \ c.insertions)
        /\ d.insertions = (c.insertions \ {last}) \cup ({row} \ {last})
        /\ DOMAIN d.mapping = (DOMAIN c.mapping \ {row, last}) \cup moved
        /\ \A k \in DOMAIN c.mapping \ {row, last} : d.mapping[k] = c.mapping[k]
        /\ row \in moved =>
              d.mapping[row] = IF last \in c.insertions THEN c.mapping[last] ELSE last
        /\ d.modifications = IF row = last THEN c.modifications \ {row}
                             ELSE FollowMoveOver(c.modifications, row, last)

LEMMA MoveOverFields ==
    ASSUME NEW r \in Seq(Nat), NEW f \in Seq(Nat), NEW c \in Changes, NEW row \in Indexes(r),
           TracksBut(c.deletions, c.insertions, c.mapping, r, f, {row}),
           NEW last, last = Len(r) - 1, NEW d, d = MoveOver(c, row, last)
    PROVE  d \in Changes /\ LeadsOver(c, row, last, d)
<1> DEFINE del == c.deletions
           ins == c.insertions
           map == c.mapping
<1>1. /\ del \in SUBSET Nat /\ ins \in SUBSET Nat /\ map \in Maps /\ c.modifications \in SUBSET Nat
      /\ last \in Indexes(r) /\ last \in Nat /\ row \in Nat /\ row <= last
      /\ DOMAIN map \subseteq ins /\ ins \subseteq Indexes(r)
  <2>1. last \in Indexes(r) /\ last \in Nat /\ row \in Nat /\ row <= last
    BY DEF Indexes
  <2>2. del \in SUBSET Nat /\ ins \in SUBSET Nat /\ map \in Maps /\ c.modifications \in SUBSET Nat
    BY DEF Changes
  <2> QED BY <2>1, <2>2 DEF TracksBut
<1>2. \A i \in ins : i \in Nat /\ i <= last
  BY <1>1 DEF Indexes
<1>3. TracksBut(del, ins, map, r, f, {row})
  OBVIOUS
<1>4. /\ last \notin ins => Shift(del, Unshift(ins, last)) = last
      /\ row \notin ins => /\ Shift(del, Unshift(ins, row)) = row
                           /\ row \notin del /\ \A j \in 0 .. row - 1 : j \in del <=> j \in ins
  <2> HIDE DEF del, ins, map
  <2>1. ASSUME NEW k \in Indexes(r) \ ins
        PROVE  /\ Shift(del, Unshift(ins, k)) = k
               /\ k \notin del /\ \A j \in 0 .. k - 1 : j \in del <=> j \in ins
    <3> DEFINE gone == {row}
    <3>1. TracksBut(del, ins, map, r, f, gone) /\ del \in SUBSET Nat /\ ins \in SUBSET Nat
      BY <1>1, <1>3
    <3> HIDE DEF gone
    <3>2. k \in Nat
      BY DEF Indexes
    <3>3. \A j \in 0 .. k - 1 : j \in del <=> j \in ins
      BY <3>1, <3>2, StayingSource
    <3>4. k \notin del
      BY <3>1 DEF TracksBut
    <3>5. Shift(del, Unshift(ins, k)) = k
      BY <3>1, <3>2, <3>3, <3>4, ShiftUnshift
    <3> QED BY <3>3, <3>4, <3>5
  <2> QED BY <1>1, <2>1
<1>5. CASE row = last
  <2>1. d = [c EXCEPT !.deletions = Deleted(c, row), !.insertions = EraseAt(@, row),
                      !.mapping = Without(@, row), !.modifications = @ \ {row}]
    BY <1>5 DEF MoveOver
  <2>2. Deleted(c, row) = del \cup ({row} \ ins)
    BY <1>4 DEF Deleted, AddShifted
  <2>3. EraseAt(ins, row) = ins \ {row}
    <3>1. \A i \in ins \ {row} : AfterErase(i, row) = i
      BY <1>1, <1>2, <1>5 DEF AfterErase
    <3> QED BY <3>1 DEF EraseAt
  <2>4. /\ Without(map, row) \in Maps /\ DOMAIN Without(map, row) = DOMAIN map \ {row}
        /\ \A k \in DOMAIN map \ {row} : Without(map, row)[k] = map[k]
    BY <1>1, WithoutType
  <2>5. /\ d.deletions = del \cup ({row} \ ins) /\ d.insertions = ins \ {row}
        /\ d.mapping = Without(map, row) /\ d.modifications = c.modifications \ {row}
        /\ d \in Changes
    <3>1. del \cup ({row} \ ins) \in SUBSET Nat /\ ins \ {row} \in SUBSET Nat /\ c.modifications \ {row} \in SUBSET Nat
      BY <1>1
    <3> QED BY <2>1, <2>2, <2>3, <2>4, <3>1 DEF Changes
  <2> QED BY <1>5, <2>4, <2>5 DEF Refilled, LeadsOver
<1>6. CASE row # last
  <2> DEFINE source == Shift(del, Unshift(ins, last))
             again == MovedAgain(c, last)
             del2 == IF last \in ins THEN del ELSE del \cup {source}
             map2 == IF row \in ins /\ ~again THEN Without(map, row) ELSE map
             map3 == CASE again -> Without(Put(map2, row, map2[last]), last)
                       [] ~again /\ last \in ins -> map2
                       [] OTHER -> Put(map2, row, source)
             del3 == IF row \in ins THEN del2 ELSE AddShifted(del2, Unshift(ins \ {last}, row))
             ins3 == (ins \ {last}) \cup {row}
             mod3 == FollowMoveOver(c.modifications, row, last)
  <2>1. d = [c EXCEPT !.modifications = mod3, !.mapping = map3, !.deletions = del3, !.insertions = ins3]
    BY <1>6 DEF MoveOver
  <2>2. del2 = del \cup ({last} \ ins) /\ del2 \in SUBSET Nat
    BY <1>1, <1>4
  <2>3. del3 = del \cup ({row, last} \ ins)
    <3>1. CASE row \in ins
      BY <2>2, <3>1
    <3>2. CASE row \notin ins
      <4>1. row \notin del2 /\ \A j \in 0 .. row - 1 : j \in del2 <=> j \in ins \ {last}
        BY <1>1, <1>4, <1>6, <2>2, <3>2
      <4> DEFINE rest == ins \ {last}
      <4>2. rest \in SUBSET Nat
        BY <1>1
      <4>3. \A j \in 0 .. row - 1 : j \in del2 <=> j \in rest
        BY <4>1
      <4>4. Shift(del2, Unshift(rest, row)) = row
        <5> HIDE DEF del2, rest
        <5> QED BY <1>1, <2>2, <4>1, <4>2, <4>3, ShiftUnshift
      <4> QED BY <2>2, <3>2, <4>4 DEF AddShifted
    <3> QED BY <3>1, <3>2
  <2>4. again <=> last \in DOMAIN map
    BY <1>1 DEF MovedAgain
  <2>5. /\ map2 \in Maps
        /\ DOMAIN map2 \ {row} = DOMAIN map \ {row}
        /\ ~again => row \notin DOMAIN map2
        /\ \A k \in DOMAIN map \ {row} : map2[k] = map[k]
    <3> HIDE DEF again, ins, map
    <3> QED BY <1>1, WithoutType
  <2>6. /\ map3 \in Maps
        /\ DOMAIN map3 = (DOMAIN map \ {row, last})
                            \cup (IF last \notin ins \/ last \in DOMAIN map THEN {row} ELSE {})
        /\ \A k \in DOMAIN map \ {row, last} : map3[k] = map[k]
        /\ last \notin ins \/ last \in DOMAIN map =>
                map3[row] = IF last \in ins THEN map[last] ELSE last
    <3> HIDE DEF again, map2, source
    <3>1. CASE again
      <4> DEFINE v == map2[last]
                 p == Put(map2, row, v)
      <4>1. map3 = Without(p, last)
        BY <3>1
      <4>2. last \in DOMAIN map2 /\ v = map[last]
        BY <1>6, <2>4, <2>5, <3>1
      <4>3. v \in Nat
        BY <2>5, <4>2, MapType
      <4> HIDE DEF v
      <4>4. /\ p \in Maps /\ DOMAIN p = DOMAIN map2 \cup {row} /\ p[row] = v
            /\ \A k \in DOMAIN map2 \ {row} : p[k] = map2[k]
        <5>1. map2 \in Maps /\ row \in Nat /\ v \in Nat
          BY <1>1, <2>5, <4>3
        <5> QED BY <5>1, PutType, ZenonT(120)
      <4> HIDE DEF p, map3
      <4>5. /\ Without(p, last) \in Maps /\ DOMAIN Without(p, last) = DOMAIN p \ {last}
            /\ \A k \in DOMAIN p \ {last} : Without(p, last)[k] = p[k]
        <5>1. p \in Maps
          BY <4>4
        <5> QED BY <5>1, WithoutType
      <4> QED BY <1>1, <1>6, <2>4, <2>5, <3>1, <4>1, <4>2, <4>4, <4>5
    <3>2. CASE ~again /\ last \in ins
      <4>1. map3 = map2
        BY <3>2
      <4> HIDE DEF map3
      <4> QED BY <2>4, <2>5, <3>2, <4>1
    <3>3. CASE ~again /\ last \notin ins
      <4>1. map3 = Put(map2, row, source)
        BY <3>3
      <4>2. source = last
        BY <1>4, <3>3 DEF source
      <4> HIDE DEF map3
      <4>3. /\ Put(map2, row, last) \in Maps /\ DOMAIN Put(map2, row, last) = DOMAIN map2 \cup {row}
            /\ Put(map2, row, last)[row] = last
            /\ \A k \in DOMAIN map2 \ {row} : Put(map2, row, last)[k] = map2[k]
        <5>1. map2 \in Maps /\ row \in Nat /\ last \in Nat
          BY <1>1, <2>5
        <5> QED BY <5>1, PutType
      <4> QED BY <1>6, <2>4, <2>5, <3>3, <4>1, <4>2, <4>3
    <3> QED BY <3>1, <3>2, <3>3
  <2>7. del3 \in SUBSET Nat /\ ins3 \in SUBSET Nat /\ mod3 \in SUBSET Nat
    BY <1>1, <2>3 DEF FollowMoveOver
  <2> HIDE DEF del3, ins3, mod3, map3
  <2>8. /\ d.deletions = del3 /\ d.insertions = ins3 /\ d.mapping = map3 /\ d.modifications = mod3
        /\ d \in Changes
    BY <2>1, <2>6, <2>7 DEF Changes
  <2> QED BY <1>6, <2>3, <2>6, <2>8 DEF ins3, mod3, Refilled, LeadsOver
<1> QED BY <1>5, <1>6

LEMMA MoveOverTracks ==
    ASSUME NEW r \in Seq(Nat), NEW f \in Seq(Nat), NEW c \in Changes, NEW row \in Indexes(r),
           TracksBut(c.deletions, c.insertions, c.mapping, r, f, {row})
    PROVE  LET d == MoveOver(c, row, Len(r) - 1)
           IN  Tracks(d.deletions, d.insertions, d.mapping, MovedOver(r, row), f)
<1> DEFINE last == Len(r) - 1
           d == MoveOver(c, row, last)
           del == c.deletions
           ins == c.insertions
           map == c.mapping
           moved == Refilled(c, row, last)
           q == MovedOver(r, row)
           del2 == d.deletions
           ins2 == d.insertions
           map2 == d.mapping
<1>1. /\ del2 = del \cup ({row, last} \ ins)
      /\ ins2 = (ins \ {last}) \cup ({row} \ {last})
      /\ DOMAIN map2 = (DOMAIN map \ {row, last}) \cup moved
      /\ \A k \in DOMAIN map \ {row, last} : map2[k] = map[k]
      /\ row \in moved => map2[row] = IF last \in ins THEN map[last] ELSE last
  <2>1. /\ last = Len(r) - 1 /\ d = MoveOver(c, row, last)
    OBVIOUS
  <2> HIDE DEF last, d
  <2>2. LeadsOver(c, row, last, d)
    BY <2>1, MoveOverFields
  <2> QED BY <2>2 DEF LeadsOver
<1>2. /\ Indexes(q) = Indexes(r) \ {last} /\ last \in Indexes(r) /\ r[Len(r)] = r[last + 1]
      /\ \A k \in Indexes(r) \ {last} : q[k + 1] = IF k = row THEN r[last + 1] ELSE r[k + 1]
  <2>1. last + 1 = Len(r) /\ last \in Indexes(r)
    BY DEF Indexes
  <2> QED BY <2>1, MovedOverRows
<1>3. /\ ins \subseteq Indexes(r)
      /\ \A k \in Indexes(r) \ ins : k \in Indexes(f) \ del /\ f[k + 1] = r[k + 1]
      /\ \A i \in Indexes(f) \ del : i \in Indexes(r) \ ins
      /\ DOMAIN map \subseteq ins
      /\ \A k \in DOMAIN map \ {row} :
            /\ map[k] \in Indexes(f) /\ map[k] \in del \cup ({row} \ ins)
            /\ f[map[k] + 1] = r[k + 1]
      /\ \A k \in ins \ (DOMAIN map \cup {row}) : \A i \in Indexes(f) : f[i + 1] # r[k + 1]
  BY DEF TracksBut
<1> HIDE DEF last, del, ins, map, del2, ins2, map2, q
<1>4. ins2 \subseteq Indexes(q)
  BY <1>1, <1>2, <1>3
<1>5. \A k \in Indexes(q) \ ins2 : k \in Indexes(f) \ del2 /\ f[k + 1] = q[k + 1]
  BY <1>1, <1>2, <1>3
<1>6. \A i \in Indexes(f) \ del2 : i \in Indexes(q) \ ins2
  BY <1>1, <1>2, <1>3
<1>7. DOMAIN map2 \subseteq ins2
  BY <1>1, <1>2, <1>3 DEF Refilled
<1>8. ASSUME NEW k \in DOMAIN map2
      PROVE  map2[k] \in Indexes(f) /\ map2[k] \in del2 /\ f[map2[k] + 1] = q[k + 1]
  <2>1. CASE k # row
    <3>1. k \in DOMAIN map \ {row, last} /\ map2[k] = map[k] /\ k \in Indexes(r)
      BY <1>1, <1>3, <2>1 DEF Refilled
    <3> QED BY <1>1, <1>2, <1>3, <2>1, <3>1
  <2>2. CASE k = row
    <3>1. row # last /\ row \in moved /\ q[k + 1] = r[last + 1]
      BY <1>1, <1>2, <2>2 DEF Refilled
    <3>2. CASE last \in ins
      <4>1. last \in DOMAIN map \ {row} /\ map2[k] = map[last]
        BY <1>1, <2>2, <3>1, <3>2 DEF Refilled, ins, map
      <4> QED BY <1>1, <1>3, <3>1, <4>1
    <3>3. CASE last \notin ins
      <4>1. map2[k] = last
        BY <1>1, <2>2, <3>1, <3>3
      <4> QED BY <1>1, <1>2, <1>3, <3>1, <3>3, <4>1
    <3> QED BY <3>2, <3>3
  <2> QED BY <2>1, <2>2
<1>9. ASSUME NEW k \in ins2 \ DOMAIN map2, NEW i \in Indexes(f)
      PROVE  f[i + 1] # q[k + 1]
  <2>1. CASE k # row
    <3>1. k \in ins \ (DOMAIN map \cup {row}) /\ q[k + 1] = r[k + 1]
      BY <1>1, <1>2, <1>3, <2>1
    <3> QED BY <1>3, <3>1
  <2>2. CASE k = row
    <3>1. row # last /\ row \notin moved /\ q[k + 1] = r[last + 1]
      BY <1>1, <1>2, <1>3, <2>2
    <3>2. last \in ins \ (DOMAIN map \cup {row})
      BY <3>1 DEF Refilled, ins, map
    <3> QED BY <1>3, <3>1, <3>2
  <2> QED BY <2>1, <2>2
<1>10. Tracks(del2, ins2, map2, q, f)
  BY <1>4, <1>5, <1>6, <1>7, <1>8, <1>9 DEF Tracks, TracksBut
<1> QED BY <1>10 DEF del2, ins2, map2, q, last

(* A row that is erased may be the one at any index. *)
LEMMA TracksAnyBut ==
    ASSUME NEW del, NEW ins, NEW map, NEW r, NEW f, NEW gone, Tracks(del, ins, map, r, f)
    PROVE  TracksBut(del, ins, map, r, f, gone)
BY DEF Tracks, TracksBut

(* A row is added at the end. *)
LEMMA InsertTracks ==
    ASSUME NEW r \in Seq(Nat), NEW f \in Seq(Nat), NEW c \in Changes, NEW id \in Nat,
           Tracks(c.deletions, c.insertions, c.mapping, r, f),
           \A i \in Indexes(f) : f[i + 1] # id
    PROVE  LET d == Insert(c, Len(r), 1)
           IN  /\ d \in Changes
               /\ Tracks(d.deletions, d.insertions, d.mapping, Append(r, id), f)
<1> DEFINE at == Len(r)
           d == Insert(c, at, 1)
           q == Append(r, id)
           moved(i) == IF i >= at THEN i + 1 ELSE i
           keys == {moved(k) : k \in DOMAIN c.mapping}
           mods == ShiftForInsertAt(c.modifications, at, 1)
           ins == InsertRange(c.insertions, at, 1)
           moves == [k \in DOMAIN c.moves |-> [c.moves[k] EXCEPT !.to = moved(@)]]
           map == [k \in keys |-> c.mapping[IF k >= at THEN k - 1 ELSE k]]
<1>1. d = [c EXCEPT !.modifications = mods, !.insertions = ins, !.moves = moves, !.mapping = map]
  BY DEF Insert
<1>2. /\ c.deletions \in SUBSET Nat /\ c.insertions \in SUBSET Nat /\ c.mapping \in Maps
      /\ c.modifications \in SUBSET Nat /\ c.moves \in MoveSeqs
  BY DEF Changes
<1>3. at \in Nat /\ Indexes(r) = 0 .. at - 1 /\ Indexes(q) = 0 .. at
  BY DEF Indexes
<1>4. c.insertions \subseteq Indexes(r) /\ DOMAIN c.mapping \subseteq Indexes(r)
  BY DEF Tracks, TracksBut
<1>5. \A i \in Indexes(r) : i \in Nat /\ moved(i) = i /\ ~(i >= at)
  BY <1>3
<1>6. ins = c.insertions \cup {at}
  <2>1. ShiftForInsertAt(c.insertions, at, 1) = c.insertions
    BY <1>4, <1>5 DEF ShiftForInsertAt
  <2>2. at .. at + 1 - 1 = {at}
    BY <1>3
  <2> QED BY <2>1, <2>2 DEF InsertRange
<1>7. keys = DOMAIN c.mapping
  BY <1>4, <1>5
<1>8. map = c.mapping
  <2>1. \A k \in DOMAIN c.mapping : map[k] = c.mapping[k]
    BY <1>4, <1>5, <1>7
  <2>2. c.mapping \in [DOMAIN c.mapping -> Nat]
    BY <1>2, MapType
  <2> QED BY <1>7, <2>1, <2>2
<1>9. mods \in SUBSET Nat
  BY <1>2, <1>3 DEF ShiftForInsertAt
<1>10. moves \in MoveSeqs
  BY <1>2, <1>3, MovesShifted
<1>11. ins \in SUBSET Nat
  BY <1>2, <1>3, <1>6
<1> HIDE DEF mods, ins, moves, map
<1>12. /\ d \in Changes /\ d.deletions = c.deletions /\ d.insertions = c.insertions \cup {at}
       /\ d.mapping = c.mapping
  BY <1>1, <1>2, <1>6, <1>8, <1>9, <1>10, <1>11 DEF Changes
<1>13. \A k \in Indexes(r) : q[k + 1] = r[k + 1]
  BY DEF Indexes
<1>14. q[at + 1] = id /\ Indexes(q) = Indexes(r) \cup {at} /\ at \notin Indexes(r)
  BY <1>3
<1> HIDE DEF d, q, at
<1>15. Tracks(d.deletions, d.insertions, d.mapping, q, f)
  BY <1>12, <1>13, <1>14 DEF Tracks, TracksBut
<1> QED BY <1>12, <1>15 DEF d, q, at

LEMMA ClearTracks ==
    ASSUME NEW c \in Changes, NEW f \in Seq(Nat), Len(f) <= Npos
    PROVE  LET d == Clear(c, Npos)
           IN  d \in Changes /\ Tracks(d.deletions, d.insertions, d.mapping, <<>>, f)
<1> DEFINE d == Clear(c, Npos)
<1>1. d = [NoChanges EXCEPT !.deletions = 0 .. Npos - 1]
  BY DEF Clear, ClearedSize
<1>2. 0 .. Npos - 1 \in SUBSET Nat /\ <<>> \in [{} -> Nat] /\ {} \in SUBSET Nat
  BY NposAssumption
<1>3. <<>> \in Maps
  BY <1>2 DEF Maps
<1>4. d \in Changes /\ d.deletions = 0 .. Npos - 1 /\ d.insertions = {} /\ d.mapping = <<>>
  <2>1. <<>> \in MoveSeqs
    BY DEF MoveSeqs
  <2>2. NoChanges \in Changes /\ NoChanges.insertions = {} /\ NoChanges.mapping = <<>>
    BY <1>2, <1>3, <2>1 DEF NoChanges, Changes
  <2> HIDE DEF d
  <2> QED BY <1>1, <1>2, <2>2 DEF Changes
<1>5. Indexes(f) \subseteq 0 .. Npos - 1
  BY NposAssumption DEF Indexes
<1>6. Indexes(<<>>) = {} /\ DOMAIN <<>> = {}
  BY DEF Indexes
<1> HIDE DEF d
<1>7. Tracks(d.deletions, d.insertions, d.mapping, <<>>, f)
  BY <1>4, <1>5, <1>6 DEF Tracks, TracksBut
<1> QED BY <1>4, <1>7 DEF d

(* Nothing has happened yet. *)
LEMMA NothingTracks ==
    ASSUME NEW r \in Seq(Nat)
    PROVE  /\ NoChanges \in Changes
           /\ Tracks(NoChanges.deletions, NoChanges.insertions, NoChanges.mapping, r, r)
<1>1. <<>> \in [{} -> Nat] /\ {} \in SUBSET Nat
  OBVIOUS
<1>2. <<>> \in Maps
  BY <1>1 DEF Maps
<1>3. NoChanges \in Changes
  BY <1>2 DEF NoChanges, Changes, MoveSeqs
<1>4. DOMAIN <<>> = {}
  OBVIOUS
<1> QED BY <1>3, <1>4 DEF Tracks, TracksBut, NoChanges

-----------------------------------------------------------------------------
(* Two rows change places. *)

(* The row at k is one there was before, and was there at this index. *)
Known(c, k) == k \notin c.insertions \/ k \in DOMAIN c.mapping
Origin(c, k) == IF k \in c.insertions THEN c.mapping[k] ELSE k

(* After d, the row at a is the one c has at b. *)
ComesFrom(c, d, a, b) ==
    /\ a \in DOMAIN d.mapping <=> Known(c, b)
    /\ Known(c, b) => d.mapping[a] = Origin(c, b)

(* What swap does to the change info c, said of the sets themselves *)
Exchanges(c, i, j, d) ==
    /\ d.deletions = c.deletions \cup ({i, j} \ c.insertions)
    /\ d.insertions = c.insertions \cup {i, j}
    /\ DOMAIN d.mapping \ {i, j} = DOMAIN c.mapping \ {i, j}
    /\ \A k \in DOMAIN c.mapping \ {i, j} : d.mapping[k] = c.mapping[k]
    /\ ComesFrom(c, d, i, j) /\ ComesFrom(c, d, j, i)

(* A row that is not new leaves i, for j. *)
Leaves(c, i, j, d) ==
    /\ d \in Changes
    /\ d.deletions = c.deletions \cup ({i} \ c.insertions)
    /\ d.insertions = c.insertions \cup {i}
    /\ i \in c.insertions => d.mapping = c.mapping
    /\ i \notin c.insertions => d.mapping = Put(c.mapping, j, i)

LEMMA MoveToFields ==
    ASSUME NEW c \in Changes, NEW i \in Nat, NEW j \in Nat,
           i \notin c.insertions => Shift(c.deletions, Unshift(c.insertions, i)) = i
    PROVE  Leaves(c, i, j, MoveTo(c, i, j))
<1> DEFINE d == MoveTo(c, i, j)
<1> SUFFICES Leaves(c, i, j, d)
  OBVIOUS
<1>1. CASE i \in c.insertions
  <2>1. d = c
    BY <1>1 DEF MoveTo
  <2> QED BY <1>1, <2>1 DEF Changes, Leaves
<1>2. CASE i \notin c.insertions
  <2>1. d = [c EXCEPT !.deletions = @ \cup {i}, !.insertions = @ \cup {i}, !.mapping = Put(@, j, i)]
    BY <1>2 DEF MoveTo
  <2>2. c.mapping \in Maps
    BY DEF Changes
  <2>3. Put(c.mapping, j, i) \in Maps
    BY <2>2, PutType
  <2> HIDE DEF d
  <2> QED BY <1>2, <2>1, <2>3 DEF Changes, Leaves
<1> QED BY <1>1, <1>2

(* The row at there had been moved. *)
LEMMA RedirectFields ==
    ASSUME NEW c \in Changes, NEW here \in Nat, NEW there \in Nat, here # there,
           there \in DOMAIN c.mapping, here \notin DOMAIN c.mapping, DOMAIN c.mapping \subseteq c.insertions,
           here \notin c.insertions => Shift(c.deletions, Unshift(c.insertions, here)) = here,
           NEW e, NEW d, d = MoveTo(e, here, there),
           e = [c EXCEPT !.mapping = Put(Without(@, there), here, @[there])]
    PROVE  d \in Changes /\ Exchanges(c, here, there, d)
<1> DEFINE m == c.mapping
           w == Without(m, there)
           p == Put(w, here, m[there])
<1>1. m \in Maps /\ m[there] \in Nat
  <2>1. m \in Maps
    BY DEF Changes
  <2> QED BY <2>1, MapType
<1>2. e = [c EXCEPT !.mapping = p]
  OBVIOUS
<1> DEFINE v == m[there]
<1> HIDE DEF m, v
<1>3. w \in Maps /\ DOMAIN w = DOMAIN m \ {there} /\ \A k \in DOMAIN m \ {there} : w[k] = m[k]
  BY <1>1, WithoutType
<1> HIDE DEF w
<1>4. /\ p \in Maps /\ DOMAIN p = DOMAIN w \cup {here} /\ p[here] = v
      /\ \A k \in DOMAIN w \ {here} : p[k] = w[k]
  <2>1. w \in Maps /\ v \in Nat /\ p = Put(w, here, v)
    BY <1>1, <1>3 DEF v
  <2> QED BY <2>1, PutType
<1> HIDE DEF p
<1>5. e \in Changes /\ e.mapping = p /\ e.insertions = c.insertions /\ e.deletions = c.deletions
  BY <1>2, <1>4 DEF Changes
<1>6. /\ d \in Changes
      /\ d.deletions = c.deletions \cup ({here} \ c.insertions)
      /\ d.insertions = c.insertions \cup {here}
      /\ here \in c.insertions => d.mapping = p
      /\ here \notin c.insertions => d.mapping = Put(p, there, here)
  <2>1. here \notin e.insertions => Shift(e.deletions, Unshift(e.insertions, here)) = here
    BY <1>5
  <2>2. Leaves(e, here, there, d)
    BY <1>5, <2>1, MoveToFields
  <2> QED BY <1>5, <2>2 DEF Leaves
<1>7. there \in c.insertions
  OBVIOUS
<1>8. /\ DOMAIN d.mapping = (DOMAIN m \ {there}) \cup {here} \cup ({there} \ (IF here \in c.insertions THEN {there} ELSE {}))
      /\ \A k \in DOMAIN m \ {here, there} : d.mapping[k] = m[k]
      /\ d.mapping[here] = v
      /\ here \notin c.insertions => d.mapping[there] = here
  <2>1. CASE here \in c.insertions
    BY <1>3, <1>4, <1>6, <2>1
  <2>2. CASE here \notin c.insertions
    <3>1. /\ DOMAIN Put(p, there, here) = DOMAIN p \cup {there} /\ Put(p, there, here)[there] = here
          /\ \A k \in DOMAIN p \ {there} : Put(p, there, here)[k] = p[k]
      BY <1>4, PutType, ZenonT(120)
    <3> QED BY <1>3, <1>4, <1>6, <2>2, <3>1
  <2> QED BY <2>1, <2>2
<1>9. ComesFrom(c, d, here, there)
  BY <1>7, <1>8 DEF ComesFrom, Known, Origin, m, v
<1>10. ComesFrom(c, d, there, here)
  BY <1>8 DEF ComesFrom, Known, Origin, m
<1> QED BY <1>6, <1>7, <1>8, <1>9, <1>10 DEF Exchanges, m

LEMMA ExchangesBack ==
    ASSUME NEW c, NEW i, NEW j, NEW d, Exchanges(c, i, j, d)
    PROVE  Exchanges(c, j, i, d)
<1>1. {i, j} = {j, i}
  OBVIOUS
<1> QED BY <1>1 DEF Exchanges

(* Neither row had been moved. *)
LEMMA BothLeave ==
    ASSUME NEW c \in Changes, NEW i \in Nat, NEW j \in Nat, i # j,
           i \notin DOMAIN c.mapping, j \notin DOMAIN c.mapping,
           NEW e, Leaves(c, j, i, e), NEW d, Leaves(e, i, j, d)
    PROVE  d \in Changes /\ Exchanges(c, i, j, d)
<1> DEFINE m == c.mapping
           n == e.mapping
<1>1. m \in Maps /\ n \in Maps
  BY DEF Changes, Leaves
<1>2. /\ e.deletions = c.deletions \cup ({j} \ c.insertions) /\ e.insertions = c.insertions \cup {j}
      /\ d.deletions = e.deletions \cup ({i} \ e.insertions) /\ d.insertions = e.insertions \cup {i}
      /\ (i \in e.insertions <=> i \in c.insertions) /\ d \in Changes
  BY DEF Leaves
<1>3. /\ d.deletions = c.deletions \cup ({i, j} \ c.insertions)
      /\ d.insertions = c.insertions \cup {i, j}
  BY <1>2
<1>4. /\ j \in c.insertions => n = m
      /\ j \notin c.insertions => n = Put(m, i, j)
      /\ i \in c.insertions => d.mapping = n
      /\ i \notin c.insertions => d.mapping = Put(n, j, i)
  BY <1>2 DEF Leaves
<1>7. i \notin DOMAIN m /\ j \notin DOMAIN m
  OBVIOUS
<1> HIDE DEF m, n
<1>5. /\ DOMAIN Put(m, i, j) = DOMAIN m \cup {i} /\ Put(m, i, j)[i] = j
      /\ \A k \in DOMAIN m \ {i} : Put(m, i, j)[k] = m[k]
  BY <1>1, PutType, ZenonT(120)
<1>6. /\ DOMAIN Put(n, j, i) = DOMAIN n \cup {j} /\ Put(n, j, i)[j] = i
      /\ \A k \in DOMAIN n \ {j} : Put(n, j, i)[k] = n[k]
  <2>1. n \in Maps /\ j \in Nat /\ i \in Nat
    BY <1>1
  <2> QED BY <2>1, PutType
<1>8. /\ DOMAIN n \ {i} = DOMAIN m /\ \A k \in DOMAIN m : n[k] = m[k]
      /\ i \in DOMAIN n <=> j \notin c.insertions
      /\ j \notin c.insertions => n[i] = j
  <2>1. CASE j \in c.insertions
    BY <1>4, <1>7, <2>1
  <2>2. CASE j \notin c.insertions
    BY <1>4, <1>5, <1>7, <2>2
  <2> QED BY <2>1, <2>2
<1>9. /\ DOMAIN d.mapping \ {i, j} = DOMAIN m /\ \A k \in DOMAIN m : d.mapping[k] = m[k]
      /\ i \in DOMAIN d.mapping <=> j \notin c.insertions
      /\ j \notin c.insertions => d.mapping[i] = j
      /\ j \in DOMAIN d.mapping <=> i \notin c.insertions
      /\ i \notin c.insertions => d.mapping[j] = i
  <2>1. CASE i \in c.insertions
    BY <1>4, <1>7, <1>8, <2>1
  <2>2. CASE i \notin c.insertions
    BY <1>4, <1>6, <1>7, <1>8, <2>2
  <2> QED BY <2>1, <2>2
<1>10. ComesFrom(c, d, i, j) /\ ComesFrom(c, d, j, i)
  BY <1>7, <1>9 DEF ComesFrom, Known, Origin, m
<1>11. DOMAIN d.mapping \ {i, j} = DOMAIN c.mapping \ {i, j}
  BY <1>7, <1>9 DEF m
<1>12. \A k \in DOMAIN c.mapping \ {i, j} : d.mapping[k] = c.mapping[k]
  BY <1>9 DEF m
<1> QED BY <1>2, <1>3, <1>10, <1>11, <1>12 DEF Exchanges

(* Both rows had been moved. *)
LEMMA BothMoved ==
    ASSUME NEW c \in Changes, NEW i \in Nat, NEW j \in Nat, i # j,
           DOMAIN c.mapping \subseteq c.insertions, i \in DOMAIN c.mapping, j \in DOMAIN c.mapping,
           NEW d, d = [c EXCEPT !.mapping = Put(Put(@, i, @[j]), j, @[i])]
    PROVE  d \in Changes /\ Exchanges(c, i, j, d)
<1> DEFINE m == c.mapping
           x == m[i]
           y == m[j]
           p == Put(m, i, y)
           q == Put(p, j, x)
<1>1. m \in Maps
  BY DEF Changes
<1>2. x \in Nat /\ y \in Nat
  BY <1>1, MapType
<1>3. d = [c EXCEPT !.mapping = q]
  OBVIOUS
<1>4. i \in DOMAIN m /\ j \in DOMAIN m /\ i \in c.insertions /\ j \in c.insertions
  OBVIOUS
<1> HIDE DEF m, x, y
<1>5. p \in Maps /\ DOMAIN p = DOMAIN m \cup {i} /\ p[i] = y /\ \A k \in DOMAIN m \ {i} : p[k] = m[k]
  BY <1>1, <1>2, PutType
<1> HIDE DEF p
<1>6. q \in Maps /\ DOMAIN q = DOMAIN p \cup {j} /\ q[j] = x /\ \A k \in DOMAIN p \ {j} : q[k] = p[k]
  BY <1>2, <1>5, PutType, ZenonT(120)
<1> HIDE DEF q
<1>7. d \in Changes /\ d.mapping = q /\ d.deletions = c.deletions /\ d.insertions = c.insertions
  BY <1>3, <1>6 DEF Changes
<1>8. DOMAIN q = DOMAIN m /\ q[i] = y /\ q[j] = x /\ \A k \in DOMAIN m \ {i, j} : q[k] = m[k]
  BY <1>4, <1>5, <1>6
<1>9. ComesFrom(c, d, i, j) /\ ComesFrom(c, d, j, i)
  BY <1>4, <1>7, <1>8 DEF ComesFrom, Known, Origin, m, x, y
<1>10. /\ d.deletions = c.deletions \cup ({i, j} \ c.insertions)
       /\ d.insertions = c.insertions \cup {i, j}
  BY <1>4, <1>7
<1> QED BY <1>7, <1>8, <1>9, <1>10 DEF Exchanges, m

LEMMA SwapFields ==
    ASSUME NEW r \in Seq(Nat), NEW f \in Seq(Nat), NEW c \in Changes, NEW i \in Indexes(r), NEW j \in Indexes(r),
           i < j, Tracks(c.deletions, c.insertions, c.mapping, r, f), NEW d, d = Swap(c, i, j)
    PROVE  d \in Changes /\ Exchanges(c, i, j, d)
<1> DEFINE e == [c EXCEPT !.modifications = SwapMarks(@, i, j)]
<1>1. /\ i \in Nat /\ j \in Nat /\ i # j
      /\ c.deletions \in SUBSET Nat /\ c.insertions \in SUBSET Nat
  BY DEF Indexes, Changes
<1>2. /\ e \in Changes /\ e.deletions = c.deletions /\ e.insertions = c.insertions /\ e.mapping = c.mapping
  <2>1. SwapMarks(c.modifications, i, j) \in SUBSET Nat
    BY <1>1 DEF SwapMarks, Changes
  <2> QED BY <2>1 DEF Changes
<1>3. DOMAIN c.mapping \subseteq c.insertions
  BY DEF Tracks, TracksBut
<1>4. ASSUME NEW k \in Indexes(r) \ c.insertions
      PROVE  /\ Shift(c.deletions, Unshift(c.insertions, k)) = k
             /\ \A l \in 0 .. k - 1 : l \in c.deletions <=> l \in c.insertions
             /\ k \notin c.deletions
  <2> DEFINE gone == {}
             del == c.deletions
             ins == c.insertions
             map == c.mapping
  <2>1. TracksBut(del, ins, map, r, f, gone) /\ del \in SUBSET Nat /\ ins \in SUBSET Nat /\ k \in Indexes(r) \ ins
    BY <1>1 DEF Tracks
  <2> HIDE DEF gone, del, ins, map
  <2>2. k \in Nat
    BY DEF Indexes
  <2>3. \A l \in 0 .. k - 1 : l \in del <=> l \in ins
    BY <2>1, <2>2, StayingSource
  <2>4. k \notin del
    BY <2>1 DEF TracksBut
  <2>5. Shift(del, Unshift(ins, k)) = k
    BY <2>1, <2>2, <2>3, <2>4, ShiftUnshift
  <2> QED BY <2>3, <2>4, <2>5 DEF del, ins
<1> SUFFICES d \in Changes /\ Exchanges(e, i, j, d)
  BY <1>2 DEF Exchanges, ComesFrom, Known, Origin
<1>5. /\ i \notin e.insertions => Shift(e.deletions, Unshift(e.insertions, i)) = i
      /\ j \notin e.insertions => Shift(e.deletions, Unshift(e.insertions, j)) = j
  BY <1>2, <1>4
<1>6. DOMAIN e.mapping \subseteq e.insertions
  BY <1>2, <1>3
<1>7. CASE i \in DOMAIN c.mapping /\ j \in DOMAIN c.mapping
  <2>1. d = [e EXCEPT !.mapping = Put(Put(c.mapping, i, c.mapping[j]), j, c.mapping[i])]
    BY <1>7 DEF Swap
  <2>2. d = [e EXCEPT !.mapping = Put(Put(@, i, @[j]), j, @[i])]
    BY <1>2, <2>1
  <2> HIDE DEF e
  <2> QED BY <1>1, <1>2, <1>6, <1>7, <2>2, BothMoved
<1>8. CASE i \in DOMAIN c.mapping /\ j \notin DOMAIN c.mapping
  <2> DEFINE x == [e EXCEPT !.mapping = Put(Without(@, i), j, @[i])]
  <2>1. d = MoveTo([e EXCEPT !.mapping = Put(Without(c.mapping, i), j, c.mapping[i])], j, i)
    BY <1>8 DEF Swap
  <2>2. d = MoveTo(x, j, i)
    BY <1>2, <2>1
  <2>3. x = [e EXCEPT !.mapping = Put(Without(@, i), j, @[i])]
    OBVIOUS
  <2> HIDE DEF e, x
  <2>4. d \in Changes /\ Exchanges(e, j, i, d)
    BY <1>1, <1>2, <1>5, <1>6, <1>8, <2>2, <2>3, RedirectFields
  <2> QED BY <2>4, ExchangesBack
<1>9. CASE i \notin DOMAIN c.mapping /\ j \in DOMAIN c.mapping
  <2> DEFINE x == [e EXCEPT !.mapping = Put(Without(@, j), i, @[j])]
  <2>1. d = MoveTo([e EXCEPT !.mapping = Put(Without(c.mapping, j), i, c.mapping[j])], i, j)
    BY <1>9 DEF Swap
  <2>2. d = MoveTo(x, i, j)
    BY <1>2, <2>1
  <2>3. x = [e EXCEPT !.mapping = Put(Without(@, j), i, @[j])]
    OBVIOUS
  <2> HIDE DEF e, x
  <2> QED BY <1>1, <1>2, <1>5, <1>6, <1>9, <2>2, <2>3, RedirectFields
<1>10. CASE i \notin DOMAIN c.mapping /\ j \notin DOMAIN c.mapping
  <2> DEFINE x == MoveTo(e, j, i)
  <2>1. d = MoveTo(x, i, j)
    BY <1>10 DEF Swap
  <2> HIDE DEF e
  <2>2. Leaves(e, j, i, x)
    BY <1>1, <1>2, <1>5, MoveToFields
  <2>3. /\ x \in Changes /\ x.insertions = c.insertions \cup {j}
        /\ x.deletions = c.deletions \cup ({j} \ c.insertions)
    BY <1>2, <2>2 DEF Leaves
  <2>4. i \notin x.insertions => Shift(x.deletions, Unshift(x.insertions, i)) = i
    <3> SUFFICES ASSUME i \notin c.insertions PROVE Shift(x.deletions, Unshift(x.insertions, i)) = i
      BY <2>3
    <3>1. \A l \in 0 .. i - 1 : l \in c.deletions <=> l \in c.insertions
      BY <1>4
    <3>2. \A l \in 0 .. i - 1 : l # j
      BY <1>1
    <3> DEFINE del == x.deletions
               ins == x.insertions
    <3>3. i \notin del /\ \A l \in 0 .. i - 1 : l \in del <=> l \in ins
      BY <1>1, <1>4, <2>3, <3>1, <3>2
    <3>4. del \in SUBSET Nat /\ ins \in SUBSET Nat
      BY <2>3 DEF Changes
    <3> HIDE DEF del, ins
    <3>5. Shift(del, Unshift(ins, i)) = i
      BY <1>1, <3>3, <3>4, ShiftUnshift
    <3> QED BY <3>5 DEF del, ins
  <2> HIDE DEF x
  <2>5. Leaves(x, i, j, d)
    BY <1>1, <2>1, <2>3, <2>4, MoveToFields
  <2> QED BY <1>1, <1>2, <1>10, <2>2, <2>5, BothLeave
<1> QED BY <1>7, <1>8, <1>9, <1>10

Swapped(r, i, j) == [r EXCEPT ![i + 1] = r[j + 1], ![j + 1] = r[i + 1]]

LEMMA SwappedRows ==
    ASSUME NEW V, NEW r \in Seq(V), NEW i \in Indexes(r), NEW j \in Indexes(r), i # j
    PROVE  /\ Swapped(r, i, j) \in Seq(V) /\ Len(Swapped(r, i, j)) = Len(r)
           /\ Indexes(Swapped(r, i, j)) = Indexes(r)
           /\ Swapped(r, i, j)[i + 1] = r[j + 1] /\ Swapped(r, i, j)[j + 1] = r[i + 1]
           /\ \A k \in Indexes(r) \ {i, j} : Swapped(r, i, j)[k + 1] = r[k + 1]
<1>1. \A k \in Indexes(r) : k \in Nat /\ k + 1 \in 1 .. Len(r)
  BY DEF Indexes
<1> QED BY <1>1 DEF Swapped, Indexes

LEMMA SwapTracks ==
    ASSUME NEW r \in Seq(Nat), NEW f \in Seq(Nat), NEW c \in Changes, NEW i \in Indexes(r), NEW j \in Indexes(r),
           i < j, Tracks(c.deletions, c.insertions, c.mapping, r, f), NEW d, d = Swap(c, i, j)
    PROVE  d \in Changes /\ Tracks(d.deletions, d.insertions, d.mapping, Swapped(r, i, j), f)
<1> DEFINE q == Swapped(r, i, j)
           del == c.deletions
           ins == c.insertions
           map == c.mapping
           del2 == d.deletions
           ins2 == d.insertions
           map2 == d.mapping
<1>1. d \in Changes /\ Exchanges(c, i, j, d)
  BY SwapFields
<1>2. /\ Indexes(q) = Indexes(r) /\ q[i + 1] = r[j + 1] /\ q[j + 1] = r[i + 1]
      /\ \A k \in Indexes(r) \ {i, j} : q[k + 1] = r[k + 1]
  <2>1. i # j
    BY DEF Indexes
  <2> QED BY <2>1, SwappedRows
<1>3. /\ ins \subseteq Indexes(r)
      /\ \A k \in Indexes(r) \ ins : k \in Indexes(f) \ del /\ f[k + 1] = r[k + 1]
      /\ \A k \in Indexes(f) \ del : k \in Indexes(r) \ ins
      /\ DOMAIN map \subseteq ins
      /\ \A k \in DOMAIN map : map[k] \in Indexes(f) /\ map[k] \in del /\ f[map[k] + 1] = r[k + 1]
      /\ \A k \in ins \ DOMAIN map : \A l \in Indexes(f) : f[l + 1] # r[k + 1]
  BY DEF Tracks, TracksBut
<1>4. /\ del2 = del \cup ({i, j} \ ins) /\ ins2 = ins \cup {i, j}
      /\ DOMAIN map2 \ {i, j} = DOMAIN map \ {i, j}
      /\ \A k \in DOMAIN map \ {i, j} : map2[k] = map[k]
  BY <1>1 DEF Exchanges
<1>5. ASSUME NEW a \in {i, j}, NEW b \in {i, j}, ComesFrom(c, d, a, b), q[a + 1] = r[b + 1]
      PROVE  /\ a \in DOMAIN map2 =>
                    /\ map2[a] \in Indexes(f) /\ map2[a] \in del2 /\ f[map2[a] + 1] = q[a + 1]
             /\ a \notin DOMAIN map2 => \A l \in Indexes(f) : f[l + 1] # q[a + 1]
  <2>1. /\ a \in DOMAIN map2 <=> b \notin ins \/ b \in DOMAIN map
        /\ a \in DOMAIN map2 => map2[a] = IF b \in ins THEN map[b] ELSE b
    BY <1>5 DEF ComesFrom, Known, Origin
  <2>2. b \in Indexes(r)
    OBVIOUS
  <2> HIDE DEF del, ins, map, del2, ins2, map2, q
  <2>3. CASE b \in ins
    BY <1>3, <1>4, <1>5, <2>1, <2>2, <2>3
  <2>4. CASE b \notin ins
    BY <1>3, <1>4, <1>5, <2>1, <2>2, <2>4
  <2> QED BY <2>3, <2>4
<1>6. ComesFrom(c, d, i, j) /\ ComesFrom(c, d, j, i)
  BY <1>1 DEF Exchanges
<1> DEFINE Right(k) == /\ k \in DOMAIN map2 =>
                            /\ map2[k] \in Indexes(f) /\ map2[k] \in del2 /\ f[map2[k] + 1] = q[k + 1]
                       /\ k \notin DOMAIN map2 => \A l \in Indexes(f) : f[l + 1] # q[k + 1]
<1>7. Right(i) /\ Right(j)
  BY <1>2, <1>5, <1>6
<1> HIDE DEF del, ins, map, del2, ins2, map2, q
<1>8. \A k \in ins2 : Right(k)
  <2> SUFFICES ASSUME NEW k \in ins2, k \notin {i, j} PROVE Right(k)
    BY <1>7
  <2>1. k \in ins /\ (k \in DOMAIN map2 <=> k \in DOMAIN map) /\ (k \in DOMAIN map => map2[k] = map[k])
    BY <1>4
  <2>2. q[k + 1] = r[k + 1]
    BY <1>2, <1>3, <2>1
  <2> QED BY <1>3, <1>4, <2>1, <2>2
<1>9. DOMAIN map2 \subseteq ins2
  BY <1>3, <1>4
<1>10. Tracks(del2, ins2, map2, q, f)
  BY <1>2, <1>3, <1>4, <1>8, <1>9 DEF Tracks, TracksBut
<1> QED BY <1>1, <1>10 DEF del2, ins2, map2, q

(* The row at j, which is new, is taken to be the one at i. *)
LEMMA SubsumeTracks ==
    ASSUME NEW r \in Seq(Nat), NEW f \in Seq(Nat), NEW c \in Changes, NEW i \in Indexes(r), NEW j \in Indexes(r),
           i # j, Tracks(c.deletions, c.insertions, c.mapping, r, f), NEW d, d = Subsume(c, i, j),
           \A l \in Indexes(f) : f[l + 1] # r[j + 1]
    PROVE  /\ d \in Changes
           /\ TracksBut(d.deletions, d.insertions, d.mapping, [r EXCEPT ![j + 1] = r[i + 1]], f, {i})
<1> DEFINE q == [r EXCEPT ![j + 1] = r[i + 1]]
           del == c.deletions
           ins == c.insertions
           map == c.mapping
           map2 == d.mapping
           mods == IF i \in c.modifications THEN c.modifications \cup {j} ELSE c.modifications
           source == Shift(del, Unshift(ins, i))
           new == IF i \in DOMAIN map THEN Put(Without(map, i), j, map[i])
                  ELSE IF i \in ins THEN map ELSE Put(map, j, source)
<1>1. /\ i \in Nat /\ j \in Nat /\ del \in SUBSET Nat /\ ins \in SUBSET Nat /\ map \in Maps
      /\ c.modifications \in SUBSET Nat
  BY DEF Indexes, Changes
<1>2. /\ Indexes(q) = Indexes(r) /\ q[j + 1] = r[i + 1] /\ \A k \in Indexes(r) \ {j} : q[k + 1] = r[k + 1]
  <2>1. \A k \in Indexes(r) : k \in Nat /\ k + 1 \in 1 .. Len(r)
    BY DEF Indexes
  <2> QED BY <2>1 DEF Indexes
<1>3. /\ ins \subseteq Indexes(r)
      /\ \A k \in Indexes(r) \ ins : k \in Indexes(f) \ del /\ f[k + 1] = r[k + 1]
      /\ \A k \in Indexes(f) \ del : k \in Indexes(r) \ ins
      /\ DOMAIN map \subseteq ins
      /\ \A k \in DOMAIN map : map[k] \in Indexes(f) /\ map[k] \in del /\ f[map[k] + 1] = r[k + 1]
      /\ \A k \in ins \ DOMAIN map : \A l \in Indexes(f) : f[l + 1] # r[k + 1]
  BY DEF Tracks, TracksBut
<1>4. j \in ins \ DOMAIN map
  BY <1>3
<1>5. i \notin ins => source = i
  <2> SUFFICES ASSUME i \notin ins PROVE source = i
    OBVIOUS
  <2>1. i \in Indexes(r) \ ins /\ i \in Indexes(f) \ del
    BY <1>3
  <2> HIDE DEF del, ins, map
  <2>2. ASSUME NEW l \in 0 .. i - 1 PROVE l \in del <=> l \in ins
    <3>1. l \in Indexes(r) /\ l \in Indexes(f)
      BY <1>1, <2>1, SMTT(30) DEF Indexes
    <3> QED BY <1>3, <3>1
  <2> QED BY <1>1, <2>1, <2>2, ShiftUnshift
<1>6. d = [c EXCEPT !.modifications = mods, !.mapping = new]
  BY DEF Subsume
<1>7. mods \in SUBSET Nat
  BY <1>1
<1> HIDE DEF del, ins, map, map2, q, mods, source
<1>8. /\ new \in Maps
      /\ DOMAIN new = IF i \in DOMAIN map THEN (DOMAIN map \ {i}) \cup {j}
                      ELSE IF i \in ins THEN DOMAIN map ELSE DOMAIN map \cup {j}
      /\ \A k \in DOMAIN map \ {i} : new[k] = map[k]
      /\ i \in DOMAIN map => new[j] = map[i]
      /\ i \notin ins => new[j] = i
  <2>1. CASE i \in DOMAIN map
    <3> DEFINE w == Without(map, i)
               v == map[i]
    <3>1. w \in Maps /\ DOMAIN w = DOMAIN map \ {i} /\ \A k \in DOMAIN map \ {i} : w[k] = map[k]
      BY <1>1, WithoutType
    <3>2. v \in Nat /\ new = Put(w, j, v)
      BY <1>1, <2>1, MapType
    <3> HIDE DEF w, v
    <3>3. /\ Put(w, j, v) \in Maps /\ DOMAIN Put(w, j, v) = DOMAIN w \cup {j} /\ Put(w, j, v)[j] = v
          /\ \A k \in DOMAIN w \ {j} : Put(w, j, v)[k] = w[k]
      <4>1. w \in Maps /\ v \in Nat /\ j \in Nat
        BY <1>1, <3>1, <3>2
      <4> QED BY <4>1, PutType, ZenonT(120)
    <3> HIDE DEF new
    <3> QED BY <1>3, <1>4, <2>1, <3>1, <3>2, <3>3 DEF v
  <2>2. CASE i \in ins /\ i \notin DOMAIN map
    BY <1>1, <2>2
  <2>3. CASE i \notin ins
    <3>1. i \notin DOMAIN map /\ new = Put(map, j, i)
      BY <1>3, <1>5, <2>3
    <3>2. /\ Put(map, j, i) \in Maps /\ DOMAIN Put(map, j, i) = DOMAIN map \cup {j} /\ Put(map, j, i)[j] = i
          /\ \A k \in DOMAIN map \ {j} : Put(map, j, i)[k] = map[k]
      <4>1. map \in Maps /\ i \in Nat /\ j \in Nat
        BY <1>1
      <4> QED BY <4>1, PutType, ZenonT(120)
    <3> HIDE DEF new
    <3> QED BY <1>4, <2>3, <3>1, <3>2
  <2> QED BY <2>1, <2>2, <2>3
<1> HIDE DEF new
<1>9. d \in Changes /\ d.deletions = del /\ d.insertions = ins /\ d.mapping = new
  BY <1>6, <1>7, <1>8 DEF Changes, del, ins
<1>10. DOMAIN new \subseteq ins
  BY <1>3, <1>4, <1>8
<1>11. ASSUME NEW k \in DOMAIN new \ {i}
       PROVE  /\ new[k] \in Indexes(f) /\ new[k] \in del \cup ({i} \ ins)
              /\ f[new[k] + 1] = q[k + 1]
  <2>1. CASE k = j
    <3>1. i \in DOMAIN map \/ i \notin ins
      BY <1>4, <1>8, <2>1
    <3> QED BY <1>2, <1>3, <1>8, <2>1, <3>1
  <2>2. CASE k # j
    <3>1. k \in DOMAIN map \ {i} /\ new[k] = map[k] /\ q[k + 1] = r[k + 1]
      BY <1>2, <1>3, <1>8, <2>2
    <3> QED BY <1>3, <3>1
  <2> QED BY <2>1, <2>2
<1>12. ASSUME NEW k \in ins \ (DOMAIN new \cup {i}), NEW l \in Indexes(f) PROVE f[l + 1] # q[k + 1]
  <2>1. CASE k = j
    <3>1. i \in ins \ DOMAIN map
      BY <1>8, <2>1
    <3> QED BY <1>2, <1>3, <2>1, <3>1
  <2>2. CASE k # j
    <3>1. k \in ins \ DOMAIN map /\ q[k + 1] = r[k + 1]
      BY <1>2, <1>3, <1>8, <2>2
    <3> QED BY <1>3, <3>1
  <2> QED BY <2>1, <2>2
<1>13. \A k \in Indexes(q) \ ins : k \in Indexes(f) \ del /\ f[k + 1] = q[k + 1]
  BY <1>2, <1>3, <1>4
<1>14. TracksBut(del, ins, new, q, f, {i})
  BY <1>2, <1>3, <1>10, <1>11, <1>12, <1>13 DEF TracksBut
<1> QED BY <1>9, <1>14 DEF q

-----------------------------------------------------------------------------
(* The moves by origin: there is such a sequence, and the search in it finds what it
   is looked for. *)

Moves == [from : Nat, to : Nat]
Increasing(s) == \A a, b \in DOMAIN s : a < b => s[a].from < s[b].from

LEMMA Greatest ==
    ASSUME NEW A \in SUBSET Moves, A # {}, NEW B \in Nat, \A a \in A : a.from < B
    PROVE  \E x \in A : \A a \in A : a.from <= x.from
<1> DEFINE T == {B - a.from : a \in A}
<1>1. \A a \in A : a.from \in Nat /\ B - a.from \in Nat
  BY DEF Moves
<1>2. T \in SUBSET Nat /\ T # {}
  BY <1>1
<1>3. PICK t \in T : \A u \in T : t <= u
  BY <1>2, LeastNumber
<1>4. PICK x \in A : t = B - x.from
  OBVIOUS
<1>5. ASSUME NEW a \in A PROVE a.from <= x.from
  <2>1. B - a.from \in T
    OBVIOUS
  <2>2. B - x.from <= B - a.from
    BY <1>3, <1>4, <2>1
  <2> QED BY <1>1, <2>2
<1> QED BY <1>5

Sorts(s, n, A) == s \in [1 .. n -> A] /\ ToSet(s) = A /\ Increasing(s)

LEMMA SortsOneMore ==
    ASSUME NEW A \in SUBSET Moves, NEW x \in A, NEW n \in Nat, NEW s, Sorts(s, n, A \ {x}),
           \A a \in A : a.from = x.from => a = x, \A a \in A : a.from <= x.from
    PROVE  \E t : Sorts(t, n + 1, A)
<1> DEFINE t == [k \in 1 .. n + 1 |-> IF k = n + 1 THEN x ELSE s[k]]
<1>1. s \in [1 .. n -> A \ {x}] /\ ToSet(s) = A \ {x} /\ Increasing(s)
  BY DEF Sorts
<1>2. \A k \in 1 .. n : k \in 1 .. n + 1 /\ k # n + 1 /\ t[k] = s[k] /\ s[k] \in A
  BY <1>1
<1>3. DOMAIN t = 1 .. n + 1 /\ t[n + 1] = x
  OBVIOUS
<1>4. \A k \in 1 .. n + 1 : k \in 1 .. n \/ k = n + 1
  OBVIOUS
<1>5. t \in [1 .. n + 1 -> A]
  BY <1>2, <1>4
<1> HIDE DEF t
<1>6. ToSet(t) = A
  <2>1. \A y \in ToSet(t) : y \in A
    BY <1>5 DEF ToSet
  <2>2. ASSUME NEW y \in A PROVE y \in ToSet(t)
    <3>1. CASE y = x
      <4>1. n + 1 \in DOMAIN t
        BY <1>3
      <4> QED BY <1>3, <3>1, <4>1 DEF ToSet
    <3>2. CASE y # x
      <4>1. y \in ToSet(s)
        BY <1>1, <3>2
      <4>2. PICK k \in 1 .. n : y = s[k]
        BY <1>1, <4>1 DEF ToSet
      <4>3. k \in DOMAIN t /\ t[k] = y
        BY <1>2, <1>3, <4>2
      <4> QED BY <4>3 DEF ToSet
    <3> QED BY <3>1, <3>2
  <2> QED BY <2>1, <2>2
<1>7. Increasing(t)
  <2> SUFFICES ASSUME NEW a \in 1 .. n + 1, NEW b \in 1 .. n + 1, a < b PROVE t[a].from < t[b].from
    BY <1>3 DEF Increasing
  <2>1. a \in 1 .. n
    OBVIOUS
  <2>2. CASE b = n + 1
    <3>1. t[a] = s[a] /\ s[a] \in A \ {x}
      BY <1>1, <1>2, <2>1
    <3>2. s[a].from <= x.from /\ s[a].from # x.from
      BY <3>1
    <3>3. s[a].from \in Nat /\ x.from \in Nat
      BY <3>1 DEF Moves
    <3> QED BY <1>3, <2>2, <3>1, <3>2, <3>3
  <2>3. CASE b # n + 1
    <3>1. b \in 1 .. n
      BY <2>3
    <3>2. s[a].from < s[b].from
      BY <1>1, <2>1, <3>1 DEF Increasing
    <3> QED BY <1>2, <2>1, <3>1, <3>2
  <2> QED BY <2>2, <2>3
<1>8. Sorts(t, n + 1, A)
  BY <1>5, <1>6, <1>7 DEF Sorts
<1> QED BY <1>8

LEMMA SortExists ==
    ASSUME NEW M \in SUBSET Moves, IsFiniteSet(M), NEW B \in Nat, \A a \in M : a.from < B,
           \A a, b \in M : a.from = b.from => a = b
    PROVE  \E s : Sorts(s, Cardinality(M), M)
<1> DEFINE N == Cardinality(M)
           S == {n \in 0 .. N : \A A \in SUBSET M : Cardinality(A) = n => \E s : Sorts(s, n, A)}
<1>1. N \in Nat
  BY FS_CardinalityType
<1>2. \A A \in SUBSET M : IsFiniteSet(A) /\ Cardinality(A) \in Nat
  BY FS_Subset, FS_CardinalityType
<1>3. 0 \in S
  <2> SUFFICES ASSUME NEW A \in SUBSET M, Cardinality(A) = 0 PROVE \E s : Sorts(s, 0, A)
    BY <1>1
  <2>1. A = {}
    BY <1>2, FS_EmptySet
  <2> DEFINE e == <<>>
  <2>2. e \in [1 .. 0 -> A] /\ DOMAIN e = {}
    OBVIOUS
  <2>3. ToSet(e) = {} /\ Increasing(e)
    BY <2>2 DEF ToSet, Increasing
  <2>4. Sorts(e, 0, A)
    BY <2>1, <2>2, <2>3 DEF Sorts
  <2> QED BY <2>4
<1>4. ASSUME NEW n \in 0 .. N - 1, n \in S PROVE n + 1 \in S
  <2>0. n \in Nat /\ n + 1 \in 0 .. N
    BY <1>1
  <2> SUFFICES ASSUME NEW A \in SUBSET M, Cardinality(A) = n + 1 PROVE \E s : Sorts(s, n + 1, A)
    BY <2>0
  <2>1. A # {} /\ A \in SUBSET Moves /\ \A a \in A : a.from < B
    <3>1. Cardinality(A) # 0
      BY <2>0
    <3>2. A # {}
      BY <3>1, FS_EmptySet
    <3> QED BY <3>2
  <2>2. PICK x \in A : \A a \in A : a.from <= x.from
    BY <2>1, Greatest
  <2>3. IsFiniteSet(A) /\ Cardinality(A \ {x}) = n
    <3>1. IsFiniteSet(A)
      BY <1>2
    <3>2. Cardinality(A \ {x}) = Cardinality(A) - 1
      BY <3>1, FS_RemoveElement
    <3> QED BY <2>0, <3>1, <3>2
  <2>4. A \ {x} \in SUBSET M
    OBVIOUS
  <2>5. PICK s : Sorts(s, n, A \ {x})
    BY <1>4, <2>3, <2>4
  <2>6. \A a \in A : a.from = x.from => a = x
    OBVIOUS
  <2> QED BY <2>0, <2>1, <2>2, <2>5, <2>6, SortsOneMore
<1>5. \A n \in 0 .. N : n \in S
  <2> HIDE DEF S, N
  <2> QED BY <1>1, <1>3, <1>4, Induction
<1>6. N \in S /\ M \in SUBSET M
  BY <1>1, <1>5
<1> QED BY <1>6

LEMMA ByOriginSorts ==
    ASSUME NEW M \in SUBSET Moves, IsFiniteSet(M), NEW B \in Nat, \A a \in M : a.from < B,
           \A a, b \in M : a.from = b.from => a = b
    PROVE  ByOrigin(M) \in MoveSeqs /\ ToSet(ByOrigin(M)) = M /\ Increasing(ByOrigin(M))
<1> DEFINE N == Cardinality(M)
           P(s) == ToSet(s) = M /\ \A i, j \in DOMAIN s : i < j => s[i].from < s[j].from
<1>1. N \in Nat
  BY FS_CardinalityType
<1>2. \E s \in [1 .. N -> M] : P(s)
  <2>1. PICK s : Sorts(s, N, M)
    BY SortExists
  <2> QED BY <2>1 DEF Sorts, Increasing
<1>3. ByOrigin(M) = CHOOSE s \in [1 .. N -> M] : P(s)
  BY DEF ByOrigin
<1>4. ByOrigin(M) \in [1 .. N -> M] /\ P(ByOrigin(M))
  <2> HIDE DEF P, N
  <2> QED BY <1>2, <1>3
<1>5. ByOrigin(M) \in Seq(Moves)
  BY <1>1, <1>4
<1> QED BY <1>4, <1>5 DEF MoveSeqs, Moves, Increasing

LEMMA MoveAt ==
    ASSUME NEW ms \in MoveSeqs, NEW m \in 1 .. Len(ms)
    PROVE  ms[m] \in Moves /\ ms[m].from \in Nat
<1>1. ms \in Seq(Moves)
  BY DEF MoveSeqs, Moves
<1>2. ms[m] \in Moves
  BY <1>1
<1> QED BY <1>2 DEF Moves

(* The range in which std::lower_bound still searches, and one step of it *)
Ranges == [first : Nat, length : Nat]

Halved(ms, i, s) ==
    LET half == s.length \div 2
    IN  IF s.length = 0 THEN s
        ELSE IF ms[s.first + half].from < i
             THEN [first |-> s.first + half + 1, length |-> s.length - half - 1]
             ELSE [s EXCEPT !.length = half]

(* Before the range the moves start below i, behind it they do not. *)
Around(ms, i, s) ==
    /\ s.first >= 1 /\ s.first + s.length <= Len(ms) + 1
    /\ \A m \in 1 .. Len(ms) : /\ m < s.first => ms[m].from < i
                               /\ m >= s.first + s.length => ms[m].from >= i

LEMMA HalvedType ==
    ASSUME NEW ms, NEW i, NEW s \in Ranges
    PROVE  /\ Halved(ms, i, s) \in Ranges
           /\ s.length = 0 => Halved(ms, i, s).length = 0
           /\ s.length # 0 => Halved(ms, i, s).length < s.length
<1> DEFINE half == s.length \div 2
<1>1. s.length \in Nat /\ s.first \in Nat
  BY DEF Ranges
<1>2. CASE s.length = 0
  BY <1>2 DEF Halved
<1>3. CASE s.length # 0
  <2>1. half \in Nat /\ half < s.length
    BY <1>1, <1>3
  <2>2. Halved(ms, i, s) = IF ms[s.first + half].from < i
                           THEN [first |-> s.first + half + 1, length |-> s.length - half - 1]
                           ELSE [s EXCEPT !.length = half]
    BY <1>3 DEF Halved
  <2> HIDE DEF half
  <2>3. CASE ms[s.first + half].from < i
    <3>1. Halved(ms, i, s) = [first |-> s.first + half + 1, length |-> s.length - half - 1]
      BY <2>2, <2>3
    <3>2. s.first + half + 1 \in Nat /\ s.length - half - 1 \in Nat /\ s.length - half - 1 < s.length
      BY <1>1, <2>1
    <3> QED BY <1>3, <3>1, <3>2 DEF Ranges
  <2>4. CASE ~(ms[s.first + half].from < i)
    <3>1. Halved(ms, i, s) = [s EXCEPT !.length = half]
      BY <2>2, <2>4
    <3> QED BY <1>3, <2>1, <3>1 DEF Ranges
  <2> QED BY <2>3, <2>4
<1> QED BY <1>2, <1>3

LEMMA HalvedAround ==
    ASSUME NEW ms \in MoveSeqs, Increasing(ms), NEW i \in Nat, NEW s \in Ranges, Around(ms, i, s)
    PROVE  Around(ms, i, Halved(ms, i, s))
<1> DEFINE half == s.length \div 2
           mid == s.first + half
           n == Len(ms)
<1>1. s.length \in Nat /\ s.first \in Nat /\ n \in Nat /\ DOMAIN ms = 1 .. n
  BY DEF Ranges, MoveSeqs
<1>2. /\ s.first >= 1 /\ s.first + s.length <= n + 1
      /\ \A m \in 1 .. n : /\ m < s.first => ms[m].from < i
                           /\ m >= s.first + s.length => ms[m].from >= i
  BY DEF Around
<1>3. \A m \in 1 .. n : ms[m].from \in Nat
  BY MoveAt
<1>4. CASE s.length = 0
  BY <1>4 DEF Halved
<1>5. CASE s.length # 0
  <2>1. half \in Nat /\ half < s.length
    BY <1>1, <1>5
  <2>2. Halved(ms, i, s) = IF ms[mid].from < i
                           THEN [first |-> mid + 1, length |-> s.length - half - 1]
                           ELSE [s EXCEPT !.length = half]
    BY <1>5 DEF Halved
  <2>3. mid \in 1 .. n /\ mid = s.first + half
    BY <1>1, <1>2, <2>1
  <2> HIDE DEF half, mid, n
  <2>4. CASE ms[mid].from < i
    <3> DEFINE t == [first |-> mid + 1, length |-> s.length - half - 1]
    <3>1. Halved(ms, i, s) = t /\ t.first = mid + 1 /\ t.length = s.length - half - 1
      BY <2>2, <2>4
    <3> HIDE DEF t
    <3>2. t.first + t.length = s.first + s.length /\ t.first >= 1
      <4>1. mid \in Nat /\ mid >= 1
        BY <1>1, <2>3
      <4>2. s.first \in Nat /\ half \in Nat /\ s.length \in Nat /\ mid = s.first + half
        BY <1>1, <2>1, <2>3
      <4>3. \A x, y, z, m \in Nat : m = x + y => (m + 1) + (z - y - 1) = x + z
        OBVIOUS
      <4>4. (mid + 1) + (s.length - half - 1) = s.first + s.length
        BY ONLY <4>2, <4>3
      <4>5. mid + 1 >= 1
        BY ONLY <4>1
      <4> QED BY <3>1, <4>4, <4>5
    <3>3. ASSUME NEW m \in 1 .. n, m < t.first PROVE ms[m].from < i
      <4>1. m <= mid
        BY <2>3, <3>1, <3>3
      <4>2. CASE m = mid
        BY <2>4, <4>2
      <4>3. CASE m # mid
        <5>1. m < mid
          BY <2>3, <4>1, <4>3
        <5>2. ms[m].from < ms[mid].from
          BY <1>1, <2>3, <5>1 DEF Increasing
        <5>3. ms[m].from \in Nat /\ ms[mid].from \in Nat
          BY <1>3, <2>3
        <5> QED BY <2>4, <5>2, <5>3
      <4> QED BY <4>2, <4>3
    <3> QED BY <1>2, <3>1, <3>2, <3>3 DEF Around, n
  <2>5. CASE ~(ms[mid].from < i)
    <3> DEFINE t == [s EXCEPT !.length = half]
    <3>1. Halved(ms, i, s) = t /\ t.first = s.first /\ t.length = half
      BY <2>2, <2>5 DEF Ranges
    <3> HIDE DEF t
    <3>2. t.first + t.length = mid /\ mid <= n + 1
      BY <1>1, <2>3, <3>1
    <3>3. ASSUME NEW m \in 1 .. n, m >= mid PROVE ms[m].from >= i
      <4>0. ms[m].from \in Nat /\ ms[mid].from \in Nat
        BY <1>3, <2>3
      <4>1. CASE m = mid
        BY <2>5, <4>0, <4>1
      <4>2. CASE m # mid
        <5>1. mid < m
          BY <2>3, <3>3, <4>2
        <5>2. ms[mid].from < ms[m].from
          BY <1>1, <2>3, <5>1 DEF Increasing
        <5> QED BY <2>5, <4>0, <5>2
      <4> QED BY <4>1, <4>2
    <3> QED BY <1>2, <3>1, <3>2, <3>3 DEF Around, n
  <2> QED BY <2>4, <2>5
<1> QED BY <1>4, <1>5

LEMMA LowerBoundRight ==
    ASSUME NEW ms \in MoveSeqs, Increasing(ms), NEW i \in Nat
    PROVE  /\ LowerBound(ms, i) \in 1 .. Len(ms) + 1
           /\ \A m \in 1 .. Len(ms) : /\ m < LowerBound(ms, i) => ms[m].from < i
                                      /\ m >= LowerBound(ms, i) => ms[m].from >= i
<1> DEFINE n == Len(ms)
           b == [first |-> 1, length |-> n]
           Step(s) == Halved(ms, i, s)
           Body(f) == [k \in 0 .. n |-> IF k = 0 THEN b ELSE Step(f[k - 1])]
           F == [k \in 1 .. n |-> [s \in Ranges |-> Step(s)]]
           h == CHOOSE f : f = Body(f)
<1>1. n \in Nat
  BY DEF MoveSeqs
<1>2. b \in Ranges /\ b.first = 1 /\ b.length = n
  BY <1>1 DEF Ranges
<1>3. \A s \in Ranges : Step(s) \in Ranges
  BY HalvedType
<1>4. LowerBound(ms, i) = h[n].first
  BY DEF LowerBound, Halved
<1> HIDE DEF Step, b
<1>5. F \in [1 .. n -> [Ranges -> Ranges]]
  BY <1>3
<1>6. PICK g \in [0 .. n -> Ranges] : Unfolds(g, b, F, n)
  <2> HIDE DEF F, n
  <2> QED BY <1>1, <1>2, <1>5, Recursion
<1>7. g[0] = b /\ \A k \in 1 .. n : g[k] = Step(g[k - 1])
  <2>1. g[0] = b /\ \A k \in 1 .. n : g[k] = F[k][g[k - 1]]
    <3> HIDE DEF F
    <3> QED BY <1>6 DEF Unfolds
  <2>2. ASSUME NEW k \in 1 .. n PROVE F[k][g[k - 1]] = Step(g[k - 1])
    <3>1. g[k - 1] \in Ranges
      BY <1>1
    <3> QED BY <3>1
  <2> HIDE DEF F
  <2> QED BY <2>1, <2>2
<1>8. g = Body(g)
  <2>1. \A k \in 0 .. n : g[k] = Body(g)[k]
    BY <1>1, <1>7
  <2> QED BY <2>1
<1>9. h = Body(h)
  <2> HIDE DEF Body
  <2> QED BY <1>8
<1>10. h[0] = b /\ \A k \in 1 .. n : h[k] = Step(h[k - 1])
  <2>1. \A k \in 0 .. n : h[k] = IF k = 0 THEN b ELSE Step(h[k - 1])
    BY <1>9
  <2> HIDE DEF h
  <2> QED BY <1>1, <2>1
<1> HIDE DEF h
<1> DEFINE Good(k) == h[k] \in Ranges /\ Around(ms, i, h[k]) /\ h[k].length <= n - k
           S == {k \in 0 .. n : Good(k)}
<1>11. 0 \in S
  <2>1. Around(ms, i, b)
    BY <1>1, <1>2 DEF Around
  <2> QED BY <1>1, <1>2, <1>10, <2>1
<1>12. ASSUME NEW k \in 0 .. n - 1, k \in S PROVE k + 1 \in S
  <2>1. k + 1 \in 1 .. n /\ k + 1 \in 0 .. n /\ (k + 1) - 1 = k /\ k \in Nat /\ k < n
    BY <1>1
  <2>2. h[k + 1] = Halved(ms, i, h[k]) /\ Good(k)
    BY <1>10, <1>12, <2>1 DEF Step
  <2>3. h[k + 1] \in Ranges /\ Around(ms, i, h[k + 1])
    BY <2>2, HalvedType, HalvedAround
  <2>4. h[k + 1].length <= n - (k + 1)
    <3>1. h[k].length \in Nat /\ h[k + 1].length \in Nat
      BY <2>2, <2>3 DEF Ranges
    <3>2. h[k].length = 0 => h[k + 1].length = 0
      BY <2>2, HalvedType
    <3>3. h[k].length # 0 => h[k + 1].length < h[k].length
      BY <2>2, HalvedType
    <3> QED BY <1>1, <2>1, <2>2, <3>1, <3>2, <3>3
  <2> QED BY <2>1, <2>3, <2>4
<1>13. \A k \in 0 .. n : k \in S
  <2> HIDE DEF S, n
  <2> QED BY <1>1, <1>11, <1>12, Induction
<1>14. h[n] \in Ranges /\ Around(ms, i, h[n]) /\ h[n].length = 0
  <2>1. Good(n)
    BY <1>1, <1>13
  <2>2. h[n].length \in Nat
    BY <2>1 DEF Ranges
  <2> QED BY <1>1, <2>1, <2>2
<1> QED BY <1>1, <1>4, <1>14 DEF Around, Ranges

-----------------------------------------------------------------------------
(* What the notifier reads from the finished change info *)

Distinct(r) == \A k, l \in Indexes(r) : r[k + 1] = r[l + 1] => k = l

(* e is the change info c with its mapping turned into moves. *)
Completes(c, e) ==
    LET unmoved == {k \in DOMAIN c.mapping : c.mapping[k] = k}
    IN  /\ e.deletions = c.deletions \ unmoved /\ e.insertions = c.insertions \ unmoved
        /\ e.moves \in MoveSeqs /\ Increasing(e.moves)
        /\ ToSet(e.moves) = {[from |-> c.mapping[k], to |-> k] : k \in DOMAIN c.mapping \ unmoved}

LEMMA ParseCompletes ==
    ASSUME NEW r \in Seq(Nat), NEW f \in Seq(Nat), NEW c \in Changes, Distinct(r),
           Tracks(c.deletions, c.insertions, c.mapping, r, f)
    PROVE  Completes(c, ParseComplete(c))
<1> DEFINE map == c.mapping
           U == {k \in DOMAIN map : map[k] = k}
           M == {[from |-> map[k], to |-> k] : k \in DOMAIN map \ U}
           e == ParseComplete(c)
<1>1. e = [c EXCEPT !.deletions = @ \ U, !.insertions = @ \ U, !.moves = ByOrigin(M), !.mapping = <<>>]
  BY DEF ParseComplete
<1>2. /\ DOMAIN map \subseteq Indexes(r)
      /\ \A k \in DOMAIN map : map[k] \in Indexes(f) /\ f[map[k] + 1] = r[k + 1]
  BY DEF Tracks, TracksBut
<1>3. \A k \in DOMAIN map : k \in Nat /\ map[k] \in Nat /\ map[k] < Len(f)
  BY <1>2 DEF Indexes
<1>4. M \in SUBSET Moves /\ \A a \in M : a.from < Len(f)
  BY <1>3 DEF Moves
<1>5. ASSUME NEW a \in M, NEW b \in M, a.from = b.from PROVE a = b
  <2>1. PICK k \in DOMAIN map : a = [from |-> map[k], to |-> k]
    OBVIOUS
  <2>2. PICK l \in DOMAIN map : b = [from |-> map[l], to |-> l]
    OBVIOUS
  <2>3. map[k] = map[l]
    BY <1>5, <2>1, <2>2
  <2>4. k = l
    BY <1>2, <2>3 DEF Distinct
  <2> QED BY <2>1, <2>2, <2>4
<1>6. IsFiniteSet(M)
  <2> DEFINE D == DOMAIN map \ U
             Arrow(k) == [from |-> map[k], to |-> k]
  <2>1. IsFiniteSet(Indexes(r)) /\ D \in SUBSET Indexes(r)
    <3>1. Len(r) - 1 \in Int
      OBVIOUS
    <3> QED BY <1>2, <3>1, FS_Interval DEF Indexes
  <2>2. IsFiniteSet(D)
    BY <2>1, FS_Subset
  <2> DEFINE h == [k \in D |-> Arrow(k)]
  <2>3. h \in Surjection(D, M)
    BY DEF Surjection
  <2> QED BY <2>2, <2>3, FS_Surjection
<1> HIDE DEF M, U
<1>7. ByOrigin(M) \in MoveSeqs /\ ToSet(ByOrigin(M)) = M /\ Increasing(ByOrigin(M))
  <2>1. Len(f) \in Nat
    OBVIOUS
  <2> QED BY <1>4, <1>5, <1>6, <2>1, ByOriginSorts
<1>8. /\ e.deletions = c.deletions \ U /\ e.insertions = c.insertions \ U /\ e.moves = ByOrigin(M)
  BY <1>1 DEF Changes
<1> HIDE DEF e
<1>9. Completes(c, e)
  BY <1>7, <1>8 DEF Completes, M, U
<1> QED BY <1>9 DEF e

LEMMA NewIndexRight ==
    ASSUME NEW r \in Seq(Nat), NEW f \in Seq(Nat), NEW c \in Changes, Distinct(r), Distinct(f),
           Tracks(c.deletions, c.insertions, c.mapping, r, f), NEW e, Completes(c, e),
           NEW i \in Indexes(f)
    PROVE  /\ \A k \in Indexes(r) : r[k + 1] = f[i + 1] => NewIndex(e, i) = k
           /\ (\A k \in Indexes(r) : r[k + 1] # f[i + 1]) => NewIndex(e, i) = Npos
<1> DEFINE del == c.deletions
           ins == c.insertions
           map == c.mapping
           U == {k \in DOMAIN map : map[k] = k}
           M == {[from |-> map[k], to |-> k] : k \in DOMAIN map \ U}
           ms == e.moves
           L == LowerBound(ms, i)
<1>1. /\ e.deletions = del \ U /\ e.insertions = ins \ U /\ ms \in MoveSeqs /\ Increasing(ms) /\ ToSet(ms) = M
  BY DEF Completes
<1>2. /\ ins \subseteq Indexes(r)
      /\ \A k \in Indexes(r) \ ins : k \in Indexes(f) \ del /\ f[k + 1] = r[k + 1]
      /\ \A k \in Indexes(f) \ del : k \in Indexes(r) \ ins
      /\ DOMAIN map \subseteq ins
      /\ \A k \in DOMAIN map : map[k] \in Indexes(f) /\ map[k] \in del /\ f[map[k] + 1] = r[k + 1]
      /\ \A k \in ins \ DOMAIN map : \A l \in Indexes(f) : f[l + 1] # r[k + 1]
  BY DEF Tracks, TracksBut
<1>3. i \in Nat /\ del \in SUBSET Nat /\ ins \in SUBSET Nat
  BY DEF Indexes, Changes
<1>4. NewIndex(e, i) = IF i \notin e.deletions THEN Shift(e.insertions, Unshift(e.deletions, i))
                       ELSE IF L <= Len(ms) /\ ms[L].from = i THEN ms[L].to ELSE Npos
  BY DEF NewIndex
<1>5. ASSUME NEW k \in Indexes(r), r[k + 1] = f[i + 1]
      PROVE  k = i \/ (k \in DOMAIN map /\ map[k] = i)
  <2>1. CASE k \notin ins
    BY <1>2, <1>5, <2>1 DEF Distinct
  <2>2. CASE k \in ins
    <3>1. k \in DOMAIN map
      BY <1>2, <1>5, <2>2
    <3>2. map[k] = i
      BY <1>2, <1>5, <3>1 DEF Distinct
    <3> QED BY <3>1, <3>2
  <2> QED BY <2>1, <2>2
<1>6. CASE i \notin del \ U
  <2>1. i \in Indexes(r) /\ r[i + 1] = f[i + 1] /\ i \notin ins \ U
    <3>1. CASE i \notin del
      BY <1>2, <3>1
    <3>2. CASE i \in U
      BY <1>2, <3>2
    <3> QED BY <1>6, <3>1, <3>2
  <2>2. ASSUME NEW l \in 0 .. i - 1 PROVE l \in del <=> l \in ins
    <3>1. l \in Indexes(r) /\ l \in Indexes(f)
      BY <1>3, <2>1, SMTT(30) DEF Indexes
    <3> QED BY <1>2, <3>1
  <2> DEFINE S == ins \ U
             T == del \ U
  <2>3. S \in SUBSET Nat /\ T \in SUBSET Nat /\ i \notin S /\ \A l \in 0 .. i - 1 : l \in S <=> l \in T
    BY <1>3, <2>1, <2>2
  <2>4. NewIndex(e, i) = Shift(S, Unshift(T, i))
    BY <1>1, <1>4, <1>6
  <2>5. Shift(S, Unshift(T, i)) = i
    <3> HIDE DEF S, T
    <3> QED BY <1>3, <2>3, ShiftUnshift
  <2>6. \A k \in Indexes(r) : r[k + 1] = f[i + 1] => k = i
    BY <2>1 DEF Distinct
  <2> QED BY <2>1, <2>4, <2>5, <2>6
<1>7. CASE i \in del \ U
  <2>1. NewIndex(e, i) = IF L <= Len(ms) /\ ms[L].from = i THEN ms[L].to ELSE Npos
    BY <1>1, <1>4, <1>7
  <2>2. /\ L \in 1 .. Len(ms) + 1
        /\ \A m \in 1 .. Len(ms) : m >= L => ms[m].from >= i
        /\ \A m \in 1 .. Len(ms) : m < L => ms[m].from < i
    <3> HIDE DEF ms
    <3> QED BY <1>1, <1>3, LowerBoundRight
  <2>3. DOMAIN ms = 1 .. Len(ms) /\ Len(ms) \in Nat
    BY <1>1 DEF MoveSeqs
  <2> HIDE DEF ms, L
  <2>4. ASSUME NEW k \in DOMAIN map, map[k] = i PROVE NewIndex(e, i) = k
    <3> DEFINE a == [from |-> map[k], to |-> k]
    <3>1. k \notin U
      BY <1>7, <2>4
    <3>2. a \in M
      BY <3>1
    <3>3. PICK m \in 1 .. Len(ms) : ms[m] = a
      <4> HIDE DEF a, M
      <4>1. a \in ToSet(ms)
        BY <1>1, <3>2
      <4> QED BY <2>3, <4>1 DEF ToSet
    <3>4. ms[m].from = i /\ ms[m].to = k
      BY <2>4, <3>3
    <3>5. L <= m
      BY <1>3, <2>2, <2>3, <3>4
    <3>6. L \in 1 .. Len(ms) /\ L <= Len(ms)
      BY <2>2, <2>3, <3>5
    <3>7. L = m
      <4> SUFFICES ASSUME L < m PROVE FALSE
        BY <3>5, <3>6
      <4>1. ms[L].from < ms[m].from
        BY <1>1, <2>3, <3>6 DEF Increasing
      <4>2. ms[L].from >= i /\ ms[L].from \in Nat
        <5>1. ms[L].from >= i
          BY <2>2, <3>6
        <5> QED BY <1>1, <3>6, <5>1, MoveAt
      <4> QED BY <1>3, <3>4, <4>1, <4>2
    <3> QED BY <2>1, <3>4, <3>6, <3>7
  <2>5. ASSUME \A k \in DOMAIN map : map[k] # i PROVE NewIndex(e, i) = Npos
    <3> SUFFICES ASSUME L <= Len(ms), ms[L].from = i PROVE FALSE
      BY <2>1
    <3>1. L \in DOMAIN ms
      BY <2>2, <2>3
    <3>2. ms[L] \in M
      BY <1>1, <3>1 DEF ToSet
    <3>3. PICK k \in DOMAIN map : ms[L] = [from |-> map[k], to |-> k]
      BY <3>2
    <3> QED BY <2>5, <3>3
  <2>6. ASSUME NEW k \in Indexes(r), r[k + 1] = f[i + 1] PROVE NewIndex(e, i) = k
    <3>1. ~(k = i /\ k \notin DOMAIN map)
      <4> SUFFICES ASSUME k = i, k \notin DOMAIN map PROVE FALSE
        OBVIOUS
      <4>1. k \in ins
        BY <1>2, <1>7
      <4> QED BY <1>2, <2>6, <4>1
    <3>2. k \in DOMAIN map /\ map[k] = i
      <4>1. k \in DOMAIN map
        BY <1>5, <2>6, <3>1
      <4>2. f[map[k] + 1] = f[i + 1] /\ map[k] \in Indexes(f)
        BY <1>2, <2>6, <4>1
      <4> QED BY <4>1, <4>2 DEF Distinct
    <3> QED BY <2>4, <3>2
  <2>7. ASSUME \A k \in Indexes(r) : r[k + 1] # f[i + 1] PROVE NewIndex(e, i) = Npos
    <3>1. \A k \in DOMAIN map : map[k] # i
      BY <1>2, <2>7
    <3> QED BY <2>5, <3>1
  <2> QED BY <2>6, <2>7
<1> QED BY <1>6, <1>7

-----------------------------------------------------------------------------
(* The marks: the rows that are marked are the ones in dirty, but for those in gone,
   which are about to be erased. *)

MarkedBut(mods, dirty, r, gone) ==
    mods \subseteq Indexes(r) /\ \A k \in Indexes(r) \ gone : k \in mods <=> r[k + 1] \in dirty

Marked(mods, dirty, r) == MarkedBut(mods, dirty, r, {})

LEMMA MarkedMoveOver ==
    ASSUME NEW r \in Seq(Nat), NEW row \in Indexes(r), NEW mods, NEW dirty, MarkedBut(mods, dirty, r, {row}),
           NEW last, last = Len(r) - 1,
           NEW new, new = IF row = last THEN mods \ {row} ELSE FollowMoveOver(mods, row, last)
    PROVE  Marked(new, dirty, MovedOver(r, row))
<1> DEFINE q == MovedOver(r, row)
<1>1. /\ Indexes(q) = Indexes(r) \ {last} /\ last \in Indexes(r) /\ r[Len(r)] = r[last + 1]
      /\ \A k \in Indexes(r) \ {last} : q[k + 1] = IF k = row THEN r[last + 1] ELSE r[k + 1]
  <2>1. last + 1 = Len(r) /\ last \in Indexes(r)
    BY DEF Indexes
  <2> QED BY <2>1, MovedOverRows, SMTT(90)
<1>2. mods \subseteq Indexes(r) /\ \A k \in Indexes(r) \ {row} : k \in mods <=> r[k + 1] \in dirty
  BY DEF MarkedBut
<1> HIDE DEF q
<1>3. CASE row = last
  <2>1. new = mods \ {row}
    BY <1>3
  <2>2. Marked(new, dirty, q)
    BY <1>1, <1>2, <1>3, <2>1 DEF Marked, MarkedBut
  <2> QED BY <2>2 DEF q
<1>4. CASE row # last
  <2>1. new = IF last \in mods THEN (mods \ {last}) \cup {row} ELSE mods \ {row}
    BY <1>4 DEF FollowMoveOver
  <2>2. Marked(new, dirty, q)
    <3>1. CASE last \in mods
      BY <1>1, <1>2, <1>4, <2>1, <3>1 DEF Marked, MarkedBut
    <3>2. CASE last \notin mods
      BY <1>1, <1>2, <1>4, <2>1, <3>2 DEF Marked, MarkedBut
    <3> QED BY <3>1, <3>2
  <2> QED BY <2>2 DEF q
<1> QED BY <1>3, <1>4

LEMMA MarkedSwap ==
    ASSUME NEW r \in Seq(Nat), NEW i \in Indexes(r), NEW j \in Indexes(r), i # j, NEW mods, NEW dirty,
           Marked(mods, dirty, r)
    PROVE  Marked(SwapMarks(mods, i, j), dirty, Swapped(r, i, j))
<1> DEFINE q == Swapped(r, i, j)
           new == SwapMarks(mods, i, j)
<1>1. /\ Indexes(q) = Indexes(r) /\ q[i + 1] = r[j + 1] /\ q[j + 1] = r[i + 1]
      /\ \A k \in Indexes(r) \ {i, j} : q[k + 1] = r[k + 1]
  BY SwappedRows
<1>2. mods \subseteq Indexes(r) /\ \A k \in Indexes(r) : k \in mods <=> r[k + 1] \in dirty
  BY DEF Marked, MarkedBut
<1>3. /\ new \subseteq Indexes(r) /\ (i \in new <=> j \in mods) /\ (j \in new <=> i \in mods)
      /\ \A k : k \notin {i, j} => (k \in new <=> k \in mods)
  <2>1. CASE i \in mods /\ j \notin mods
    BY <1>2, <2>1 DEF SwapMarks
  <2>2. CASE j \in mods /\ i \notin mods
    BY <1>2, <2>2 DEF SwapMarks
  <2>3. CASE i \in mods <=> j \in mods
    <3>1. new = mods
      BY <2>3 DEF SwapMarks
    <3> QED BY <1>2, <2>3, <3>1
  <2> QED BY <2>1, <2>2, <2>3
<1> HIDE DEF q, new
<1>4. Marked(new, dirty, q)
  BY <1>1, <1>2, <1>3 DEF Marked, MarkedBut
<1> QED BY <1>4 DEF q, new

LEMMA MarkedSubsume ==
    ASSUME NEW r \in Seq(Nat), NEW i \in Indexes(r), NEW j \in Indexes(r), i # j, Distinct(r),
           NEW mods, NEW dirty, Marked(mods, dirty, r),
           NEW new, new = IF i \in mods THEN mods \cup {j} ELSE mods,
           NEW more, more = IF r[j + 1] \in dirty THEN dirty \cup {r[i + 1]} ELSE dirty
    PROVE  MarkedBut(new, more, [r EXCEPT ![j + 1] = r[i + 1]], {i})
<1> DEFINE q == [r EXCEPT ![j + 1] = r[i + 1]]
<1>1. /\ Indexes(q) = Indexes(r) /\ q[j + 1] = r[i + 1] /\ \A k \in Indexes(r) \ {j} : q[k + 1] = r[k + 1]
  <2>1. \A k \in Indexes(r) : k \in Nat /\ k + 1 \in 1 .. Len(r)
    BY DEF Indexes
  <2> QED BY <2>1 DEF Indexes
<1>2. mods \subseteq Indexes(r) /\ \A k \in Indexes(r) : k \in mods <=> r[k + 1] \in dirty
  BY DEF Marked, MarkedBut
<1>3. \A k \in Indexes(r) \ {i} : r[k + 1] # r[i + 1]
  BY DEF Distinct
<1> HIDE DEF q
<1>4. ASSUME NEW k \in Indexes(r) \ {i} PROVE k \in new <=> q[k + 1] \in more
  <2>1. CASE k = j
    BY <1>1, <1>2, <2>1
  <2>2. CASE k # j
    BY <1>1, <1>2, <1>3, <2>2
  <2> QED BY <2>1, <2>2
<1>5. new \subseteq Indexes(r)
  BY <1>2
<1>6. MarkedBut(new, more, q, {i})
  BY <1>1, <1>4, <1>5 DEF MarkedBut
<1> QED BY <1>6 DEF q

(* What each operation does to the marks *)
LEMMA ModsOfMoveOver ==
    ASSUME NEW c, "modifications" \in DOMAIN c, NEW row, NEW last
    PROVE  MoveOver(c, row, last).modifications =
                IF row = last THEN c.modifications \ {row} ELSE FollowMoveOver(c.modifications, row, last)
BY DEF MoveOver

LEMMA ModsOfSwap ==
    ASSUME NEW c \in Changes, NEW i, NEW j
    PROVE  Swap(c, i, j).modifications = SwapMarks(c.modifications, i, j)
<1>1. \A d, k, l : "modifications" \in DOMAIN d =>
            MoveTo(d, k, l).modifications = d.modifications /\ "modifications" \in DOMAIN MoveTo(d, k, l)
  BY DEF MoveTo
<1> DEFINE m == c.mapping
           d == [c EXCEPT !.modifications = SwapMarks(@, i, j)]
<1>2. "modifications" \in DOMAIN d /\ d.modifications = SwapMarks(c.modifications, i, j)
  BY DEF Changes
<1>3. \A x : /\ "modifications" \in DOMAIN [d EXCEPT !.mapping = x]
             /\ [d EXCEPT !.mapping = x].modifications = d.modifications
  BY <1>2
<1>4. CASE i \in DOMAIN m /\ j \in DOMAIN m
  <2>1. Swap(c, i, j) = [d EXCEPT !.mapping = Put(Put(m, i, m[j]), j, m[i])]
    BY <1>4 DEF Swap
  <2> HIDE DEF d
  <2> QED BY <1>2, <1>3, <2>1
<1>5. CASE i \in DOMAIN m /\ j \notin DOMAIN m
  <2>1. Swap(c, i, j) = MoveTo([d EXCEPT !.mapping = Put(Without(m, i), j, m[i])], j, i)
    BY <1>5 DEF Swap
  <2> HIDE DEF d
  <2> QED BY <1>1, <1>2, <1>3, <2>1
<1>6. CASE i \notin DOMAIN m /\ j \in DOMAIN m
  <2>1. Swap(c, i, j) = MoveTo([d EXCEPT !.mapping = Put(Without(m, j), i, m[j])], i, j)
    BY <1>6 DEF Swap
  <2> HIDE DEF d
  <2> QED BY <1>1, <1>2, <1>3, <2>1
<1>7. CASE i \notin DOMAIN m /\ j \notin DOMAIN m
  <2>1. Swap(c, i, j) = MoveTo(MoveTo(d, j, i), i, j)
    BY <1>7 DEF Swap
  <2> HIDE DEF d
  <2> QED BY <1>1, <1>2, <2>1
<1> QED BY <1>4, <1>5, <1>6, <1>7

-----------------------------------------------------------------------------
(* The inductive invariant *)

Entries == [from : Seq(Nat), change : Changes, dirty : SUBSET Nat]

(* The rows r are distinct and were given identities up to n. *)
Named(r, n) ==
    /\ r \in Seq(Nat) /\ Distinct(r) /\ Len(r) <= MaxRows
    /\ \A k \in Indexes(r) : r[k + 1] \in 1 .. n

RowsOK == named \in Nat /\ Named(rows, named)

InfosOK ==
    /\ infos \in Seq(ToSet(infos)) /\ Len(infos) >= 1
    /\ MaxSpans = 1 => Len(infos) = 1

(* What a change info says while the log is parsed: r are the rows and n the identities. *)
Follows(e, r, n) ==
    /\ e \in Entries /\ Named(e.from, n) /\ e.dirty \subseteq 1 .. n
    /\ moveInfo => Tracks(e.change.deletions, e.change.insertions, e.change.mapping, r, e.from)

IInv ==
    /\ RowsOK /\ InfosOK
    /\ {final, moveInfo} \subseteq BOOLEAN
    /\ Marked(Current.change.modifications, Current.dirty, rows)
    /\ ~final => Follows(Current, rows, named)
    /\ RowsAreTracked

LEMMA FunctionIsSequence ==
    ASSUME NEW V, NEW n \in Nat, NEW t \in [1 .. n -> V]
    PROVE  t \in Seq(V) /\ Len(t) = n /\ t \in Seq(ToSet(t))
<1>1. t \in Seq(V) /\ Len(t) = n
  OBVIOUS
<1>2. \A k \in 1 .. n : t[k] \in ToSet(t)
  BY DEF ToSet
<1>3. t \in [1 .. n -> ToSet(t)]
  BY <1>2
<1>4. \A W : t \in [1 .. n -> W] => t \in Seq(W)
  OBVIOUS
<1> QED BY <1>1, <1>3, <1>4

LEMMA SequenceWithLast ==
    ASSUME NEW s, s \in Seq(ToSet(s)), Len(s) >= 1, NEW y, NEW t, t = [s EXCEPT ![Len(s)] = y]
    PROVE  t \in Seq(ToSet(t)) /\ Len(t) = Len(s) /\ t[Len(s)] = y
<1> DEFINE V == ToSet(s) \cup {y}
           n == Len(s)
<1>1. n \in Nat /\ DOMAIN s = 1 .. n /\ n \in DOMAIN s
  OBVIOUS
<1>2. t \in [1 .. n -> V] /\ t[n] = y
  <2>1. \A k \in 1 .. n : s[k] \in V
    BY <1>1 DEF ToSet
  <2> HIDE DEF V
  <2>2. y \in V
    BY DEF V
  <2> QED BY <1>1, <2>1, <2>2
<1> HIDE DEF V, n
<1>3. t \in Seq(ToSet(t)) /\ Len(t) = n
  BY <1>1, <1>2, FunctionIsSequence
<1> QED BY <1>2, <1>3 DEF n

LEMMA AppendSequence ==
    ASSUME NEW s, s \in Seq(ToSet(s)), NEW y
    PROVE  /\ Append(s, y) \in Seq(ToSet(Append(s, y))) /\ Len(Append(s, y)) = Len(s) + 1
           /\ Append(s, y)[Len(s) + 1] = y
<1> DEFINE V == ToSet(s) \cup {y}
           t == Append(s, y)
<1>1. s \in Seq(V) /\ y \in V
  <2>1. ToSet(s) \subseteq V
    OBVIOUS
  <2> HIDE DEF V
  <2> QED BY <2>1 DEF V
<1> HIDE DEF V
<1>2. t \in Seq(V) /\ Len(t) = Len(s) + 1 /\ t[Len(s) + 1] = y /\ Len(t) \in Nat
  BY <1>1
<1> DEFINE n == Len(t)
<1> HIDE DEF t
<1>3. n \in Nat /\ t \in [1 .. n -> V]
  BY <1>2
<1> HIDE DEF n
<1>4. t \in Seq(ToSet(t))
  BY <1>3, FunctionIsSequence
<1> QED BY <1>2, <1>4 DEF t

LEMMA InitIInv == Init => IInv
<1> SUFFICES ASSUME Init PROVE IInv
  OBVIOUS
<1>1. PICK n \in 0 .. MaxRows : rows = Identity(n)
  BY DEF Init
<1>2. MaxRows \in Nat /\ n \in Nat
  BY BoundsAssumption
<1>3. rows = [k \in 1 .. n |-> k]
  BY <1>1 DEF Identity
<1>4. rows \in Seq(Nat) /\ Len(rows) = n /\ \A k \in 1 .. n : rows[k] = k
  BY <1>2, <1>3
<1>5. named = n /\ final = FALSE /\ moveInfo \in BOOLEAN /\ infos = <<Info(rows)>>
  BY <1>4 DEF Init
<1>6. Named(rows, named)
  BY <1>1, <1>2, <1>4, <1>5 DEF Named, Distinct, Indexes
<1>7. InfosOK /\ Current = Info(rows)
  <2> DEFINE y == Info(rows)
  <2>1. infos = <<y>>
    BY <1>5
  <2> HIDE DEF y
  <2>2. DOMAIN infos = {1} /\ infos[1] = y /\ Len(infos) = 1
    BY <2>1
  <2>3. ToSet(infos) = {y}
    BY <2>2 DEF ToSet
  <2>4. infos \in Seq({y})
    BY <2>1
  <2> QED BY <2>2, <2>3, <2>4 DEF InfosOK, Current, y
<1>8. /\ NoChanges \in Changes
      /\ Tracks(NoChanges.deletions, NoChanges.insertions, NoChanges.mapping, rows, rows)
  BY <1>4, NothingTracks
<1>9. /\ Current \in Entries /\ Current.from = rows /\ Current.change = NoChanges /\ Current.dirty = {}
  BY <1>4, <1>7, <1>8 DEF Info, Entries
<1>10. Marked(Current.change.modifications, Current.dirty, rows)
  BY <1>9 DEF Marked, MarkedBut, NoChanges
<1>11. Follows(Current, rows, named)
  BY <1>6, <1>8, <1>9 DEF Follows
<1> QED BY <1>2, <1>5, <1>6, <1>7, <1>10, <1>11 DEF IInv, RowsOK, RowsAreTracked

(* An instruction gives the current change info the changes x and the marks dy. *)
LEMMA ParseStep ==
    ASSUME IInv, ~final, UNCHANGED <<final, moveInfo>>, RowsOK', named <= named',
           NEW x, NEW dy, infos' = WithCurrent(x, dy), x \in Changes, dy \subseteq 1 .. named',
           Marked(x.modifications, dy, rows'),
           moveInfo => Tracks(x.deletions, x.insertions, x.mapping, rows', Current.from)
    PROVE  IInv'
<1> DEFINE e == Current
           y == [e EXCEPT !.change = x, !.dirty = dy]
           n == Len(infos)
<1>1. infos \in Seq(ToSet(infos)) /\ n >= 1 /\ (MaxSpans = 1 => n = 1)
  BY DEF IInv, InfosOK
<1>2. infos' = [infos EXCEPT ![n] = y]
  <2>1. n \in DOMAIN infos
    BY <1>1
  <2> QED BY <2>1 DEF WithCurrent, Current
<1>3. /\ e \in Entries /\ Named(e.from, named) /\ {final, moveInfo} \subseteq BOOLEAN
      /\ named \in Nat /\ named' \in Nat
  BY DEF IInv, Follows, RowsOK
<1>4. y \in Entries /\ y.from = e.from /\ y.change = x /\ y.dirty = dy
  <2>1. dy \in SUBSET Nat
    BY <1>3
  <2> QED BY <1>3, <2>1 DEF Entries
<1> HIDE DEF e, y
<1>5. infos' \in Seq(ToSet(infos')) /\ Len(infos') = n /\ infos'[n] = y
  BY <1>1, <1>2, SequenceWithLast
<1>6. Current' = y
  BY <1>5 DEF Current
<1>7. InfosOK'
  BY <1>1, <1>5 DEF InfosOK
<1>8. Named(y.from, named')
  <2>1. \A k \in 1 .. named : k \in 1 .. named'
    BY <1>3
  <2> QED BY <1>3, <1>4, <2>1 DEF Named
<1>9. Follows(y, rows', named')
  BY <1>4, <1>8 DEF Follows, e
<1>10. Follows(Current, rows, named)'
  BY <1>6, <1>9 DEF Follows
<1>11. Marked(Current.change.modifications, Current.dirty, rows)'
  BY <1>4, <1>6
<1>12. RowsAreTracked'
  BY DEF RowsAreTracked
<1> QED BY <1>3, <1>7, <1>10, <1>11, <1>12 DEF IInv

LEMMA TrackedStep ==
    ASSUME IInv, ~final, UNCHANGED <<final, moveInfo>>, RowsOK', named <= named',
           NEW d, NEW dy, infos' = WithCurrent(Tracked(d), dy), dy \subseteq 1 .. named',
           Marked(d.modifications, dy, rows'),
           moveInfo => /\ d \in Changes
                       /\ Tracks(d.deletions, d.insertions, d.mapping, rows', Current.from)
    PROVE  IInv'
<1> DEFINE x == Tracked(d)
           c == Current.change
<1>1. c \in Changes /\ Current \in Entries
  BY DEF IInv, Follows, Entries
<1>2. x \in Changes /\ x.modifications = d.modifications /\ (moveInfo => x = d)
  <2>1. CASE moveInfo
    BY <2>1 DEF Tracked
  <2>2. CASE ~moveInfo
    <3>1. x = [c EXCEPT !.modifications = d.modifications]
      BY <2>2 DEF Tracked
    <3>2. d.modifications \in SUBSET Nat
      BY DEF Marked, MarkedBut, Indexes
    <3> HIDE DEF x, c
    <3> QED BY <1>1, <2>2, <3>1, <3>2 DEF Changes
  <2> QED BY <2>1, <2>2
<1> HIDE DEF x, c
<1>3. infos' = WithCurrent(x, dy)
  BY DEF x
<1> QED BY <1>2, <1>3, ParseStep

(* What the invariant says while the log is parsed *)
LEMMA Parsing ==
    ASSUME IInv, ~final
    PROVE  /\ named \in Nat /\ rows \in Seq(Nat) /\ Distinct(rows) /\ Len(rows) <= MaxRows
           /\ \A k \in Indexes(rows) : rows[k + 1] \in 1 .. named
           /\ Current.change \in Changes /\ Current.from \in Seq(Nat) /\ Distinct(Current.from)
           /\ \A k \in Indexes(Current.from) : Current.from[k + 1] \in 1 .. named
           /\ Len(Current.from) <= MaxRows
           /\ Current.dirty \subseteq 1 .. named
           /\ Marked(Current.change.modifications, Current.dirty, rows)
           /\ moveInfo => Tracks(Current.change.deletions, Current.change.insertions,
                                 Current.change.mapping, rows, Current.from)
BY DEF IInv, RowsOK, Named, Follows, Entries

LEMMA AddRowIInv == ASSUME IInv, AddRow PROVE IInv'
<1> DEFINE c == Current.change
           id == named + 1
           d == Insert(c, Len(rows), 1)
           f == Current.from
<1>1. /\ ~final /\ UNCHANGED <<final, moveInfo>> /\ Len(rows) < MaxRows /\ named' = id
      /\ rows' = Append(rows, id) /\ infos' = WithCurrent(Tracked(d), Current.dirty)
  BY DEF AddRow, Parse
<1>2. /\ named \in Nat /\ rows \in Seq(Nat) /\ Distinct(rows) /\ Len(rows) <= MaxRows
      /\ \A k \in Indexes(rows) : rows[k + 1] \in 1 .. named
      /\ c \in Changes /\ f \in Seq(Nat)
      /\ \A k \in Indexes(f) : f[k + 1] \in 1 .. named
      /\ Current.dirty \subseteq 1 .. named
      /\ Marked(c.modifications, Current.dirty, rows)
      /\ moveInfo => Tracks(c.deletions, c.insertions, c.mapping, rows, f)
  BY <1>1, Parsing
<1>3. /\ Indexes(rows') = Indexes(rows) \cup {Len(rows)} /\ Len(rows) \notin Indexes(rows)
      /\ rows'[Len(rows) + 1] = id
      /\ \A k \in Indexes(rows) : rows'[k + 1] = rows[k + 1]
      /\ rows' \in Seq(Nat) /\ Len(rows') = Len(rows) + 1
  BY <1>1, <1>2 DEF Indexes
<1>4. \A k \in 1 .. named : k \in 1 .. id /\ k # id
  BY <1>2
<1>5. RowsOK'
  <2>1. Distinct(rows')
    BY <1>2, <1>3, <1>4 DEF Distinct
  <2>2. \A k \in Indexes(rows') : rows'[k + 1] \in 1 .. id
    BY <1>2, <1>3, <1>4, SMTT(30)
  <2>3. Len(rows') <= MaxRows
    BY <1>1, <1>2, <1>3, BoundsAssumption
  <2>4. named' \in Nat /\ named' = id
    BY <1>1, <1>2
  <2> HIDE DEF id
  <2>5. Named(rows', id)
    BY <1>3, <2>1, <2>2, <2>3 DEF Named
  <2> QED BY <2>4, <2>5 DEF RowsOK
<1>6. moveInfo => d \in Changes /\ Tracks(d.deletions, d.insertions, d.mapping, rows', f)
  <2>1. \A k \in Indexes(f) : f[k + 1] # id
    BY <1>2, <1>4
  <2>2. id \in Nat
    BY <1>2
  <2> HIDE DEF f, c, id
  <2> QED BY <1>1, <1>2, <2>1, <2>2, InsertTracks
<1>7. d.modifications = c.modifications
  <2>1. d.modifications = ShiftForInsertAt(c.modifications, Len(rows), 1)
    BY <1>2 DEF Insert, Changes
  <2>2. \A k \in c.modifications : ~(k >= Len(rows))
    BY <1>2 DEF Marked, MarkedBut, Indexes
  <2> QED BY <2>1, <2>2 DEF ShiftForInsertAt
<1>8. Marked(d.modifications, Current.dirty, rows')
  <2>1. id \notin Current.dirty
    BY <1>2, <1>4
  <2>2. /\ c.modifications \subseteq Indexes(rows)
        /\ \A k \in Indexes(rows) : k \in c.modifications <=> rows[k + 1] \in Current.dirty
    BY <1>2 DEF Marked, MarkedBut
  <2> HIDE DEF d, c, id
  <2> QED BY <1>3, <1>7, <2>1, <2>2 DEF Marked, MarkedBut
<1>9. Current.dirty \subseteq 1 .. named' /\ named <= named'
  BY <1>1, <1>2, <1>4
<1> HIDE DEF d, c, f, id
<1> QED BY <1>1, <1>5, <1>6, <1>8, <1>9, TrackedStep DEF f

LEMMA SetRowIInv == ASSUME IInv, NEW i \in Indexes(rows), SetRow(i) PROVE IInv'
<1> DEFINE c == Current.change
           x == Modify(c, i)
           dy == Current.dirty \cup {rows[i + 1]}
<1>1. /\ ~final /\ UNCHANGED <<final, moveInfo, rows, named>>
      /\ infos' = WithCurrent(x, dy)
  BY DEF SetRow, Parse
<1>2. /\ named \in Nat /\ Distinct(rows) /\ c \in Changes
      /\ \A k \in Indexes(rows) : rows[k + 1] \in 1 .. named
      /\ Current.dirty \subseteq 1 .. named
      /\ Marked(c.modifications, Current.dirty, rows)
      /\ moveInfo => Tracks(c.deletions, c.insertions, c.mapping, rows, Current.from)
  BY <1>1, Parsing
<1>3. i \in Nat
  BY DEF Indexes, IInv, RowsOK, Named
<1>4. /\ x \in Changes /\ x.modifications = c.modifications \cup {i} /\ x.deletions = c.deletions
      /\ x.insertions = c.insertions /\ x.mapping = c.mapping
  BY <1>2, <1>3 DEF Modify, Changes
<1>5. Marked(x.modifications, dy, rows)
  <2> HIDE DEF c, x
  <2>1. \A k \in Indexes(rows) \ {i} : rows[k + 1] # rows[i + 1]
    BY <1>2 DEF Distinct
  <2> QED BY <1>2, <1>4, <2>1 DEF Marked, MarkedBut
<1>6. RowsOK' /\ dy \subseteq 1 .. named' /\ named <= named'
  BY <1>1, <1>2 DEF IInv, RowsOK
<1> HIDE DEF c, x, dy
<1>7. Marked(x.modifications, dy, rows')
  BY <1>1, <1>5
<1>8. moveInfo => Tracks(x.deletions, x.insertions, x.mapping, rows', Current.from)
  BY <1>1, <1>2, <1>4
<1> QED BY <1>1, <1>4, <1>6, <1>7, <1>8, ParseStep

LEMMA MovedOverNamed ==
    ASSUME NEW r \in Seq(Nat), NEW n \in Nat, NEW row \in Indexes(r), Len(r) <= MaxRows,
           \A k \in Indexes(r) : r[k + 1] \in 1 .. n,
           \A k, l \in Indexes(r) \ {row} : r[k + 1] = r[l + 1] => k = l
    PROVE  Named(MovedOver(r, row), n)
<1> DEFINE q == MovedOver(r, row)
           last == Len(r) - 1
<1>1. /\ q \in Seq(Nat) /\ Len(q) = Len(r) - 1
      /\ Indexes(q) = Indexes(r) \ {last}
      /\ \A k \in Indexes(r) \ {last} : q[k + 1] = IF k = row THEN r[Len(r)] ELSE r[k + 1]
  BY MovedOverRows
<1>2. last \in Indexes(r) /\ r[Len(r)] = r[last + 1] /\ Len(q) <= MaxRows
  BY <1>1, BoundsAssumption DEF Indexes
<1> HIDE DEF q, last
<1>3. \A k \in Indexes(q) : q[k + 1] \in 1 .. n
  BY <1>1, <1>2
<1>4. Distinct(q)
  <2> SUFFICES ASSUME NEW k \in Indexes(q), NEW l \in Indexes(q), q[k + 1] = q[l + 1] PROVE k = l
    BY DEF Distinct
  <2> DEFINE At(m) == IF m = row THEN last ELSE m
  <2>1. ASSUME NEW m \in Indexes(q)
        PROVE  At(m) \in Indexes(r) /\ q[m + 1] = r[At(m) + 1] /\ At(m) # row
    BY <1>1, <1>2
  <2>2. At(k) = At(l)
    <3>1. At(k) \in Indexes(r) \ {row} /\ At(l) \in Indexes(r) \ {row} /\ r[At(k) + 1] = r[At(l) + 1]
      BY <2>1
    <3> HIDE DEF At
    <3> QED BY <3>1
  <2> QED BY <1>1, <2>2
<1>5. Named(q, n)
  BY <1>1, <1>2, <1>3, <1>4 DEF Named
<1> QED BY <1>5 DEF q

LEMMA EraseRowIInv == ASSUME IInv, NEW i \in Indexes(rows), EraseRow(i) PROVE IInv'
<1> DEFINE c == Current.change
           last == Len(rows) - 1
           d == MoveOver(c, i, last)
           f == Current.from
<1>1. /\ ~final /\ UNCHANGED <<final, moveInfo, named>>
      /\ rows' = MovedOver(rows, i) /\ infos' = WithCurrent(Tracked(d), Current.dirty)
  BY DEF EraseRow, Parse
<1>2. /\ named \in Nat /\ rows \in Seq(Nat) /\ Distinct(rows) /\ Len(rows) <= MaxRows
      /\ \A k \in Indexes(rows) : rows[k + 1] \in 1 .. named
      /\ c \in Changes /\ f \in Seq(Nat)
      /\ Current.dirty \subseteq 1 .. named
      /\ Marked(c.modifications, Current.dirty, rows)
      /\ moveInfo => Tracks(c.deletions, c.insertions, c.mapping, rows, f)
  BY <1>1, Parsing
<1>3. RowsOK'
  <2>1. Named(rows', named)
    BY <1>1, <1>2, MovedOverNamed DEF Distinct
  <2> QED BY <1>1, <1>2, <2>1 DEF RowsOK
<1>4. Marked(d.modifications, Current.dirty, rows')
  <2> DEFINE mods == c.modifications
             new == IF i = last THEN mods \ {i} ELSE FollowMoveOver(mods, i, last)
  <2>1. d.modifications = new
    <3>1. "modifications" \in DOMAIN c
      BY <1>2 DEF Changes
    <3> HIDE DEF c, last
    <3> QED BY <3>1, ModsOfMoveOver
  <2>2. MarkedBut(mods, Current.dirty, rows, {i})
    BY <1>2 DEF Marked, MarkedBut
  <2>3. last = Len(rows) - 1 /\ new = IF i = last THEN mods \ {i} ELSE FollowMoveOver(mods, i, last)
    OBVIOUS
  <2> HIDE DEF mods, new, last, d
  <2>4. Marked(new, Current.dirty, MovedOver(rows, i))
    BY <1>2, <2>2, <2>3, MarkedMoveOver
  <2> QED BY <1>1, <2>1, <2>4
<1>5. moveInfo => d \in Changes /\ Tracks(d.deletions, d.insertions, d.mapping, rows', f)
  <2> SUFFICES ASSUME moveInfo PROVE d \in Changes /\ Tracks(d.deletions, d.insertions, d.mapping, rows', f)
    OBVIOUS
  <2>1. Tracks(c.deletions, c.insertions, c.mapping, rows, f)
    BY <1>2
  <2>2. TracksBut(c.deletions, c.insertions, c.mapping, rows, f, {i})
    BY <2>1, TracksAnyBut
  <2>3. last = Len(rows) - 1 /\ d = MoveOver(c, i, last) /\ d = MoveOver(c, i, Len(rows) - 1)
    OBVIOUS
  <2> HIDE DEF c, f, d, last
  <2>4. d \in Changes
    BY <1>2, <2>2, <2>3, MoveOverFields
  <2>5. Tracks(d.deletions, d.insertions, d.mapping, MovedOver(rows, i), f)
    BY <1>2, <2>2, <2>3, MoveOverTracks
  <2> QED BY <1>1, <2>4, <2>5
<1>6. Current.dirty \subseteq 1 .. named' /\ named <= named'
  BY <1>1, <1>2
<1> HIDE DEF d, c, f, last
<1> QED BY <1>1, <1>3, <1>4, <1>5, <1>6, TrackedStep DEF f

LEMMA SwapRowsIInv ==
    ASSUME IInv, NEW i \in Indexes(rows), NEW j \in Indexes(rows), SwapRows(i, j) PROVE IInv'
<1> DEFINE c == Current.change
           d == Swap(c, i, j)
           f == Current.from
<1>1. /\ ~final /\ UNCHANGED <<final, moveInfo, named>> /\ i < j
      /\ rows' = Swapped(rows, i, j) /\ infos' = WithCurrent(Tracked(d), Current.dirty)
  BY DEF SwapRows, Parse, Swapped
<1>2. /\ named \in Nat /\ rows \in Seq(Nat) /\ Distinct(rows) /\ Len(rows) <= MaxRows
      /\ \A k \in Indexes(rows) : rows[k + 1] \in 1 .. named
      /\ c \in Changes /\ f \in Seq(Nat)
      /\ Current.dirty \subseteq 1 .. named
      /\ Marked(c.modifications, Current.dirty, rows)
      /\ moveInfo => Tracks(c.deletions, c.insertions, c.mapping, rows, f)
  BY <1>1, Parsing
<1>3. i # j
  BY <1>1, <1>2 DEF Indexes
<1>4. /\ rows' \in Seq(Nat) /\ Len(rows') = Len(rows) /\ Indexes(rows') = Indexes(rows)
      /\ rows'[i + 1] = rows[j + 1] /\ rows'[j + 1] = rows[i + 1]
      /\ \A k \in Indexes(rows) \ {i, j} : rows'[k + 1] = rows[k + 1]
  <2> DEFINE q == Swapped(rows, i, j)
  <2>1. /\ q \in Seq(Nat) /\ Len(q) = Len(rows) /\ Indexes(q) = Indexes(rows)
        /\ q[i + 1] = rows[j + 1] /\ q[j + 1] = rows[i + 1]
        /\ \A k \in Indexes(rows) \ {i, j} : q[k + 1] = rows[k + 1]
    BY <1>2, <1>3, SwappedRows
  <2> HIDE DEF q
  <2> QED BY <1>1, <2>1 DEF q
<1>5. RowsOK'
  <2>1. Distinct(rows')
    <3> DEFINE At(m) == IF m = i THEN j ELSE IF m = j THEN i ELSE m
    <3>1. \A m \in Indexes(rows) : At(m) \in Indexes(rows) /\ rows'[m + 1] = rows[At(m) + 1]
      BY <1>4
    <3>2. \A k, l \in Indexes(rows) : At(k) = At(l) => k = l
      OBVIOUS
    <3> HIDE DEF At
    <3> QED BY <1>2, <1>4, <3>1, <3>2 DEF Distinct
  <2>2. \A k \in Indexes(rows') : rows'[k + 1] \in 1 .. named
    BY <1>2, <1>4
  <2>3. Named(rows', named)
    BY <1>2, <1>4, <2>1, <2>2 DEF Named
  <2> QED BY <1>1, <1>2, <2>3 DEF RowsOK
<1>6. Marked(d.modifications, Current.dirty, rows')
  <2>1. d.modifications = SwapMarks(c.modifications, i, j)
    BY <1>2, ModsOfSwap
  <2> DEFINE mods == c.modifications
  <2> HIDE DEF d, mods
  <2>2. Marked(SwapMarks(mods, i, j), Current.dirty, Swapped(rows, i, j))
    BY <1>2, <1>3, MarkedSwap DEF mods
  <2> QED BY <1>1, <2>1, <2>2 DEF mods
<1>7. moveInfo => d \in Changes /\ Tracks(d.deletions, d.insertions, d.mapping, rows', f)
  <2>1. d = Swap(c, i, j)
    OBVIOUS
  <2> HIDE DEF c, d, f
  <2> QED BY <1>1, <1>2, <2>1, SwapTracks
<1>8. Current.dirty \subseteq 1 .. named' /\ named <= named'
  BY <1>1, <1>2
<1> HIDE DEF d, c, f
<1> QED BY <1>1, <1>5, <1>6, <1>7, <1>8, TrackedStep DEF f

LEMMA MergeRowsIInv ==
    ASSUME IInv, NEW i \in Indexes(rows), NEW j \in Indexes(rows), MergeRows(i, j) PROVE IInv'
<1> DEFINE c == Current.change
           last == Len(rows) - 1
           e == Subsume(c, i, j)
           d == MoveOver(e, i, last)
           f == Current.from
           q == [rows EXCEPT ![j + 1] = rows[i + 1]]
           dy == IF rows[j + 1] \in Current.dirty THEN Current.dirty \cup {rows[i + 1]} ELSE Current.dirty
<1>1. /\ ~final /\ UNCHANGED <<final, moveInfo, named>> /\ i # j
      /\ rows[j + 1] \notin ToSet(f)
      /\ rows' = MovedOver(q, i) /\ infos' = WithCurrent(Tracked(d), dy)
  BY DEF MergeRows, Parse
<1>2. /\ named \in Nat /\ rows \in Seq(Nat) /\ Distinct(rows) /\ Len(rows) <= MaxRows
      /\ \A k \in Indexes(rows) : rows[k + 1] \in 1 .. named
      /\ c \in Changes /\ f \in Seq(Nat)
      /\ Current.dirty \subseteq 1 .. named
      /\ Marked(c.modifications, Current.dirty, rows)
      /\ moveInfo => Tracks(c.deletions, c.insertions, c.mapping, rows, f)
  BY <1>1, Parsing
<1>3. /\ q \in Seq(Nat) /\ Len(q) = Len(rows) /\ Indexes(q) = Indexes(rows)
      /\ q[j + 1] = rows[i + 1] /\ \A k \in Indexes(rows) \ {j} : q[k + 1] = rows[k + 1]
  <2>1. \A k \in Indexes(rows) : k \in Nat /\ k + 1 \in 1 .. Len(rows)
    BY <1>2 DEF Indexes
  <2>2. rows[i + 1] \in Nat
    BY <1>2, <2>1
  <2> QED BY <1>2, <2>1, <2>2, SMTT(30) DEF Indexes
<1>4. RowsOK'
  <2>1. \A k \in Indexes(q) : q[k + 1] \in 1 .. named
    BY <1>2, <1>3
  <2>2. \A k, l \in Indexes(q) \ {i} : q[k + 1] = q[l + 1] => k = l
    BY <1>2, <1>3 DEF Distinct
  <2> HIDE DEF q
  <2>3. Named(MovedOver(q, i), named)
    BY <1>2, <1>3, <2>1, <2>2, MovedOverNamed
  <2> QED BY <1>1, <1>2, <2>3 DEF RowsOK
<1>5. Marked(d.modifications, dy, rows')
  <2> DEFINE mods == c.modifications
             mid == IF i \in mods THEN mods \cup {j} ELSE mods
             new == IF i = last THEN mid \ {i} ELSE FollowMoveOver(mid, i, last)
  <2>1. e.modifications = mid /\ "modifications" \in DOMAIN e
    BY <1>2 DEF Subsume, Changes
  <2> HIDE DEF e, mid, last
  <2>2. d.modifications = new
    <3>1. d.modifications = IF i = last THEN e.modifications \ {i} ELSE FollowMoveOver(e.modifications, i, last)
      BY <2>1, ModsOfMoveOver
    <3> QED BY <2>1, <3>1
  <2>3. MarkedBut(mid, dy, q, {i})
    <3>1. /\ Marked(mods, Current.dirty, rows)
          /\ mid = IF i \in mods THEN mods \cup {j} ELSE mods
          /\ dy = IF rows[j + 1] \in Current.dirty THEN Current.dirty \cup {rows[i + 1]} ELSE Current.dirty
      BY <1>2 DEF mid
    <3> HIDE DEF mods, dy
    <3> QED BY <1>1, <1>2, <3>1, MarkedSubsume
  <2>4. last = Len(q) - 1 /\ new = IF i = last THEN mid \ {i} ELSE FollowMoveOver(mid, i, last)
    BY <1>3 DEF last
  <2> HIDE DEF mods, new, d, q, dy
  <2>5. i \in Indexes(q)
    BY <1>3
  <2>6. Marked(new, dy, MovedOver(q, i))
    BY <1>3, <2>3, <2>4, <2>5, MarkedMoveOver
  <2> QED BY <1>1, <2>2, <2>6
<1>6. moveInfo => d \in Changes /\ Tracks(d.deletions, d.insertions, d.mapping, rows', f)
  <2> SUFFICES ASSUME moveInfo PROVE d \in Changes /\ Tracks(d.deletions, d.insertions, d.mapping, rows', f)
    OBVIOUS
  <2>1. Tracks(c.deletions, c.insertions, c.mapping, rows, f)
    BY <1>2
  <2>2. \A l \in Indexes(f) : f[l + 1] # rows[j + 1]
    <3>1. \A l \in Indexes(f) : l + 1 \in DOMAIN f
      BY <1>2 DEF Indexes
    <3> QED BY <1>1, <3>1 DEF ToSet
  <2>3. e = Subsume(c, i, j)
    OBVIOUS
  <2>4. d = MoveOver(e, i, last) /\ last = Len(q) - 1
    BY <1>3
  <2> HIDE DEF c, f, e, d, last
  <2>5. /\ e \in Changes
        /\ TracksBut(e.deletions, e.insertions, e.mapping, [rows EXCEPT ![j + 1] = rows[i + 1]], f, {i})
    BY <1>1, <1>2, <2>1, <2>2, <2>3, SubsumeTracks
  <2>6. TracksBut(e.deletions, e.insertions, e.mapping, q, f, {i}) /\ i \in Indexes(q)
    BY <1>3, <2>5
  <2> HIDE DEF q
  <2>7. d \in Changes
    BY <1>2, <1>3, <2>4, <2>5, <2>6, MoveOverFields
  <2>8. d = MoveOver(e, i, Len(q) - 1)
    BY <2>4
  <2>9. Tracks(d.deletions, d.insertions, d.mapping, MovedOver(q, i), f)
    BY <1>2, <1>3, <2>5, <2>6, <2>8, MoveOverTracks
  <2> QED BY <1>1, <2>7, <2>9
<1>7. dy \subseteq 1 .. named' /\ named <= named'
  BY <1>1, <1>2
<1> HIDE DEF d, c, f, dy, e, q, last
<1> QED BY <1>1, <1>4, <1>5, <1>6, <1>7, TrackedStep DEF f

LEMMA ClearTableIInv == ASSUME IInv, ClearTable PROVE IInv'
<1> DEFINE c == Current.change
           x == Clear(c, Npos)
           f == Current.from
<1>1. /\ ~final /\ UNCHANGED <<final, moveInfo, named>> /\ rows' = <<>>
      /\ infos' = WithCurrent(x, Current.dirty)
  BY DEF ClearTable, Parse
<1>2. /\ named \in Nat /\ c \in Changes /\ f \in Seq(Nat) /\ Len(f) <= MaxRows
      /\ Current.dirty \subseteq 1 .. named
  BY <1>1, Parsing
<1>3. Len(f) <= Npos
  BY <1>2, BoundsAssumption, NposAssumption
<1>4. x \in Changes /\ Tracks(x.deletions, x.insertions, x.mapping, rows', f)
  <2> HIDE DEF c, f
  <2> QED BY <1>1, <1>2, <1>3, ClearTracks
<1>5. Marked(x.modifications, Current.dirty, rows')
  <2>1. x.modifications = {}
    BY DEF Clear, NoChanges
  <2>2. Indexes(rows') = {}
    BY <1>1 DEF Indexes
  <2> QED BY <2>1, <2>2 DEF Marked, MarkedBut
<1>6. RowsOK'
  <2>1. rows' \in Seq(Nat) /\ Len(rows') = 0 /\ Indexes(rows') = {}
    BY <1>1 DEF Indexes
  <2>2. Len(rows') <= MaxRows
    BY <2>1, BoundsAssumption
  <2> QED BY <1>1, <1>2, <2>1, <2>2 DEF RowsOK, Named, Distinct
<1>7. Current.dirty \subseteq 1 .. named' /\ named <= named'
  BY <1>1, <1>2
<1> HIDE DEF c, x, f
<1> QED BY <1>1, <1>4, <1>5, <1>6, <1>7, ParseStep DEF f

(* The last change info is combined with nothing. *)
LEMMA CombinedLast ==
    ASSUME NEW s, s \in Seq(ToSet(s)), Len(s) >= 1,
           {"from", "change", "dirty"} \subseteq DOMAIN s[Len(s)],
           NEW t, t = Combined(s)
    PROVE  /\ t \in Seq(ToSet(t)) /\ Len(t) = Len(s)
           /\ t[Len(s)].change = s[Len(s)].change /\ t[Len(s)].dirty = s[Len(s)].dirty
           /\ t[Len(s)].from = s[Len(s)].from
<1> DEFINE N == Len(s)
           At(k) == s[N - k].change
           Upto(m, g) == g = [n \in 0 .. m |-> IF n = 0 THEN At(n) ELSE Merge(At(n), g[n - 1])]
           M == CHOOSE g : Upto(N - 1, g)
           S == {m \in 0 .. N - 1 : \E g : Upto(m, g)}
<1>1. N \in Nat /\ N >= 1 /\ N - 1 \in Nat /\ DOMAIN s = 1 .. N
  OBVIOUS
<1>2. t = [k \in DOMAIN s |->
            [s[k] EXCEPT !.change = M[N - k], !.dirty = UNION {s[n].dirty : n \in k .. N}]]
  BY DEF Combined
<1> HIDE DEF At
<1>3. 0 \in S
  <2> DEFINE g == [n \in 0 .. 0 |-> At(0)]
  <2>1. g = [n \in 0 .. 0 |-> IF n = 0 THEN At(n) ELSE Merge(At(n), g[n - 1])]
    OBVIOUS
  <2>2. \E h : Upto(0, h)
    BY <2>1
  <2> HIDE DEF Upto, N
  <2> QED BY <1>1, <2>2
<1>4. ASSUME NEW m \in 0 .. (N - 1) - 1, m \in S PROVE m + 1 \in S
  <2>1. PICK g : Upto(m, g)
    BY <1>4
  <2>2. m \in Nat /\ m + 1 \in 0 .. N - 1
    BY <1>1
  <2> DEFINE h == [k \in 0 .. m + 1 |-> IF k = m + 1 THEN Merge(At(m + 1), g[m]) ELSE g[k]]
  <2>3. ASSUME NEW k \in 0 .. m + 1
        PROVE  h[k] = IF k = 0 THEN At(k) ELSE Merge(At(k), h[k - 1])
    <3>1. CASE k = m + 1
      <4>1. k # 0 /\ k - 1 = m /\ m \in 0 .. m + 1 /\ m # m + 1
        BY <2>2, <3>1
      <4>2. h[k - 1] = g[m]
        BY <4>1
      <4> QED BY <3>1, <4>1, <4>2
    <3>2. CASE k # m + 1
      <4>1. k \in 0 .. m /\ h[k] = g[k]
        BY <2>2, <3>2
      <4>2. g[k] = IF k = 0 THEN At(k) ELSE Merge(At(k), g[k - 1])
        BY <2>1, <4>1
      <4>3. k # 0 => k - 1 \in 0 .. m + 1 /\ k - 1 # m + 1
        BY <2>2, <4>1
      <4>4. k # 0 => h[k - 1] = g[k - 1]
        BY <4>3
      <4> QED BY <4>1, <4>2, <4>4
    <3> QED BY <3>1, <3>2
  <2>4. Upto(m + 1, h)
    <3>1. h = [k \in 0 .. m + 1 |-> h[k]]
      OBVIOUS
    <3> HIDE DEF h
    <3> QED BY <2>3, <3>1
  <2>5. \E g2 : Upto(m + 1, g2)
    <3> HIDE DEF Upto, h
    <3> QED BY <2>4
  <2> HIDE DEF Upto, N
  <2> QED BY <2>2, <2>5
<1>5. \A m \in 0 .. N - 1 : m \in S
  <2> DEFINE n == N - 1
  <2>1. n \in Nat /\ \A m \in 0 .. n - 1 : m \in S => m + 1 \in S
    BY <1>1, <1>4
  <2> HIDE DEF S, n
  <2>2. \A m \in 0 .. n : m \in S
    BY <1>3, <2>1, Induction
  <2> QED BY <2>2 DEF n
<1>6. \E g : Upto(N - 1, g)
  <2>1. N - 1 \in S
    BY <1>1, <1>5, SMTT(30)
  <2> HIDE DEF Upto
  <2> QED BY <2>1
<1>7. Upto(N - 1, M)
  <2> HIDE DEF Upto
  <2> QED BY <1>6
<1>8. M[0] = s[N].change
  <2>1. 0 \in 0 .. N - 1 /\ N - 0 = N
    BY <1>1
  <2> HIDE DEF M
  <2>2. M[0] = At(0)
    BY <1>7, <2>1
  <2> QED BY <2>1, <2>2 DEF At
<1> HIDE DEF M, N
<1>9. UNION {s[n].dirty : n \in N .. N} = s[N].dirty
  <2>1. N .. N = {N}
    BY <1>1
  <2> QED BY <2>1
<1>10. t[N] = [s[N] EXCEPT !.change = M[0], !.dirty = s[N].dirty]
  <2>1. N \in DOMAIN s /\ N - N = 0
    BY <1>1
  <2> QED BY <1>2, <1>9, <2>1
<1>11. t[N].change = s[N].change /\ t[N].dirty = s[N].dirty /\ t[N].from = s[N].from
  <2>1. {"from", "change", "dirty"} \subseteq DOMAIN s[N]
    BY DEF N
  <2> QED BY <1>8, <1>10, <2>1
<1>12. t \in Seq(ToSet(t)) /\ Len(t) = N
  <2> DEFINE New(k) == [s[k] EXCEPT !.change = M[N - k], !.dirty = UNION {s[n].dirty : n \in k .. N}]
             V == {New(k) : k \in 1 .. N}
  <2>1. t = [k \in 1 .. N |-> New(k)]
    BY <1>1, <1>2
  <2> HIDE DEF New
  <2>2. t \in [1 .. N -> V]
    BY <2>1
  <2> HIDE DEF V
  <2> QED BY <1>1, <2>2, FunctionIsSequence
<1> QED BY <1>11, <1>12 DEF N

(* The row a notifier looks for is found where it is now. *)
LEMMA RowsFound ==
    ASSUME RowsOK, NEW c \in Changes, NEW f \in Seq(Nat), Distinct(f),
           Tracks(c.deletions, c.insertions, c.mapping, rows, f), NEW e, Completes(c, e)
    PROVE  RowsNow(e, f) = RowsTrulyNow(f)
<1> DEFINE Where(id) == IF id \in ToSet(rows) THEN SelectInSeq(rows, LAMBDA r : r = id) - 1 ELSE Npos
<1>1. rows \in Seq(Nat) /\ Distinct(rows) /\ DOMAIN rows = 1 .. Len(rows) /\ Len(rows) \in Nat
  BY DEF RowsOK, Named
<1>2. ASSUME NEW k \in Indexes(rows), NEW id, rows[k + 1] = id PROVE Where(id) = k
  <2> DEFINE I == {m \in 1 .. Len(rows) : rows[m] = id}
  <2>1. k \in Nat /\ k + 1 \in 1 .. Len(rows)
    BY <1>1 DEF Indexes
  <2>2. ASSUME NEW m \in 1 .. Len(rows), rows[m] = id PROVE m = k + 1
    <3>1. m - 1 \in Indexes(rows) /\ (m - 1) + 1 = m
      BY <1>1 DEF Indexes
    <3>2. m - 1 = k
      BY <1>1, <1>2, <2>2, <3>1 DEF Distinct
    <3> QED BY <3>1, <3>2
  <2>3. I = {k + 1}
    BY <1>2, <2>1, <2>2
  <2>4. Min(I) = k + 1
    <3>1. \A x \in I : x = k + 1
      BY <2>3
    <3>2. k + 1 \in I /\ \A y \in I : k + 1 <= y
      BY <2>1, <2>3
    <3> HIDE DEF I
    <3> QED BY <3>1, <3>2 DEF Min
  <2>5. SelectInSeq(rows, LAMBDA r : r = id) = k + 1
    <3>1. I # {}
      BY <2>3
    <3>2. SelectInSeq(rows, LAMBDA r : r = id) = IF I # {} THEN Min(I) ELSE 0
      BY DEF SelectInSeq
    <3> HIDE DEF I
    <3> QED BY <2>4, <3>1, <3>2
  <2>6. id \in ToSet(rows)
    BY <1>1, <1>2, <2>1 DEF ToSet
  <2> QED BY <2>1, <2>5, <2>6
<1>3. ASSUME NEW id, \A k \in Indexes(rows) : rows[k + 1] # id PROVE Where(id) = Npos
  <2>1. id \notin ToSet(rows)
    <3> SUFFICES ASSUME NEW m \in 1 .. Len(rows), rows[m] = id PROVE FALSE
      BY <1>1 DEF ToSet
    <3>1. m - 1 \in Indexes(rows) /\ (m - 1) + 1 = m
      BY <1>1 DEF Indexes
    <3> QED BY <1>3, <3>1
  <2> QED BY <2>1
<1> HIDE DEF Where
<1>4. ASSUME NEW i \in Indexes(f) PROVE NewIndex(e, i) = Where(f[i + 1])
  <2>1. /\ \A k \in Indexes(rows) : rows[k + 1] = f[i + 1] => NewIndex(e, i) = k
        /\ (\A k \in Indexes(rows) : rows[k + 1] # f[i + 1]) => NewIndex(e, i) = Npos
    BY <1>1, NewIndexRight, SMTT(30)
  <2>2. CASE \E k \in Indexes(rows) : rows[k + 1] = f[i + 1]
    BY <1>2, <2>1, <2>2
  <2>3. CASE \A k \in Indexes(rows) : rows[k + 1] # f[i + 1]
    BY <1>3, <2>1, <2>3
  <2> QED BY <2>2, <2>3
<1>5. RowsNow(e, f) = {<<f[i + 1], Where(f[i + 1])>> : i \in Indexes(f)}
  BY <1>4 DEF RowsNow
<1>6. RowsTrulyNow(f) = {<<id, Where(id)>> : id \in ToSet(f)}
  BY DEF RowsTrulyNow, Where
<1>7. \A id : id \in ToSet(f) <=> \E i \in Indexes(f) : id = f[i + 1]
  <2>1. DOMAIN f = 1 .. Len(f) /\ Len(f) \in Nat
    OBVIOUS
  <2>2. \A i \in Indexes(f) : i + 1 \in DOMAIN f
    BY <2>1 DEF Indexes
  <2>3. \A m \in DOMAIN f : m - 1 \in Indexes(f) /\ (m - 1) + 1 = m
    BY <2>1 DEF Indexes
  <2> QED BY <2>2, <2>3 DEF ToSet
<1> QED BY <1>5, <1>6, <1>7

(* A change info that begins with the rows there are *)
LEMMA NewInfo ==
    ASSUME NEW r, NEW n \in Nat, Named(r, n)
    PROVE  Follows(Info(r), r, n) /\ Marked(Info(r).change.modifications, Info(r).dirty, r)
<1>1. r \in Seq(Nat)
  BY DEF Named
<1>2. NoChanges \in Changes /\ Tracks(NoChanges.deletions, NoChanges.insertions, NoChanges.mapping, r, r)
  BY <1>1, NothingTracks
<1> DEFINE e == Info(r)
<1>3. e \in Entries /\ e.from = r /\ e.change = NoChanges /\ e.dirty = {}
  BY <1>1, <1>2 DEF Info, Entries
<1> HIDE DEF e
<1>4. Follows(e, r, n)
  BY <1>2, <1>3 DEF Follows
<1>5. Marked(e.change.modifications, e.dirty, r)
  BY <1>3 DEF Marked, MarkedBut, NoChanges
<1> QED BY <1>4, <1>5 DEF e

LEMMA AdvanceIncrementalIInv == ASSUME IInv, AdvanceIncremental PROVE IInv'
<1> DEFINE x == ParseComplete(Current.change)
           y == [Current EXCEPT !.change = x, !.dirty = Current.dirty]
           s == [infos EXCEPT ![Len(infos)] = y]
           e == Info(rows)
<1>1. /\ ~final /\ UNCHANGED <<final, moveInfo, rows, named>> /\ Len(infos) < MaxSpans
      /\ infos' = Append(WithCurrent(x, Current.dirty), e)
  BY DEF AdvanceIncremental
<1>2. infos \in Seq(ToSet(infos)) /\ Len(infos) >= 1
  BY DEF IInv, InfosOK
<1>3. infos' = Append(s, e)
  <2>1. Len(infos) \in DOMAIN infos
    BY <1>2
  <2>2. WithCurrent(x, Current.dirty) = s
    BY <2>1 DEF WithCurrent, Current
  <2> QED BY <1>1, <2>2
<1> HIDE DEF y, e
<1>4. s \in Seq(ToSet(s)) /\ Len(s) = Len(infos)
  BY <1>2, SequenceWithLast
<1> HIDE DEF s
<1>5. infos' \in Seq(ToSet(infos')) /\ Len(infos') = Len(s) + 1 /\ infos'[Len(s) + 1] = e
  BY <1>3, <1>4, AppendSequence
<1>6. Current' = e
  BY <1>5 DEF Current
<1>7. InfosOK'
  <2>1. MaxSpans # 1
    BY <1>1, <1>2
  <2> QED BY <1>2, <1>4, <1>5, <2>1 DEF InfosOK
<1>8. RowsOK /\ named \in Nat /\ Named(rows, named) /\ {final, moveInfo} \subseteq BOOLEAN
  BY DEF IInv, RowsOK
<1>9. Follows(e, rows, named) /\ Marked(e.change.modifications, e.dirty, rows)
  BY <1>8, NewInfo DEF e
<1>10. Follows(Current, rows, named)'
  BY <1>1, <1>6, <1>9 DEF Follows
<1>11. Marked(Current.change.modifications, Current.dirty, rows)'
  BY <1>1, <1>6, <1>9
<1>12. RowsOK' /\ RowsAreTracked'
  BY <1>1, <1>8 DEF RowsOK, RowsAreTracked
<1> QED BY <1>1, <1>7, <1>8, <1>10, <1>11, <1>12 DEF IInv

LEMMA AdvanceToFinalIInv == ASSUME IInv, AdvanceToFinal PROVE IInv'
<1> DEFINE c == Current.change
           x == ParseComplete(c)
           y == [Current EXCEPT !.change = x, !.dirty = Current.dirty]
           n == Len(infos)
           s == [infos EXCEPT ![n] = y]
<1>1. /\ ~final /\ final' = TRUE /\ UNCHANGED <<moveInfo, rows, named>>
      /\ infos' = Combined(WithCurrent(x, Current.dirty))
  BY DEF AdvanceToFinal
<1>2. infos \in Seq(ToSet(infos)) /\ n >= 1 /\ (MaxSpans = 1 => n = 1)
  BY DEF IInv, InfosOK
<1>3. infos' = Combined(s)
  <2>1. Len(infos) \in DOMAIN infos
    BY <1>2
  <2>2. WithCurrent(x, Current.dirty) = s
    BY <2>1 DEF WithCurrent, Current
  <2> QED BY <1>1, <2>2
<1>4. Current \in Entries /\ c \in Changes
  BY <1>1 DEF IInv, Follows, Entries
<1>5. /\ {"from", "change", "dirty"} \subseteq DOMAIN y
      /\ y.from = Current.from /\ y.change = x /\ y.dirty = Current.dirty
  BY <1>4 DEF Entries
<1> HIDE DEF y, n
<1>6. s \in Seq(ToSet(s)) /\ Len(s) = n /\ s[n] = y
  BY <1>2, SequenceWithLast DEF n
<1> HIDE DEF s, x, c
<1>7. /\ infos' \in Seq(ToSet(infos')) /\ Len(infos') = n
      /\ infos'[n].change = x /\ infos'[n].dirty = Current.dirty /\ infos'[n].from = Current.from
  <2>1. Len(s) >= 1 /\ {"from", "change", "dirty"} \subseteq DOMAIN s[Len(s)]
    BY <1>2, <1>5, <1>6
  <2>2. /\ infos' \in Seq(ToSet(infos')) /\ Len(infos') = Len(s)
        /\ infos'[Len(s)].change = s[Len(s)].change /\ infos'[Len(s)].dirty = s[Len(s)].dirty
        /\ infos'[Len(s)].from = s[Len(s)].from
    BY <1>3, <1>6, <2>1, CombinedLast
  <2> QED BY <1>5, <1>6, <2>2
<1>8. Current'.change = x /\ Current'.dirty = Current.dirty /\ Current'.from = Current.from
  BY <1>7 DEF Current
<1>9. InfosOK'
  BY <1>2, <1>7 DEF InfosOK
<1>10. x.modifications = c.modifications
  BY <1>4 DEF x, ParseComplete, Changes
<1>11. Marked(Current.change.modifications, Current.dirty, rows)'
  <2>1. Marked(c.modifications, Current.dirty, rows)
    BY DEF IInv, c
  <2> QED BY <1>1, <1>8, <1>10, <2>1
<1>12. RowsOK /\ {final, moveInfo} \subseteq BOOLEAN
  BY DEF IInv
<1>13. moveInfo => RowsNow(x, Current.from) = RowsTrulyNow(Current.from)
  <2> SUFFICES ASSUME moveInfo PROVE RowsNow(x, Current.from) = RowsTrulyNow(Current.from)
    OBVIOUS
  <2> DEFINE f == Current.from
  <2>1. f \in Seq(Nat) /\ Distinct(f) /\ Tracks(c.deletions, c.insertions, c.mapping, rows, f)
    BY <1>1, Parsing DEF c
  <2>2. rows \in Seq(Nat) /\ Distinct(rows)
    BY <1>12 DEF RowsOK, Named
  <2> HIDE DEF f
  <2>3. Completes(c, x)
    BY <1>4, <2>1, <2>2, ParseCompletes DEF x
  <2>4. RowsNow(x, f) = RowsTrulyNow(f)
    BY <1>4, <1>12, <2>1, <2>3, RowsFound
  <2> QED BY <2>4 DEF f
<1>14. RowsAreTracked'
  <2>1. RowsTrulyNow(Current.from)' = RowsTrulyNow(Current'.from)
    BY <1>1 DEF RowsTrulyNow, SelectInSeq
  <2>2. RowsNow(Current.change, Current.from)' = RowsNow(x, Current.from)
    BY <1>8
  <2> QED BY <1>1, <1>8, <1>13, <2>1, <2>2 DEF RowsAreTracked
<1>15. RowsOK'
  BY <1>1, <1>12 DEF RowsOK
<1> QED BY <1>1, <1>9, <1>11, <1>12, <1>14, <1>15 DEF IInv

LEMMA NextPassIInv == ASSUME IInv, NextPass PROVE IInv'
<1> DEFINE n == Len(rows)
           e == Info(rows')
<1>1. /\ final' = FALSE /\ UNCHANGED moveInfo /\ rows' = Identity(n) /\ named' = n /\ infos' = <<e>>
  BY DEF NextPass
<1>2. n \in Nat /\ n <= MaxRows /\ {final, moveInfo} \subseteq BOOLEAN
  BY DEF IInv, RowsOK, Named
<1>3. rows' = [k \in 1 .. n |-> k]
  BY <1>1 DEF Identity
<1> HIDE DEF n, e
<1>4. rows' \in Seq(Nat) /\ Len(rows') = n /\ \A k \in 1 .. n : rows'[k] = k
  BY <1>2, <1>3
<1>5. Named(rows', n)
  BY <1>2, <1>4 DEF Named, Distinct, Indexes
<1>6. InfosOK' /\ Current' = e
  <2>1. DOMAIN infos' = {1} /\ infos'[1] = e /\ Len(infos') = 1
    BY <1>1
  <2>2. ToSet(infos') = {e}
    BY <2>1 DEF ToSet
  <2>3. infos' \in Seq({e})
    BY <1>1
  <2> QED BY <2>1, <2>2, <2>3 DEF InfosOK, Current
<1>7. Follows(e, rows', n) /\ Marked(e.change.modifications, e.dirty, rows')
  BY <1>2, <1>5, NewInfo DEF e
<1>8. Follows(Current, rows, named)'
  BY <1>1, <1>6, <1>7 DEF Follows
<1>9. Marked(Current.change.modifications, Current.dirty, rows)'
  BY <1>6, <1>7
<1>10. RowsOK' /\ RowsAreTracked'
  BY <1>1, <1>2, <1>5 DEF RowsOK, RowsAreTracked
<1> QED BY <1>1, <1>2, <1>6, <1>8, <1>9, <1>10 DEF IInv

LEMMA NextIInv == IInv /\ [Next]_vars => IInv'
<1> SUFFICES ASSUME IInv, [Next]_vars PROVE IInv'
  OBVIOUS
<1>1. CASE AddRow
  BY <1>1, AddRowIInv
<1>2. CASE ClearTable
  BY <1>2, ClearTableIInv
<1>3. ASSUME NEW i \in Indexes(rows), SetRow(i) PROVE IInv'
  BY <1>3, SetRowIInv
<1>4. ASSUME NEW i \in Indexes(rows), EraseRow(i) PROVE IInv'
  BY <1>4, EraseRowIInv
<1>5. ASSUME NEW i \in Indexes(rows), NEW j \in Indexes(rows), SwapRows(i, j) PROVE IInv'
  BY <1>5, SwapRowsIInv
<1>6. ASSUME NEW i \in Indexes(rows), NEW j \in Indexes(rows), MergeRows(i, j) PROVE IInv'
  BY <1>6, MergeRowsIInv
<1>7. CASE AdvanceIncremental
  BY <1>7, AdvanceIncrementalIInv
<1>8. CASE AdvanceToFinal
  BY <1>8, AdvanceToFinalIInv
<1>9. CASE NextPass
  BY <1>9, NextPassIInv
<1>10. CASE UNCHANGED vars
  <2>1. UNCHANGED <<rows, infos, named, final, moveInfo>>
    BY <1>10 DEF vars
  <2>2. Current' = Current
    BY <2>1 DEF Current
  <2>3. RowsAreTracked'
    <3>1. RowsAreTracked
      BY DEF IInv
    <3> QED BY <2>1, <2>2, <3>1 DEF RowsAreTracked, RowsTrulyNow, SelectInSeq
  <2>4. Follows(Current, rows, named)' <=> Follows(Current, rows, named)
    BY <2>1, <2>2 DEF Follows
  <2>5. RowsOK' /\ InfosOK'
    BY <2>1 DEF IInv, RowsOK, InfosOK
  <2>6. Marked(Current.change.modifications, Current.dirty, rows)'
    BY <2>1, <2>2 DEF IInv
  <2> QED BY <2>1, <2>3, <2>4, <2>5, <2>6 DEF IInv
<1> QED BY <1>1, <1>2, <1>3, <1>4, <1>5, <1>6, <1>7, <1>8, <1>9, <1>10 DEF Next

(* RowsAreTracked, for tables of any size and logs of any length: whatever is added,
   erased, swapped, merged and cleared, the finished change info of the notifiers that
   started last leads each of their rows to its index now, or to none when the row is
   gone. *)
THEOREM TableRowsTracked == Spec => []RowsAreTracked
<1>1. IInv => RowsAreTracked
  BY DEF IInv
<1> QED BY <1>1, InitIInv, NextIInv, PTL DEF Spec

LEMMA MarksFollow == IInv => (MaxSpans = 1 \/ ~moveInfo => ModifiedRowsAreMarked)
<1> SUFFICES ASSUME IInv, MaxSpans = 1 \/ ~moveInfo, NEW k \in DOMAIN infos, moveInfo \/ k = Len(infos)
             PROVE  LET marked == {rows[i + 1] : i \in infos[k].change.modifications \cap Indexes(rows)}
                        known == ToSet(infos[k].from) \cap ToSet(rows)
                    IN  marked \cap known = infos[k].dirty \cap known
  BY DEF ModifiedRowsAreMarked
<1>1. k = Len(infos)
  <2>1. infos \in Seq(ToSet(infos)) /\ (MaxSpans = 1 => Len(infos) = 1)
    BY DEF IInv, InfosOK
  <2>2. DOMAIN infos = 1 .. Len(infos)
    BY <2>1
  <2> QED BY <2>1, <2>2
<1>2. infos[k] = Current
  BY <1>1 DEF Current
<1> DEFINE mods == Current.change.modifications
           dirty == Current.dirty
<1>3. mods \subseteq Indexes(rows) /\ \A i \in Indexes(rows) : i \in mods <=> rows[i + 1] \in dirty
  BY DEF IInv, Marked, MarkedBut
<1>4. \A id \in ToSet(rows) : \E i \in Indexes(rows) : rows[i + 1] = id
  <2>1. rows \in Seq(Nat)
    BY DEF IInv, RowsOK, Named
  <2>2. \A m \in DOMAIN rows : m - 1 \in Indexes(rows) /\ (m - 1) + 1 = m
    BY <2>1 DEF Indexes
  <2> QED BY <2>2 DEF ToSet
<1> HIDE DEF mods, dirty
<1>5. \A id \in ToSet(rows) : id \in {rows[i + 1] : i \in mods \cap Indexes(rows)} <=> id \in dirty
  BY <1>3, <1>4
<1> QED BY <1>2, <1>5 DEF mods, dirty

(* ModifiedRowsAreMarked, for tables of any size and logs of any length, unless change
   infos with moves have to be merged: of the rows a notifier knows, the ones marked as
   modified are those that were changed since it last ran, however they were moved. *)
THEOREM TableMarksRight == Spec => [](MaxSpans = 1 \/ ~moveInfo => ModifiedRowsAreMarked)
BY InitIInv, NextIInv, MarksFollow, PTL DEF Spec

-----------------------------------------------------------------------------
(* Observed lists *)

Lists == [owner : Nat, row : Nat, info : Nat, skipped : BOOLEAN]

At(l, r) == l.row \in Indexes(r) /\ r[l.row + 1] = l.owner

(* Lists of rows in r, whose owners are among those in O *)
ListsIn(ls, r, O) ==
    /\ ls \in Seq(Lists)
    /\ \A k \in DOMAIN ls : ls[k].skipped \/ (At(ls[k], r) /\ ls[k].owner \in O)

(* While the log is parsed, the owners are rows the last change info began with. *)
Owners == IF final THEN Nat ELSE ToSet(Current.from)
LInv == ListsIn(lists, rows, Owners)

LEMMA InRows ==
    ASSUME NEW V, NEW r \in Seq(V), NEW id
    PROVE  id \in ToSet(r) <=> \E k \in Indexes(r) : r[k + 1] = id
<1>1. DOMAIN r = 1 .. Len(r) /\ Len(r) \in Nat
  OBVIOUS
<1>2. \A i \in Indexes(r) : i + 1 \in DOMAIN r
  BY <1>1 DEF Indexes
<1>3. \A m \in DOMAIN r : m - 1 \in Indexes(r) /\ (m - 1) + 1 = m
  BY <1>1 DEF Indexes
<1> QED BY <1>2, <1>3 DEF ToSet

LEMMA StartingLists ==
    ASSUME NEW r \in Seq(Nat), NEW info \in Nat, NEW others \in Nat, NEW ls \in Starting(r, info, others)
    PROVE  ListsIn(ls, r, ToSet(r))
<1> DEFINE L == {[owner |-> r[i + 1], row |-> i, info |-> info, skipped |-> FALSE] : i \in Indexes(r)}
<1>1. PICK m \in 0 .. MaxLists - others : ls \in [1 .. m -> L]
  BY DEF Starting
<1>2. \A i \in Indexes(r) : i \in Nat /\ r[i + 1] \in Nat
  BY DEF Indexes
<1>3. L \subseteq Lists
  <2> SUFFICES ASSUME NEW i \in Indexes(r)
               PROVE  [owner |-> r[i + 1], row |-> i, info |-> info, skipped |-> FALSE] \in Lists
    OBVIOUS
  <2>1. i \in Nat /\ r[i + 1] \in Nat
    BY <1>2
  <2> QED BY <2>1 DEF Lists
<1>4. \A l \in L : At(l, r) /\ l.owner \in ToSet(r)
  <2> SUFFICES ASSUME NEW i \in Indexes(r)
               PROVE  LET l == [owner |-> r[i + 1], row |-> i, info |-> info, skipped |-> FALSE]
                      IN  At(l, r) /\ l.owner \in ToSet(r)
    OBVIOUS
  <2> QED BY InRows DEF At
<1> HIDE DEF L
<1>5. ls \in [1 .. m -> Lists] /\ m \in Nat
  BY <1>1, <1>3
<1>6. ls \in Seq(Lists)
  BY <1>5, FunctionIsSequence
<1> QED BY <1>1, <1>4, <1>6 DEF ListsIn

-----------------------------------------------------------------------------
(* The loop of erase_rows: the lists up to i have been looked at, the others not yet. *)

Halfway(ls, i, q, r, O) ==
    /\ ls \in Seq(Lists)
    /\ \A k \in DOMAIN ls : \/ ls[k].skipped
                            \/ /\ ls[k].owner \in O
                               /\ At(ls[k], IF k <= i THEN q ELSE r)

EraseStep(l, i, row, last) ==
    IF i \in DOMAIN l /\ l[i].row = row THEN MovedOver(LastSkipped(l, row, last), i - 1)
    ELSE [k \in DOMAIN l |-> IF k = i /\ l[k].row = last THEN [l[k] EXCEPT !.row = row] ELSE l[k]]

(* A list elsewhere keeps its index. *)
LEMMA FollowsOver ==
    ASSUME NEW r \in Seq(Nat), NEW row \in Indexes(r), NEW last, last = Len(r) - 1,
           NEW l \in Lists, At(l, r), l.row # row
    PROVE  /\ l.row # last => At(l, MovedOver(r, row))
           /\ l.row = last => At([l EXCEPT !.row = row], MovedOver(r, row))
<1> DEFINE q == MovedOver(r, row)
           n == [l EXCEPT !.row = row]
<1>1. /\ q \in Seq(Nat) /\ Indexes(q) = Indexes(r) \ {last} /\ last \in Indexes(r)
      /\ \A k \in Indexes(r) \ {last} : q[k + 1] = IF k = row THEN r[last + 1] ELSE r[k + 1]
  <2>1. last + 1 = Len(r) /\ last \in Indexes(r)
    BY DEF Indexes
  <2> QED BY <2>1, MovedOverRows, SMTT(90)
<1>2. n.row = row /\ n.owner = l.owner
  BY DEF Lists
<1> HIDE DEF q, n
<1>3. l.row # last => At(l, q)
  BY <1>1 DEF At
<1>4. l.row = last => At(n, q)
  BY <1>1, <1>2 DEF At
<1> QED BY <1>3, <1>4 DEF q, n

LEMMA LastSkippedType ==
    ASSUME NEW ls \in Seq(Lists), ls # <<>>, NEW row, NEW last, NEW m, m = LastSkipped(ls, row, last)
    PROVE  /\ m \in Seq(Lists) /\ Len(m) = Len(ls) /\ DOMAIN m = DOMAIN ls
           /\ \A k \in DOMAIN ls : /\ m[k].owner = ls[k].owner /\ m[k].row = ls[k].row
                                   /\ k # Len(ls) => m[k] = ls[k]
           /\ m[Len(ls)].skipped <=> ls[Len(ls)].skipped \/ ls[Len(ls)].row \in {row, last}
<1> DEFINE n == Len(ls)
           b == ls[n].skipped \/ ls[n].row \in {row, last}
           e == [ls[n] EXCEPT !.skipped = b]
<1>1. n \in Nat /\ n >= 1 /\ n \in 1 .. n /\ DOMAIN ls = 1 .. n /\ ls[n] \in Lists
  OBVIOUS
<1>2. m = [ls EXCEPT ![n] = e]
  BY DEF LastSkipped, Last
<1>3. e \in Lists /\ e.owner = ls[n].owner /\ e.row = ls[n].row /\ (e.skipped <=> b)
  BY <1>1 DEF Lists
<1> HIDE DEF e, b
<1>4. m \in Seq(Lists) /\ Len(m) = n /\ DOMAIN m = 1 .. n /\ m[n] = e
      /\ \A k \in 1 .. n : k # n => m[k] = ls[k]
  <2>1. ls \in [1 .. n -> Lists]
    BY <1>1
  <2>2. m \in [1 .. n -> Lists] /\ m[n] = e /\ \A k \in 1 .. n : k # n => m[k] = ls[k]
    BY <1>1, <1>2, <1>3, <2>1
  <2> QED BY <1>1, <2>2, FunctionIsSequence
<1> QED BY <1>1, <1>3, <1>4 DEF b

(* One step of the loop, by its two cases; m is l with its last list marked *)
Stepped(l, i, row, last, m, new) ==
    /\ new \in Seq(Lists)
    /\ i \in DOMAIN l /\ l[i].row = row =>
          /\ Len(new) = Len(l) - 1
          /\ \A k \in DOMAIN new : /\ k \in DOMAIN l /\ k # Len(l)
                                   /\ new[k] = IF k = i THEN m[Len(l)] ELSE l[k]
    /\ ~(i \in DOMAIN l /\ l[i].row = row) =>
          /\ DOMAIN new = DOMAIN l
          /\ \A k \in DOMAIN l : new[k] = IF k = i /\ l[k].row = last
                                          THEN [l[k] EXCEPT !.row = row] ELSE l[k]

LEMMA EraseStepType ==
    ASSUME NEW l \in Seq(Lists), NEW i \in Nat \ {0}, NEW row \in Nat, NEW last,
           NEW new, new = EraseStep(l, i, row, last), NEW m, m = LastSkipped(l, row, last)
    PROVE  Stepped(l, i, row, last, m, new)
<1> DEFINE n == Len(l)
<1>1. n \in Nat /\ DOMAIN l = 1 .. n
  OBVIOUS
<1>2. CASE i \in DOMAIN l /\ l[i].row = row
  <2>1. l # <<>> /\ n >= 1 /\ n \in DOMAIN l /\ i \in 1 .. n
    BY <1>1, <1>2
  <2>2. /\ m \in Seq(Lists) /\ Len(m) = n /\ DOMAIN m = DOMAIN l
        /\ \A k \in DOMAIN l : k # n => m[k] = l[k]
    BY <2>1, LastSkippedType
  <2>3. new = MovedOver(m, i - 1)
    BY <1>2 DEF EraseStep
  <2>4. i - 1 \in Indexes(m)
    BY <2>1, <2>2 DEF Indexes
  <2>5. /\ new \in Seq(Lists) /\ Len(new) = n - 1
        /\ \A k \in Indexes(m) \ {n - 1} : new[k + 1] = IF k = i - 1 THEN m[n] ELSE m[k + 1]
    <3> DEFINE at == i - 1
               V == Lists
    <3>1. at \in Indexes(m) /\ m \in Seq(V) /\ new = MovedOver(m, at)
      BY <2>2, <2>3, <2>4
    <3> HIDE DEF at, V
    <3>2. /\ MovedOver(m, at) \in Seq(V) /\ Len(MovedOver(m, at)) = Len(m) - 1
          /\ \A k \in Indexes(m) \ {Len(m) - 1} :
                MovedOver(m, at)[k + 1] = IF k = at THEN m[Len(m)] ELSE m[k + 1]
      BY <3>1, MovedOverRows
    <3> QED BY <2>2, <3>1, <3>2 DEF at, V
  <2>6. ASSUME NEW k \in DOMAIN new
        PROVE  k \in DOMAIN l /\ k # n /\ new[k] = IF k = i THEN m[n] ELSE l[k]
    <3>1. k \in 1 .. n - 1 /\ k \in Nat /\ k # n /\ k \in DOMAIN l
      BY <1>1, <2>5
    <3>2. k - 1 \in Indexes(m) \ {n - 1} /\ (k - 1) + 1 = k /\ (k - 1 = i - 1 <=> k = i)
      BY <1>1, <2>2, <3>1 DEF Indexes
    <3>3. new[k] = IF k = i THEN m[n] ELSE m[k]
      BY <2>5, <3>2
    <3> QED BY <2>2, <3>1, <3>3
  <2> QED BY <1>2, <2>5, <2>6 DEF Stepped
<1>3. CASE ~(i \in DOMAIN l /\ l[i].row = row)
  <2>1. new = [k \in DOMAIN l |-> IF k = i /\ l[k].row = last
                                  THEN [l[k] EXCEPT !.row = row] ELSE l[k]]
    BY <1>3 DEF EraseStep
  <2>2. ASSUME NEW k \in DOMAIN l PROVE l[k] \in Lists /\ [l[k] EXCEPT !.row = row] \in Lists
    <3>1. l[k] \in Lists
      OBVIOUS
    <3> QED BY <3>1 DEF Lists
  <2>3. new \in [1 .. n -> Lists]
    BY <1>1, <2>1, <2>2
  <2>4. new \in Seq(Lists)
    BY <1>1, <2>3, FunctionIsSequence
  <2> QED BY <1>3, <2>1, <2>4 DEF Stepped
<1> QED BY <1>2, <1>3

LEMMA EraseStepKeeps ==
    ASSUME NEW r \in Seq(Nat), NEW row \in Indexes(r), NEW last, last = Len(r) - 1, NEW O,
           NEW i \in Nat \ {0}, NEW l, Halfway(l, i - 1, MovedOver(r, row), r, O)
    PROVE  /\ Halfway(EraseStep(l, i, row, last), i, MovedOver(r, row), r, O)
           /\ Len(EraseStep(l, i, row, last)) <= Len(l)
<1> DEFINE q == MovedOver(r, row)
           new == EraseStep(l, i, row, last)
           n == Len(l)
<1> SUFFICES Halfway(new, i, q, r, O) /\ Len(new) <= n
  OBVIOUS
<1> HIDE DEF q
<1>1. l \in Seq(Lists) /\ n \in Nat /\ DOMAIN l = 1 .. n
  BY DEF Halfway
<1>2. ASSUME NEW k \in DOMAIN l, ~l[k].skipped
      PROVE  /\ l[k] \in Lists /\ l[k].owner \in O
             /\ k < i => At(l[k], q)
             /\ k >= i => At(l[k], r)
  <2>1. Halfway(l, i - 1, q, r, O)
    BY DEF q
  <2>2. k \in Nat /\ (k <= i - 1 <=> k < i) /\ (k < i <=> ~(k >= i))
    BY <1>1
  <2>3. l[k] \in Lists
    BY <1>1
  <2> QED BY <1>2, <2>1, <2>2, <2>3 DEF Halfway
<1>3. ASSUME NEW k \in DOMAIN l, ~l[k].skipped, k >= i, l[k].row # row
      PROVE  /\ l[k].row # last => At(l[k], q)
             /\ l[k].row = last => At([l[k] EXCEPT !.row = row], q)
  <2> DEFINE x == l[k]
  <2>1. x \in Lists /\ At(x, r) /\ x.row # row
    BY <1>2, <1>3
  <2> HIDE DEF x
  <2>2. /\ x.row # last => At(x, q)
        /\ x.row = last => At([x EXCEPT !.row = row], q)
    BY <2>1, FollowsOver DEF q
  <2> QED BY <2>2 DEF x
<1>4. row \in Nat
  BY DEF Indexes
<1> DEFINE m == LastSkipped(l, row, last)
<1>0. new = EraseStep(l, i, row, last) /\ m = LastSkipped(l, row, last)
  OBVIOUS
<1> HIDE DEF new, m
<1>5. /\ new \in Seq(Lists)
      /\ i \in DOMAIN l /\ l[i].row = row =>
            /\ Len(new) = n - 1
            /\ \A k \in DOMAIN new : /\ k \in DOMAIN l /\ k # n
                                     /\ new[k] = IF k = i THEN m[n] ELSE l[k]
      /\ ~(i \in DOMAIN l /\ l[i].row = row) =>
            /\ DOMAIN new = DOMAIN l
            /\ \A k \in DOMAIN l : new[k] = IF k = i /\ l[k].row = last
                                            THEN [l[k] EXCEPT !.row = row] ELSE l[k]
  <2>1. Stepped(l, i, row, last, m, new)
    BY <1>0, <1>1, <1>4, EraseStepType
  <2> QED BY <2>1 DEF Stepped
<1>6. CASE i \in DOMAIN l /\ l[i].row = row
  <2>1. l # <<>> /\ n >= 1 /\ n \in DOMAIN l /\ n >= i
    BY <1>1, <1>6
  <2>2. /\ m[n].owner = l[n].owner /\ m[n].row = l[n].row
        /\ m[n].skipped <=> l[n].skipped \/ l[n].row \in {row, last}
    BY <1>1, <2>1, LastSkippedType DEF m
  <2>3. ASSUME NEW k \in DOMAIN new, ~new[k].skipped
        PROVE  new[k].owner \in O /\ At(new[k], IF k <= i THEN q ELSE r)
    <3>1. k \in DOMAIN l /\ k \in Nat /\ new[k] = IF k = i THEN m[n] ELSE l[k]
      BY <1>1, <1>5, <1>6
    <3>2. CASE k = i
      <4>1. ~l[n].skipped /\ l[n].row # row /\ l[n].row # last
        BY <2>2, <2>3, <3>1, <3>2
      <4>2. l[n].owner \in O /\ At(l[n], q)
        BY <1>2, <1>3, <2>1, <4>1
      <4>3. At(m[n], q) /\ m[n].owner \in O
        BY <2>2, <4>2 DEF At
      <4>4. k <= i /\ new[k] = m[n]
        BY <3>1, <3>2
      <4> QED BY <4>3, <4>4
    <3>3. CASE k # i
      <4>1. new[k] = l[k] /\ ~l[k].skipped
        BY <2>3, <3>1, <3>3
      <4>2. (k < i /\ k <= i) \/ (k >= i /\ ~(k <= i))
        BY <3>1, <3>3
      <4> QED BY <1>2, <3>1, <4>1, <4>2
    <3> QED BY <3>2, <3>3
  <2> QED BY <1>1, <1>5, <1>6, <2>3 DEF Halfway
<1>7. CASE ~(i \in DOMAIN l /\ l[i].row = row)
  <2>1. ASSUME NEW k \in DOMAIN new, ~new[k].skipped
        PROVE  new[k].owner \in O /\ At(new[k], IF k <= i THEN q ELSE r)
    <3> DEFINE x == l[k]
    <3>1. k \in DOMAIN l /\ k \in Nat
          /\ new[k] = IF k = i /\ x.row = last THEN [x EXCEPT !.row = row] ELSE x
      <4>1. k \in DOMAIN l
        BY <1>5, <1>7
      <4>2. k \in Nat
        BY <1>1, <4>1
      <4> QED BY <1>5, <1>7, <4>1, <4>2
    <3>2. x \in Lists
      BY <1>1, <3>1
    <3>3. [x EXCEPT !.row = row].owner = x.owner /\ [x EXCEPT !.row = row].skipped = x.skipped
      BY <3>2 DEF Lists
    <3>4. ~l[k].skipped /\ new[k].owner = x.owner
      BY <2>1, <3>1, <3>3
    <3>5. x.owner \in O
      BY <1>2, <3>1, <3>4
    <3>6. CASE k = i
      <4>1. k >= i /\ k <= i /\ l[k].row # row
        BY <1>7, <3>1, <3>6
      <4>2. /\ x.row # last => At(x, q)
            /\ x.row = last => At([x EXCEPT !.row = row], q)
        BY <1>3, <3>1, <3>4, <4>1
      <4> HIDE DEF x
      <4>3. At(new[k], q)
        BY <3>1, <3>6, <4>2
      <4> QED BY <3>4, <3>5, <4>1, <4>3
    <3>7. CASE k # i
      <4>1. new[k] = l[k]
        BY <3>1, <3>7
      <4>2. (k < i /\ k <= i) \/ (k >= i /\ ~(k <= i))
        BY <3>1, <3>7
      <4> QED BY <1>2, <3>1, <3>4, <4>1, <4>2
    <3> QED BY <3>6, <3>7
  <2>2. Len(new) = n
    <3>1. new \in Seq(Lists) /\ DOMAIN new = DOMAIN l
      BY <1>5, <1>7
    <3>2. DOMAIN new = 1 .. n /\ DOMAIN new = 1 .. Len(new) /\ Len(new) \in Nat
      BY <1>1, <3>1
    <3> QED BY <1>1, <3>2
  <2>3. new \in Seq(Lists)
    BY <1>5
  <2> QED BY <1>1, <2>1, <2>2, <2>3 DEF Halfway
<1> QED BY <1>6, <1>7

LEMMA EraseKeeps ==
    ASSUME NEW r \in Seq(Nat), NEW row \in Indexes(r), NEW last, last = Len(r) - 1, NEW O,
           NEW ls, ListsIn(ls, r, O)
    PROVE  ListsIn(EraseFromLists(ls, row, last), MovedOver(r, row), O)
<1> DEFINE n == Len(ls)
           q == MovedOver(r, row)
           Body(g) == [i \in 0 .. n |-> IF i = 0 THEN ls ELSE EraseStep(g[i - 1], i, row, last)]
           M == CHOOSE g : g = Body(g)
           H(l, i) == Halfway(l, i, q, r, O) /\ Len(l) <= n
           Step(l, i) == EraseStep(l, i, row, last)
<1>1. n \in Nat /\ ls \in Seq(Lists) /\ DOMAIN ls = 1 .. n
  BY DEF ListsIn
<1>2. EraseFromLists(ls, row, last) = M[n]
  BY DEF EraseFromLists, EraseStep
<1>3. H(ls, 0)
  <2>1. \A k \in DOMAIN ls : ~(k <= 0)
    BY <1>1
  <2> QED BY <1>1, <2>1 DEF ListsIn, Halfway
<1>4. \A i \in 1 .. n : \A l : H(l, i - 1) => H(Step(l, i), i)
  <2> SUFFICES ASSUME NEW i \in 1 .. n, NEW l, H(l, i - 1) PROVE H(Step(l, i), i)
    OBVIOUS
  <2>1. i \in Nat \ {0}
    OBVIOUS
  <2>2. Halfway(Step(l, i), i, q, r, O) /\ Len(Step(l, i)) <= Len(l)
    BY <2>1, EraseStepKeeps
  <2>3. Step(l, i) \in Seq(Lists) /\ l \in Seq(Lists)
    BY <2>2 DEF Halfway
  <2> HIDE DEF Step
  <2> QED BY <1>1, <2>2, <2>3
<1>5. PICK g : g = Body(g)
  <2> DEFINE F == [i \in 1 .. n |-> [l \in Seq(Lists) |-> Step(l, i)]]
  <2>1. ASSUME NEW i \in 1 .. n, NEW l \in Seq(Lists) PROVE Step(l, i) \in Seq(Lists)
    <3>1. i \in Nat \ {0} /\ row \in Nat
      BY DEF Indexes
    <3>2. Stepped(l, i, row, last, LastSkipped(l, row, last), Step(l, i))
      BY <3>1, EraseStepType
    <3> QED BY <3>2 DEF Stepped
  <2>2. F \in [1 .. n -> [Seq(Lists) -> Seq(Lists)]]
    <3> HIDE DEF Step
    <3> QED BY <2>1
  <2>3. PICK g \in [0 .. n -> Seq(Lists)] : Unfolds(g, ls, F, n)
    <3> HIDE DEF F
    <3> QED BY <1>1, <2>2, Recursion
  <2>4. \A i \in 0 .. n : g[i] = IF i = 0 THEN ls ELSE Step(g[i - 1], i)
    <3> SUFFICES ASSUME NEW i \in 0 .. n, i # 0 PROVE g[i] = Step(g[i - 1], i)
      BY <2>3 DEF Unfolds
    <3>1. i \in 1 .. n /\ g[i - 1] \in Seq(Lists)
      BY <2>3
    <3> HIDE DEF Step
    <3> QED BY <2>3, <3>1 DEF Unfolds
  <2>5. g = Body(g)
    <3> HIDE DEF Step
    <3>1. g = [i \in 0 .. n |-> g[i]]
      BY <2>3
    <3> QED BY <2>4, <3>1 DEF Step
  <2> QED BY <2>5
<1>6. M = Body(M)
  <2> HIDE DEF Body
  <2> QED BY <1>5
<1>7. M[0] = ls /\ \A i \in 1 .. n : M[i] = Step(M[i - 1], i)
  <2>1. \A i \in 0 .. n : M[i] = IF i = 0 THEN ls ELSE Step(M[i - 1], i)
    <3> HIDE DEF M
    <3> QED BY <1>6
  <2> HIDE DEF M, Step
  <2> QED BY <1>1, <2>1
<1> HIDE DEF M, H, Step
<1>8. \A i \in 0 .. n : H(M[i], i)
  <2> DEFINE S == {i \in 0 .. n : H(M[i], i)}
  <2>1. 0 \in S
    BY <1>1, <1>3, <1>7
  <2>2. ASSUME NEW i \in 0 .. n - 1, i \in S PROVE i + 1 \in S
    <3>1. i + 1 \in 1 .. n /\ i + 1 \in 0 .. n /\ (i + 1) - 1 = i
      BY <1>1
    <3>2. M[i + 1] = Step(M[i], i + 1)
      BY <1>7, <3>1
    <3> QED BY <1>4, <2>2, <3>1, <3>2
  <2>3. \A i \in 0 .. n : i \in S
    <3> HIDE DEF S
    <3> QED BY <1>1, <2>1, <2>2, Induction
  <2> QED BY <2>3
<1>9. H(M[n], n)
  BY <1>1, <1>8
<1>10. ListsIn(M[n], q, O)
  <2>1. Halfway(M[n], n, q, r, O) /\ Len(M[n]) <= n
    BY <1>9 DEF H
  <2>2. \A k \in DOMAIN M[n] : k <= n
    BY <1>1, <2>1 DEF Halfway
  <2> QED BY <2>1, <2>2 DEF Halfway, ListsIn
<1> QED BY <1>2, <1>10

-----------------------------------------------------------------------------
(* Every list is given another row, its owner stays. *)
Renamed(ls, F, new) ==
    /\ new \in Seq(Lists) /\ DOMAIN new = DOMAIN ls
    /\ \A k \in DOMAIN ls : /\ new[k].owner = ls[k].owner /\ new[k].row = F[ls[k].row]
                            /\ new[k].skipped = ls[k].skipped /\ ls[k].row \in Nat

LEMMA ReindexedLists ==
    ASSUME NEW ls, NEW r, NEW O, ListsIn(ls, r, O), NEW F \in [Nat -> Nat],
           NEW new, new = [k \in DOMAIN ls |-> [ls[k] EXCEPT !.row = F[@]]]
    PROVE  Renamed(ls, F, new)
<1> DEFINE m == Len(ls)
<1>1. m \in Nat /\ DOMAIN ls = 1 .. m /\ ls \in [1 .. m -> Lists]
  BY DEF ListsIn
<1> HIDE DEF m
<1>2. ASSUME NEW k \in 1 .. m
      PROVE  /\ new[k] \in Lists /\ new[k].owner = ls[k].owner /\ new[k].row = F[ls[k].row]
             /\ new[k].skipped = ls[k].skipped /\ ls[k].row \in Nat
  <2>1. new[k] = [ls[k] EXCEPT !.row = F[@]] /\ ls[k] \in Lists
    BY <1>1
  <2> QED BY <2>1 DEF Lists
<1>3. new \in [1 .. m -> Lists]
  BY <1>1, <1>2
<1>4. new \in Seq(Lists)
  BY <1>1, <1>3, FunctionIsSequence
<1> QED BY <1>1, <1>2, <1>3, <1>4 DEF Renamed

LEMMA ListRow == ASSUME NEW ls \in Seq(Lists), NEW k \in DOMAIN ls PROVE ls[k].row \in Nat
<1>1. ls[k] \in Lists
  OBVIOUS
<1> QED BY <1>1 DEF Lists

LEMMA SwapRowsLInv ==
    ASSUME IInv, LInv, NEW i \in Indexes(rows), NEW j \in Indexes(rows), SwapRows(i, j)
    PROVE  ListsIn(lists', rows', ToSet(Current.from))
<1> DEFINE F == [r \in Nat |-> CASE r = i -> j [] r = j -> i [] OTHER -> r]
           O == ToSet(Current.from)
<1>1. /\ ~final /\ i < j /\ rows' = Swapped(rows, i, j)
      /\ lists' = Reindexed(lists, LAMBDA r : CASE r = i -> j [] r = j -> i [] OTHER -> r)
  BY DEF SwapRows, Parse, Swapped
<1>2. rows \in Seq(Nat) /\ i \in Nat /\ j \in Nat /\ i # j
  BY <1>1 DEF IInv, RowsOK, Named, Indexes
<1>3. F \in [Nat -> Nat] /\ F[i] = j /\ F[j] = i /\ \A r \in Nat \ {i, j} : F[r] = r
  BY <1>2
<1> HIDE DEF O
<1>4. ListsIn(lists, rows, O)
  BY <1>1 DEF LInv, Owners, O
<1>5. lists \in Seq(Lists) /\ \A k \in DOMAIN lists : lists[k].row \in Nat
  BY <1>4, ListRow DEF ListsIn
<1>6. lists' = [k \in DOMAIN lists |-> [lists[k] EXCEPT !.row = F[@]]]
  BY <1>1, <1>5 DEF Reindexed
<1> HIDE DEF F
<1> DEFINE new == lists'
<1>7. new = [k \in DOMAIN lists |-> [lists[k] EXCEPT !.row = F[@]]]
  BY <1>6
<1> HIDE DEF new
<1>8. /\ new \in Seq(Lists) /\ DOMAIN new = DOMAIN lists
      /\ \A k \in DOMAIN lists : /\ new[k].owner = lists[k].owner /\ new[k].row = F[lists[k].row]
                                 /\ new[k].skipped = lists[k].skipped /\ lists[k].row \in Nat
  <2>1. Renamed(lists, F, new)
    BY <1>3, <1>4, <1>7, ReindexedLists
  <2> QED BY <2>1 DEF Renamed
<1> DEFINE q == Swapped(rows, i, j)
<1>9. /\ q \in Seq(Nat) /\ Indexes(q) = Indexes(rows) /\ q[i + 1] = rows[j + 1] /\ q[j + 1] = rows[i + 1]
      /\ \A k \in Indexes(rows) \ {i, j} : q[k + 1] = rows[k + 1]
  BY <1>2, SwappedRows
<1> HIDE DEF q
<1>10. ASSUME NEW k \in DOMAIN new, ~new[k].skipped PROVE At(new[k], q) /\ new[k].owner \in O
  <2> DEFINE r == lists[k].row
  <2>1. /\ r \in Indexes(rows) /\ rows[r + 1] = lists[k].owner /\ lists[k].owner \in O
        /\ new[k].row = F[r] /\ new[k].owner = lists[k].owner /\ r \in Nat
    BY <1>4, <1>8, <1>10 DEF ListsIn, At
  <2> HIDE DEF r
  <2>2. CASE r = i
    BY <1>3, <1>9, <2>1, <2>2 DEF At
  <2>3. CASE r = j
    BY <1>3, <1>9, <2>1, <2>3 DEF At
  <2>4. CASE r \notin {i, j}
    BY <1>3, <1>9, <2>1, <2>4 DEF At
  <2> QED BY <2>2, <2>3, <2>4
<1>11. ListsIn(new, q, O)
  BY <1>8, <1>10 DEF ListsIn
<1> QED BY <1>1, <1>11 DEF new, q, O

(* The row merged into is new: no list is at it that is not skipped. *)
LEMMA MergeRowsLInv ==
    ASSUME IInv, LInv, NEW i \in Indexes(rows), NEW j \in Indexes(rows), MergeRows(i, j)
    PROVE  ListsIn(lists', rows', ToSet(Current.from))
<1> DEFINE F == [r \in Nat |-> IF r = i THEN j ELSE r]
           O == ToSet(Current.from)
           q == [rows EXCEPT ![j + 1] = rows[i + 1]]
           ls == Reindexed(lists, LAMBDA r : IF r = i THEN j ELSE r)
           last == Len(rows) - 1
<1>1. /\ ~final /\ i # j /\ rows' = MovedOver(q, i) /\ rows[j + 1] \notin O
      /\ lists' = EraseFromLists(ls, i, last)
  BY DEF MergeRows, Parse
<1>2. rows \in Seq(Nat) /\ i \in Nat /\ j \in Nat
  BY <1>1 DEF IInv, RowsOK, Named, Indexes
<1>3. F \in [Nat -> Nat] /\ F[i] = j /\ \A r \in Nat \ {i} : F[r] = r
  BY <1>2
<1> HIDE DEF O
<1>4. ListsIn(lists, rows, O)
  BY <1>1 DEF LInv, Owners, O
<1>5. lists \in Seq(Lists) /\ \A k \in DOMAIN lists : lists[k].row \in Nat
  BY <1>4, ListRow DEF ListsIn
<1>6. ls = [k \in DOMAIN lists |-> [lists[k] EXCEPT !.row = F[@]]]
  BY <1>5 DEF Reindexed
<1> HIDE DEF F, ls
<1>7. /\ ls \in Seq(Lists) /\ DOMAIN ls = DOMAIN lists
      /\ \A k \in DOMAIN lists : /\ ls[k].owner = lists[k].owner /\ ls[k].row = F[lists[k].row]
                                 /\ ls[k].skipped = lists[k].skipped /\ lists[k].row \in Nat
  <2>1. Renamed(lists, F, ls)
    BY <1>3, <1>4, <1>6, ReindexedLists
  <2> QED BY <2>1 DEF Renamed
<1>8. /\ q \in Seq(Nat) /\ Len(q) = Len(rows) /\ Indexes(q) = Indexes(rows)
      /\ q[j + 1] = rows[i + 1] /\ \A k \in Indexes(rows) \ {j} : q[k + 1] = rows[k + 1]
  <2>1. \A k \in Indexes(rows) : k \in Nat /\ k + 1 \in 1 .. Len(rows)
    BY <1>2 DEF Indexes
  <2>2. rows[i + 1] \in Nat
    BY <1>2, <2>1
  <2> QED BY <1>2, <2>1, <2>2, SMTT(30) DEF Indexes
<1> HIDE DEF q
<1>9. ASSUME NEW k \in DOMAIN ls, ~ls[k].skipped PROVE At(ls[k], q) /\ ls[k].owner \in O
  <2> DEFINE r == lists[k].row
  <2>1. /\ r \in Indexes(rows) /\ rows[r + 1] = lists[k].owner /\ lists[k].owner \in O
        /\ ls[k].row = F[r] /\ ls[k].owner = lists[k].owner /\ r \in Nat
    BY <1>4, <1>7, <1>9 DEF ListsIn, At
  <2>2. r # j
    BY <1>1, <2>1
  <2> HIDE DEF r
  <2>3. CASE r = i
    BY <1>3, <1>8, <2>1, <2>3 DEF At
  <2>4. CASE r # i
    BY <1>3, <1>8, <2>1, <2>2, <2>4 DEF At
  <2> QED BY <2>3, <2>4
<1>10. ListsIn(ls, q, O)
  BY <1>7, <1>9 DEF ListsIn
<1>11. i \in Indexes(q) /\ last = Len(q) - 1
  BY <1>8
<1> HIDE DEF last
<1>12. ListsIn(lists', MovedOver(q, i), O)
  BY <1>1, <1>8, <1>10, <1>11, EraseKeeps
<1> QED BY <1>1, <1>12 DEF O

(* While the log is parsed the current change info keeps the rows it began with. *)
LEMMA FromStays ==
    ASSUME IInv, ~final, NEW c, NEW d, infos' = WithCurrent(c, d)
    PROVE  Current'.from = Current.from
<1> DEFINE n == Len(infos)
           y == [Current EXCEPT !.change = c, !.dirty = d]
<1>1. infos \in Seq(ToSet(infos)) /\ n >= 1 /\ n \in DOMAIN infos
  BY DEF IInv, InfosOK
<1>2. infos' = [infos EXCEPT ![n] = y]
  BY <1>1 DEF WithCurrent, Current
<1>3. y.from = Current.from
  BY DEF IInv, Follows, Entries
<1> HIDE DEF y
<1>4. Len(infos') = n /\ infos'[n] = y
  BY <1>1, <1>2, SequenceWithLast
<1>5. Current' = y
  BY <1>4 DEF Current
<1> QED BY <1>3, <1>5

LEMMA InitLInv == Init => LInv
<1> SUFFICES ASSUME Init PROVE LInv
  OBVIOUS
<1>1. lists \in Starting(rows, 1, 0) /\ infos = <<Info(rows)>> /\ final = FALSE
  BY DEF Init
<1>2. rows \in Seq(Nat)
  BY InitIInv DEF IInv, RowsOK, Named
<1>3. ListsIn(lists, rows, ToSet(rows))
  BY <1>1, <1>2, StartingLists
<1>4. Current.from = rows
  BY <1>1 DEF Current, Info
<1> QED BY <1>1, <1>3, <1>4 DEF LInv, Owners

LEMMA NextLInv == ASSUME IInv, IInv', LInv, [Next]_vars PROVE LInv'
<1> DEFINE O == ToSet(Current.from)
<1>1. rows \in Seq(Nat) /\ rows' \in Seq(Nat) /\ lists \in Seq(Lists)
  BY DEF LInv, ListsIn, IInv, RowsOK, Named
<1>2. ~final => ListsIn(lists, rows, O)
  BY DEF LInv, Owners
<1> HIDE DEF O
<1>3. ASSUME NEW c, NEW d, infos' = WithCurrent(c, d), ~final, ~final', ListsIn(lists', rows', O)
      PROVE  LInv'
  <2>1. Current'.from = Current.from
    BY <1>3, FromStays
  <2>2. Owners' = O
    BY <1>3, <2>1 DEF Owners, O
  <2> QED BY <1>3, <2>2 DEF LInv
<1>4. CASE AddRow
  <2>1. /\ ~final /\ ~final' /\ rows' = Append(rows, named') /\ lists' = lists
        /\ \E c, d : infos' = WithCurrent(c, d)
    BY <1>4 DEF AddRow, Parse
  <2>2. Indexes(rows) \subseteq Indexes(rows') /\ \A k \in Indexes(rows) : rows'[k + 1] = rows[k + 1]
    BY <1>1, <2>1 DEF Indexes
  <2>3. ListsIn(lists', rows', O)
    BY <1>2, <2>1, <2>2 DEF ListsIn, At
  <2> QED BY <1>3, <2>1, <2>3
<1>5. CASE ClearTable
  <2>1. /\ ~final /\ ~final' /\ lists' = <<>> /\ \E c, d : infos' = WithCurrent(c, d)
    BY <1>5 DEF ClearTable, Parse
  <2>2. ListsIn(lists', rows', O)
    BY <2>1 DEF ListsIn
  <2> QED BY <1>3, <2>1, <2>2
<1>6. ASSUME NEW i \in Indexes(rows), SetRow(i) PROVE LInv'
  <2>1. ~final /\ ~final' /\ UNCHANGED <<rows, lists>> /\ \E c, d : infos' = WithCurrent(c, d)
    BY <1>6 DEF SetRow, Parse
  <2> QED BY <1>2, <1>3, <2>1
<1>7. ASSUME NEW i \in Indexes(rows), EraseRow(i) PROVE LInv'
  <2> DEFINE last == Len(rows) - 1
  <2>1. /\ ~final /\ ~final' /\ rows' = MovedOver(rows, i) /\ lists' = EraseFromLists(lists, i, last)
        /\ \E c, d : infos' = WithCurrent(c, d)
    BY <1>7 DEF EraseRow, Parse
  <2>2. last = Len(rows) - 1
    OBVIOUS
  <2> HIDE DEF last
  <2>3. ListsIn(lists', rows', O)
    BY <1>1, <1>2, <2>1, <2>2, EraseKeeps
  <2> QED BY <1>3, <2>1, <2>3
<1>8. ASSUME NEW i \in Indexes(rows), NEW j \in Indexes(rows), SwapRows(i, j) PROVE LInv'
  <2>1. ~final /\ ~final' /\ \E c, d : infos' = WithCurrent(c, d)
    BY <1>8 DEF SwapRows, Parse
  <2>2. ListsIn(lists', rows', O)
    BY <1>8, SwapRowsLInv DEF O
  <2> QED BY <1>3, <2>1, <2>2
<1>9. ASSUME NEW i \in Indexes(rows), NEW j \in Indexes(rows), MergeRows(i, j) PROVE LInv'
  <2>1. ~final /\ ~final' /\ \E c, d : infos' = WithCurrent(c, d)
    BY <1>9 DEF MergeRows, Parse
  <2>2. ListsIn(lists', rows', O)
    BY <1>9, MergeRowsLInv DEF O
  <2> QED BY <1>3, <2>1, <2>2
<1>10. CASE AdvanceIncremental
  <2> DEFINE s == WithCurrent(ParseComplete(Current.change), Current.dirty)
             info == Len(infos) + 1
             others == Len(lists)
  <2>1. PICK ls \in Starting(rows, info, others) : lists' = lists \o ls
    BY <1>10 DEF AdvanceIncremental
  <2>2. ~final /\ ~final' /\ rows' = rows /\ infos' = Append(s, Info(rows))
    BY <1>10 DEF AdvanceIncremental
  <2>3. info \in Nat /\ others \in Nat
    BY <1>1 DEF IInv, InfosOK
  <2> HIDE DEF info, others
  <2>4. ListsIn(ls, rows, ToSet(rows))
    BY <1>1, <2>1, <2>3, StartingLists
  <2>5. Current'.from = rows
    <3>1. s \in Seq(ToSet(s))
      <4> DEFINE y == [infos[Len(infos)] EXCEPT !.change = ParseComplete(Current.change), !.dirty = Current.dirty]
      <4>1. infos \in Seq(ToSet(infos)) /\ Len(infos) >= 1 /\ Len(infos) \in DOMAIN infos
        BY DEF IInv, InfosOK
      <4>2. s = [infos EXCEPT ![Len(infos)] = y]
        BY <4>1 DEF WithCurrent
      <4> HIDE DEF y, s
      <4> QED BY <4>1, <4>2, SequenceWithLast
    <3> DEFINE e == Info(rows)
    <3> HIDE DEF s
    <3>2. e.from = rows
      BY DEF Info
    <3> HIDE DEF e
    <3>3. Len(Append(s, e)) = Len(s) + 1 /\ Append(s, e)[Len(s) + 1] = e
      BY <3>1, AppendSequence
    <3>4. Current' = e
      BY <2>2, <3>3 DEF Current, e
    <3> QED BY <3>2, <3>4
  <2>6. ASSUME NEW l \in Lists, At(l, rows) PROVE l.owner \in ToSet(rows)
    BY <1>1, <2>6, InRows DEF At
  <2>7. ListsIn(lists, rows, ToSet(rows))
    <3>1. \A k \in DOMAIN lists : lists[k] \in Lists
      BY <1>1
    <3> QED BY <1>2, <2>2, <2>6, <3>1 DEF ListsIn
  <2>8. ListsIn(lists', rows, ToSet(rows))
    <3> DEFINE all == lists \o ls
               n == Len(lists)
    <3>1. /\ ls \in Seq(Lists) /\ n \in Nat /\ DOMAIN lists = 1 .. n
          /\ DOMAIN ls = 1 .. Len(ls) /\ Len(ls) \in Nat
      BY <1>1, <2>4 DEF ListsIn
    <3>2. all \in Seq(Lists) /\ DOMAIN all = 1 .. n + Len(ls)
          /\ \A k \in 1 .. n + Len(ls) : all[k] = IF k <= n THEN lists[k] ELSE ls[k - n]
      BY <1>1, <3>1
    <3> HIDE DEF all
    <3>3. ASSUME NEW k \in DOMAIN all
          PROVE  all[k].skipped \/ (At(all[k], rows) /\ all[k].owner \in ToSet(rows))
      <4>1. CASE k <= n
        <5>1. k \in DOMAIN lists /\ all[k] = lists[k]
          BY <3>1, <3>2, <4>1
        <5> QED BY <2>7, <5>1 DEF ListsIn
      <4>2. CASE ~(k <= n)
        <5>1. k - n \in DOMAIN ls /\ all[k] = ls[k - n]
          BY <3>1, <3>2, <4>2
        <5> QED BY <2>4, <5>1 DEF ListsIn
      <4> QED BY <4>1, <4>2
    <3>4. ListsIn(all, rows, ToSet(rows))
      BY <3>2, <3>3 DEF ListsIn
    <3> QED BY <2>1, <3>4 DEF all
  <2> QED BY <2>2, <2>5, <2>8 DEF LInv, Owners
<1>11. CASE AdvanceToFinal
  <2>1. final' = TRUE /\ UNCHANGED <<rows, lists>>
    BY <1>11 DEF AdvanceToFinal
  <2>2. \A k \in DOMAIN lists : lists[k].owner \in Nat
    <3>1. \A k \in DOMAIN lists : lists[k] \in Lists
      BY <1>1
    <3> QED BY <3>1 DEF Lists
  <2>3. ListsIn(lists, rows, Nat)
    BY <2>2 DEF LInv, ListsIn
  <2> QED BY <2>1, <2>3 DEF LInv, Owners
<1>12. CASE NextPass
  <2>1. final' = FALSE /\ lists' \in Starting(rows', 1, 0) /\ infos' = <<Info(rows')>>
    BY <1>12 DEF NextPass
  <2>2. ListsIn(lists', rows', ToSet(rows'))
    BY <1>1, <2>1, StartingLists
  <2>3. Current'.from = rows'
    BY <2>1 DEF Current, Info
  <2> QED BY <2>1, <2>2, <2>3 DEF LInv, Owners
<1>13. CASE UNCHANGED vars
  BY <1>13 DEF LInv, Owners, Current, vars
<1> QED BY <1>4, <1>5, <1>6, <1>7, <1>8, <1>9, <1>10, <1>11, <1>12, <1>13 DEF Next

(* ListsFollowOwners, for tables and logs of any size and any number of observed lists:
   whichever rows are moved, merged and erased, and whichever lists are taken out of the
   middle of the others, a list is found under its owner's index unless erase_rows
   skipped it when it put it in the place of an erased one. *)
THEOREM TableListsFollow == Spec => []ListsFollowOwners
<1>1. Init => IInv /\ LInv
  BY InitIInv, InitLInv
<1>2. IInv /\ LInv /\ [Next]_vars => IInv' /\ LInv'
  BY NextIInv, NextLInv
<1>3. LInv => ListsFollowOwners
  BY DEF LInv, ListsIn, At, ListsFollowOwners
<1> QED BY <1>1, <1>2, <1>3, PTL DEF Spec
=============================================================================
