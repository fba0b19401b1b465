--------------------------- MODULE ListChangesProofs ---------------------------
(***************************************************************************)
(* For a list of any length and any number of instructions and runs: what  *)
(* the callback of a list is told is right.                                *)
(***************************************************************************)
EXTENDS ListChanges, FiniteSetTheorems, SequenceTheorems, WellFoundedInduction, TLAPS

-----------------------------------------------------------------------------
(* Induction and recursion *)

LEMMA LeastNumber ==
    ASSUME NEW T \in SUBSET Nat, T # {}
    PROVE  \E x \in T : \A y \in T : x <= y
<1>1. PICK x \in T : \A y \in T : ~(<<y, x>> \in OpToRel(<, Nat))
  BY WFMin, NatLessThanWellFounded
<1>2. ASSUME NEW y \in T PROVE x <= y
  <2>1. ~(y < x)
    BY <1>1 DEF OpToRel
  <2> QED BY <2>1
<1> QED BY <1>2

LEMMA Induction ==
    ASSUME NEW n \in Nat, NEW S, 0 \in S, \A k \in 0 .. n - 1 : k \in S => k + 1 \in S
    PROVE  \A k \in 0 .. n : k \in S
<1> DEFINE T == {k \in 0 .. n : k \notin S}
<1> SUFFICES ASSUME T # {} PROVE FALSE
  OBVIOUS
<1>1. T \in SUBSET Nat
  OBVIOUS
<1>2. PICK x \in T : \A y \in T : x <= y
  BY <1>1, LeastNumber
<1>3. x \in 0 .. n /\ x \notin S /\ x # 0
  BY <1>2
<1>4. x - 1 \in 0 .. n - 1 /\ x - 1 \in S
  BY <1>2, <1>3
<1>5. (x - 1) + 1 \in S
  BY <1>4
<1> QED BY <1>3, <1>5

(* g begins with b and its k-th step is F[k]. *)
Unfolds(g, b, F, n) == g[0] = b /\ \A k \in 1 .. n : g[k] = F[k][g[k - 1]]

(* A function may be defined from its value one step before. *)
LEMMA Recursion ==
    ASSUME NEW n \in Nat, NEW V, NEW b \in V, NEW F \in [1 .. n -> [V -> V]]
    PROVE  \E g \in [0 .. n -> V] : Unfolds(g, b, F, n)
<1> DEFINE Upto(m, g) == Unfolds(g, b, F, m)
           S == {m \in 0 .. n : \E g \in [0 .. m -> V] : Upto(m, g)}
<1>1. 0 \in S
  <2> DEFINE g == [k \in 0 .. 0 |-> b]
  <2>1. g \in [0 .. 0 -> V] /\ g[0] = b
    OBVIOUS
  <2>2. Upto(0, g)
    BY <2>1 DEF Unfolds
  <2>3. \E f \in [0 .. 0 -> V] : Upto(0, f)
    <3> HIDE DEF g, Upto
    <3> QED BY <2>1, <2>2
  <2> QED BY <2>3
<1>2. ASSUME NEW m \in 0 .. n - 1, m \in S PROVE m + 1 \in S
  <2>1. PICK g \in [0 .. m -> V] : Upto(m, g)
    BY <1>2
  <2> DEFINE h == [k \in 0 .. m + 1 |-> IF k = m + 1 THEN F[m + 1][g[m]] ELSE g[k]]
  <2>2. F[m + 1] \in [V -> V] /\ g[m] \in V
    BY <1>2
  <2>3. h \in [0 .. m + 1 -> V]
    BY <2>2
  <2>4. h[0] = b
    BY <2>1 DEF Unfolds
  <2>5. ASSUME NEW k \in 1 .. m + 1 PROVE h[k] = F[k][h[k - 1]]
    <3>1. k - 1 \in 0 .. m /\ h[k - 1] = g[k - 1]
      OBVIOUS
    <3>2. CASE k = m + 1
      BY <3>1, <3>2
    <3>3. CASE k # m + 1
      <4>1. k \in 1 .. m
        BY <3>3
      <4>2. g[k] = F[k][g[k - 1]]
        BY <2>1, <4>1 DEF Unfolds
      <4> QED BY <3>1, <4>1, <4>2
    <3> QED BY <3>2, <3>3
  <2>6. Upto(m + 1, h)
    <3> HIDE DEF h
    <3> QED BY <2>4, <2>5 DEF Unfolds
  <2>7. \E f \in [0 .. m + 1 -> V] : Upto(m + 1, f)
    <3> HIDE DEF h, Upto
    <3> QED BY <2>3, <2>6
  <2>8. m + 1 \in 0 .. n
    OBVIOUS
  <2> HIDE DEF Upto
  <2> QED BY <2>7, <2>8
<1>3. \A m \in 0 .. n : m \in S
  <2> HIDE DEF S
  <2> QED BY <1>1, <1>2, Induction
<1>4. \E g \in [0 .. n -> V] : Upto(n, g)
  <2> HIDE DEF Upto
  <2> QED BY <1>3
<1> QED BY <1>4

-----------------------------------------------------------------------------
(* IndexSet: the rank of an index among those that are not in a set *)

Below(S, k) == {i \in S : 0 <= i /\ i < k}

LEMMA BelowFinite ==
    ASSUME NEW S \in SUBSET Nat, NEW k \in Nat
    PROVE  /\ IsFiniteSet(Below(S, k)) /\ Cardinality(Below(S, k)) \in 0 .. k
           /\ Unshift(S, k) = k - Cardinality(Below(S, k))
<1>1. Below(S, k) \in SUBSET (0 .. k - 1)
  <2> SUFFICES ASSUME NEW i \in Below(S, k) PROVE i \in 0 .. k - 1
    OBVIOUS
  <2>1. i \in S /\ 0 <= i /\ i < k
    BY DEF Below
  <2>2. i \in Nat
    BY <2>1
  <2> QED BY <2>1, <2>2
<1>2. IsFiniteSet(0 .. k - 1) /\ Cardinality(0 .. k - 1) = k
  BY FS_Interval
<1>3. IsFiniteSet(Below(S, k)) /\ Cardinality(Below(S, k)) <= k
  BY <1>1, <1>2, FS_Subset
<1>4. Cardinality(Below(S, k)) \in Nat
  BY <1>3, FS_CardinalityType
<1> QED BY <1>3, <1>4 DEF Unshift, Count, Below

(* Going up, unshift never goes down, and goes up behind an index that is not in S. *)
LEMMA UnshiftGrows ==
    ASSUME NEW S \in SUBSET Nat, NEW j \in Nat, NEW k \in Nat, j < k
    PROVE  /\ Unshift(S, j) <= Unshift(S, k)
           /\ j \notin S => Unshift(S, j) < Unshift(S, k)
<1> DEFINE A == Below(S, j)
           B == S \cap (j .. k - 1)
<1>1. /\ IsFiniteSet(A) /\ Cardinality(A) \in 0 .. j /\ Unshift(S, j) = j - Cardinality(A)
      /\ Cardinality(Below(S, k)) \in 0 .. k /\ Unshift(S, k) = k - Cardinality(Below(S, k))
  BY BelowFinite
<1>2. Below(S, k) = A \cup B /\ A \cap B = {}
  <2>1. \A i \in S : i \in Nat
    OBVIOUS
  <2>2. \A i \in Nat : 0 <= i /\ (i < k <=> i < j \/ i \in j .. k - 1) /\ ~(i < j /\ i \in j .. k - 1)
    OBVIOUS
  <2>3. \A i : i \in Below(S, k) <=> i \in A \/ i \in B
    BY <2>1, <2>2 DEF Below
  <2>4. \A i : ~(i \in A /\ i \in B)
    BY <2>1, <2>2 DEF Below
  <2> QED BY <2>3, <2>4
<1>3. IsFiniteSet(j .. k - 1) /\ Cardinality(j .. k - 1) = k - j
  BY FS_Interval
<1>4. IsFiniteSet(B) /\ Cardinality(B) <= k - j /\ Cardinality(B) \in Nat
  <2>1. B \in SUBSET (j .. k - 1)
    OBVIOUS
  <2> QED BY <1>3, <2>1, FS_Subset, FS_CardinalityType
<1>5. j \notin S => Cardinality(B) <= k - j - 1
  <2> SUFFICES ASSUME j \notin S PROVE Cardinality(B) <= k - j - 1
    OBVIOUS
  <2>1. B \in SUBSET (j + 1 .. k - 1)
    OBVIOUS
  <2>2. IsFiniteSet(j + 1 .. k - 1) /\ Cardinality(j + 1 .. k - 1) = k - j - 1
    BY FS_Interval
  <2> QED BY <2>1, <2>2, FS_Subset
<1>6. Cardinality(Below(S, k)) = Cardinality(A) + Cardinality(B)
  <2>1. Cardinality(A \cup B) = Cardinality(A) + Cardinality(B) - Cardinality(A \cap B)
    BY <1>1, <1>4, FS_Union
  <2> HIDE DEF A, B
  <2>2. Cardinality(A \cap B) = 0
    BY <1>2, FS_EmptySet
  <2> QED BY <1>1, <1>2, <1>4, <2>1, <2>2
<1> HIDE DEF A, B
<1> QED BY <1>1, <1>4, <1>5, <1>6

(* shift undoes unshift. *)
LEMMA ShiftUnshift ==
    ASSUME NEW S \in SUBSET Nat, NEW T \in SUBSET Nat, NEW k \in Nat, k \notin S,
           \A j \in 0 .. k - 1 : j \in S <=> j \in T
    PROVE  Shift(S, Unshift(T, k)) = k
<1>1. Below(T, k) = Below(S, k)
  <2>1. \A i \in S \cup T : i \in Nat
    OBVIOUS
  <2>2. \A i \in Nat : i < k => i \in 0 .. k - 1
    OBVIOUS
  <2>3. \A i : i \in Below(T, k) <=> i \in Below(S, k)
    BY <2>1, <2>2 DEF Below
  <2> QED BY <2>3
<1>2. Unshift(T, k) = Unshift(S, k)
  BY <1>1, BelowFinite
<1>3. \A j \in S : Unshift(S, j) <= Unshift(S, k) <=> j < k
  <2> SUFFICES ASSUME NEW j \in S PROVE Unshift(S, j) <= Unshift(S, k) <=> j < k
    OBVIOUS
  <2>1. CASE j < k
    BY <2>1, UnshiftGrows
  <2>2. CASE k < j
    <3>1. Unshift(S, k) < Unshift(S, j)
      BY <2>2, UnshiftGrows
    <3>2. Unshift(S, k) \in Int /\ Unshift(S, j) \in Int
      BY BelowFinite
    <3> QED BY <2>2, <3>1, <3>2
  <2> QED BY <2>1, <2>2
<1>4. {j \in S : Unshift(S, j) <= Unshift(S, k)} = Below(S, k)
  <2>1. \A i \in S : i \in Nat /\ 0 <= i
    OBVIOUS
  <2> DEFINE Lower == {j \in S : Unshift(S, j) <= Unshift(S, k)}
  <2>2. \A i : i \in Lower <=> i \in Below(S, k)
    BY <1>3, <2>1 DEF Below
  <2> QED BY <2>2
<1>5. Shift(S, Unshift(S, k)) = Unshift(S, k) + Cardinality(Below(S, k))
  BY <1>4 DEF Shift
<1> QED BY <1>2, <1>5, BelowFinite

(* Unshift goes up by one or stays. *)
LEMMA UnshiftNext ==
    ASSUME NEW S \in SUBSET Nat, NEW k \in Nat
    PROVE  /\ Unshift(S, k) \in Nat /\ Unshift(S, 0) = 0
           /\ Unshift(S, k + 1) = IF k \in S THEN Unshift(S, k) ELSE Unshift(S, k) + 1
<1> DEFINE A == Below(S, k)
<1>1. /\ IsFiniteSet(A) /\ Cardinality(A) \in 0 .. k /\ Unshift(S, k) = k - Cardinality(A)
      /\ Cardinality(Below(S, k + 1)) \in 0 .. k + 1
      /\ Unshift(S, k + 1) = k + 1 - Cardinality(Below(S, k + 1))
      /\ Cardinality(Below(S, 0)) \in 0 .. 0 /\ Unshift(S, 0) = 0 - Cardinality(Below(S, 0))
  <2>1. k + 1 \in Nat /\ 0 \in Nat
    OBVIOUS
  <2> QED BY <2>1, BelowFinite
<1>2. k \notin A /\ \A i : i \in Below(S, k + 1) <=> i \in A \/ (i = k /\ k \in S)
  <2>1. \A i \in S : i \in Nat
    OBVIOUS
  <2>2. \A i \in Nat : 0 <= i /\ (i < k + 1 <=> i < k \/ i = k)
    OBVIOUS
  <2>3. k \notin A
    BY DEF Below
  <2>4. \A i : i \in Below(S, k + 1) <=> i \in S /\ (i < k \/ i = k)
    BY <2>1, <2>2 DEF Below
  <2>5. \A i : i \in A <=> i \in S /\ i < k
    BY <2>1, <2>2 DEF Below
  <2> HIDE DEF A
  <2> QED BY <2>3, <2>4, <2>5
<1>3. CASE k \in S
  <2>1. Below(S, k + 1) = A \cup {k}
    <3> HIDE DEF A
    <3> QED BY <1>2, <1>3
  <2> HIDE DEF A
  <2>2. Cardinality(A \cup {k}) = Cardinality(A) + 1
    BY <1>1, <1>2, FS_AddElement
  <2>3. Cardinality(Below(S, k + 1)) = Cardinality(A) + 1
    BY <2>1, <2>2
  <2> QED BY <1>1, <1>3, <2>3
<1>4. CASE k \notin S
  <2>1. Below(S, k + 1) = A
    BY <1>2, <1>4
  <2> QED BY <1>1, <1>4, <2>1
<1> QED BY <1>1, <1>3, <1>4

(* Of the indexes that are not in a finite set, there is one with any number of others
   before it. *)
LEMMA NthExists ==
    ASSUME NEW S \in SUBSET Nat, IsFiniteSet(S), NEW r \in Nat
    PROVE  \E j \in Nat : j \notin S /\ Unshift(S, j) = r
<1> DEFINE T == {j \in Nat : Unshift(S, j + 1) > r}
           n == Cardinality(S)
<1>1. n \in Nat
  BY FS_CardinalityType
<1> HIDE DEF n
<1>2. PICK x \in Nat : x = n + r
  BY <1>1
<1>3. Cardinality(Below(S, x + 1)) <= n /\ Cardinality(Below(S, x + 1)) \in Nat
  <2>1. Below(S, x + 1) \in SUBSET S
    BY DEF Below
  <2> QED BY <2>1, FS_Subset, FS_CardinalityType DEF n
<1>4. x \in T
  <2>1. Unshift(S, x + 1) = x + 1 - Cardinality(Below(S, x + 1))
    BY BelowFinite
  <2>2. Unshift(S, x + 1) > r
    BY <1>1, <1>2, <1>3, <2>1
  <2> QED BY <2>2
<1>5. PICK j \in T : \A y \in T : j <= y
  <2>1. T \in SUBSET Nat /\ T # {}
    BY <1>4
  <2> HIDE DEF T
  <2> QED BY <2>1, LeastNumber
<1>6. j \in Nat /\ Unshift(S, j + 1) > r
  BY <1>5
<1>7. Unshift(S, j) <= r
  <2>1. CASE j = 0
    BY <2>1, UnshiftNext
  <2>2. CASE j # 0
    <3>1. j - 1 \in Nat /\ j - 1 \notin T
      BY <1>5, <1>6, <2>2
    <3>2. ~(Unshift(S, (j - 1) + 1) > r)
      BY <3>1
    <3>3. (j - 1) + 1 = j /\ Unshift(S, j) \in Nat
      BY <1>6, UnshiftNext
    <3> QED BY <3>2, <3>3
  <2> QED BY <2>1, <2>2
<1>8. Unshift(S, j) \in Nat /\ Unshift(S, j + 1) = IF j \in S THEN Unshift(S, j) ELSE Unshift(S, j) + 1
  BY <1>6, UnshiftNext
<1>9. j \notin S /\ Unshift(S, j) = r
  BY <1>6, <1>7, <1>8
<1> QED BY <1>6, <1>9

LEMMA RankUnique ==
    ASSUME NEW S \in SUBSET Nat, NEW i \in Nat, NEW j \in Nat, i \notin S, j \notin S
    PROVE  /\ Unshift(S, i) = Unshift(S, j) => i = j
           /\ Unshift(S, i) < Unshift(S, j) <=> i < j
<1>1. Unshift(S, i) \in Nat /\ Unshift(S, j) \in Nat
  BY UnshiftNext
<1>2. i < j => Unshift(S, i) < Unshift(S, j)
  BY UnshiftGrows
<1>3. j < i => Unshift(S, j) < Unshift(S, i)
  BY UnshiftGrows
<1> QED BY <1>1, <1>2, <1>3

(* Where the index i that D leaves alone is among those that I leaves alone. *)
To(D, I, i) == Shift(I, Unshift(D, i))

Finite(S) == S \in SUBSET Nat /\ IsFiniteSet(S)

LEMMA ToRight ==
    ASSUME NEW D, NEW I, Finite(D), Finite(I), NEW i \in Nat \ D
    PROVE  /\ To(D, I, i) \in Nat \ I
           /\ Unshift(I, To(D, I, i)) = Unshift(D, i)
           /\ To(I, D, To(D, I, i)) = i
<1>1. Unshift(D, i) \in Nat
  BY UnshiftNext DEF Finite
<1>2. PICK j \in Nat : j \notin I /\ Unshift(I, j) = Unshift(D, i)
  BY <1>1, NthExists DEF Finite
<1>3. Shift(I, Unshift(I, j)) = j
  BY <1>2, ShiftUnshift DEF Finite
<1>4. Shift(D, Unshift(D, i)) = i
  BY ShiftUnshift DEF Finite
<1> QED BY <1>2, <1>3, <1>4 DEF To

(* The order of the indexes is kept. *)
LEMMA ToOrder ==
    ASSUME NEW D, NEW I, Finite(D), Finite(I), NEW i \in Nat \ D, NEW k \in Nat \ D
    PROVE  /\ To(D, I, i) < To(D, I, k) <=> i < k
           /\ To(D, I, i) = To(D, I, k) => i = k
<1>1. /\ To(D, I, i) \in Nat /\ To(D, I, i) \notin I /\ Unshift(I, To(D, I, i)) = Unshift(D, i)
      /\ To(D, I, k) \in Nat /\ To(D, I, k) \notin I /\ Unshift(I, To(D, I, k)) = Unshift(D, k)
      /\ To(I, D, To(D, I, i)) = i /\ To(I, D, To(D, I, k)) = k
  BY ToRight
<1>2. Unshift(D, i) < Unshift(D, k) <=> i < k
  BY RankUnique DEF Finite
<1>3. Unshift(I, To(D, I, i)) < Unshift(I, To(D, I, k)) <=> To(D, I, i) < To(D, I, k)
  BY <1>1, RankUnique DEF Finite
<1> QED BY <1>1, <1>2, <1>3

(* f maps the indexes that D leaves alone to those that I leaves alone, in their order. *)
Matches(f, D, I) ==
    /\ f \in [Nat \ D -> Nat \ I]
    /\ \A i, k \in Nat \ D : i < k => f[i] < f[k]
    /\ \A j \in Nat \ I : \E i \in Nat \ D : f[i] = j

(* There is only one way to do so. *)
LEMMA OnlyTo ==
    ASSUME NEW D, NEW I, Finite(D), Finite(I), NEW f, Matches(f, D, I)
    PROVE  \A i \in Nat \ D : To(D, I, i) = f[i]
<1> USE DEF Matches
<1> DEFINE T == {i \in Nat \ D : To(D, I, i) # f[i]}
<1> SUFFICES ASSUME T # {} PROVE FALSE
  OBVIOUS
<1>1. PICK i \in T : \A y \in T : i <= y
  <2>1. T \in SUBSET Nat
    OBVIOUS
  <2> HIDE DEF T
  <2> QED BY <2>1, LeastNumber
<1> DEFINE j == To(D, I, i)
<1>2. i \in Nat \ D /\ j # f[i] /\ j \in Nat \ I /\ f[i] \in Nat \ I /\ To(I, D, j) = i
  BY <1>1, ToRight
<1> HIDE DEF j
<1>3. PICK k \in Nat \ D : f[k] = j
  BY <1>2
<1>4. \A y \in Nat \ D : y < i => To(D, I, y) = f[y]
  BY <1>1, <1>2
<1>5. ~(k < i)
  <2> SUFFICES ASSUME k < i PROVE FALSE
    OBVIOUS
  <2>1. To(D, I, k) = j
    BY <1>3, <1>4
  <2>2. To(D, I, k) = To(D, I, i) => k = i
    BY <1>2, <1>3, ToOrder
  <2> QED BY <1>2, <2>1, <2>2 DEF j
<1>6. i < k
  BY <1>2, <1>3, <1>5
<1>7. f[i] < j
  BY <1>2, <1>3, <1>6
<1> DEFINE h == To(I, D, f[i])
<1>8. h \in Nat \ D /\ To(D, I, h) = f[i]
  BY <1>2, ToRight
<1>9. h < i
  <2>1. To(I, D, f[i]) < To(I, D, j) <=> f[i] < j
    BY <1>2, ToOrder
  <2> QED BY <1>2, <1>7, <2>1
<1> HIDE DEF h
<1>10. f[h] = f[i]
  BY <1>4, <1>8, <1>9
<1>11. f[h] < f[i]
  BY <1>2, <1>8, <1>9
<1> QED BY <1>2, <1>10, <1>11
-----------------------------------------------------------------------------
(* What deletions D and insertions I say of the slots b before and s after them: b
   without D is s without I. *)

Applies(b, s, D, I) ==
    /\ D \subseteq Indexes(b) /\ I \subseteq Indexes(s)
    /\ \A i \in Nat \ D :
          /\ i < Len(b) <=> To(D, I, i) < Len(s)
          /\ i < Len(b) => b[i + 1] = s[To(D, I, i) + 1]

LEMMA IndexesFinite ==
    ASSUME NEW s \in Seq(Nat), NEW D, D \subseteq Indexes(s)
    PROVE  Finite(D)
<1>1. IsFiniteSet(0 .. Len(s) - 1)
  BY FS_Interval
<1>2. D \in SUBSET (0 .. Len(s) - 1)
  BY DEF Indexes
<1>3. IsFiniteSet(D)
  BY <1>1, <1>2, FS_Subset
<1> QED BY <1>2, <1>3 DEF Finite

(* To show that they apply it is enough to give the map. *)
LEMMA AppliesBy ==
    ASSUME NEW b \in Seq(Nat), NEW s \in Seq(Nat), NEW D, NEW I,
           D \subseteq Indexes(b), I \subseteq Indexes(s),
           NEW f, Matches(f, D, I),
           \A i \in Nat \ D : (i < Len(b) <=> f[i] < Len(s)) /\ (i < Len(b) => b[i + 1] = s[f[i] + 1])
    PROVE  Applies(b, s, D, I)
<1>1. Finite(D) /\ Finite(I)
  BY IndexesFinite
<1>2. \A i \in Nat \ D : To(D, I, i) = f[i]
  BY <1>1, OnlyTo
<1>3. ASSUME NEW i \in Nat \ D
      PROVE  /\ i < Len(b) <=> To(D, I, i) < Len(s)
             /\ i < Len(b) => b[i + 1] = s[To(D, I, i) + 1]
  BY <1>2
<1> QED BY <1>3 DEF Applies

(* The way back *)
LEMMA AppliesBack ==
    ASSUME NEW b \in Seq(Nat), NEW s \in Seq(Nat), NEW D, NEW I, Applies(b, s, D, I)
    PROVE  /\ Finite(D) /\ Finite(I)
           /\ \A i \in Nat \ D :
                 /\ To(D, I, i) \in Nat \ I /\ To(I, D, To(D, I, i)) = i
                 /\ i < Len(b) <=> To(D, I, i) < Len(s)
                 /\ i < Len(b) => b[i + 1] = s[To(D, I, i) + 1]
           /\ \A j \in Nat \ I :
                 /\ To(I, D, j) \in Nat \ D /\ To(D, I, To(I, D, j)) = j
                 /\ j < Len(s) <=> To(I, D, j) < Len(b)
                 /\ j < Len(s) => s[j + 1] = b[To(I, D, j) + 1]
<1>1. Finite(D) /\ Finite(I)
  BY IndexesFinite DEF Applies
<1>2. ASSUME NEW i \in Nat \ D PROVE To(D, I, i) \in Nat \ I /\ To(I, D, To(D, I, i)) = i
  BY <1>1, ToRight
<1>3. ASSUME NEW j \in Nat \ I PROVE To(I, D, j) \in Nat \ D /\ To(D, I, To(I, D, j)) = j
  BY <1>1, ToRight
<1>4. \A i \in Nat \ D :
         /\ i < Len(b) <=> To(D, I, i) < Len(s)
         /\ i < Len(b) => b[i + 1] = s[To(D, I, i) + 1]
  BY DEF Applies
<1> QED BY <1>1, <1>2, <1>3, <1>4

-----------------------------------------------------------------------------
(* Putting one slot in and taking one out *)

(* Where index j was before an index was put in at `at`, and before one was taken out. *)
BeforeInsert(j, at) == IF j > at THEN j - 1 ELSE j
BeforeErase(j, at) == IF j >= at THEN j + 1 ELSE j

LEMMA InsertAtRows ==
    ASSUME NEW s \in Seq(Nat), NEW at \in 0 .. Len(s), NEW x \in Nat
    PROVE  /\ InsertAt(s, at + 1, x) \in Seq(Nat) /\ Len(InsertAt(s, at + 1, x)) = Len(s) + 1
           /\ InsertAt(s, at + 1, x)[at + 1] = x
           /\ \A j \in 0 .. Len(s) : j # at =>
                 InsertAt(s, at + 1, x)[j + 1] = s[BeforeInsert(j, at) + 1]
<1> DEFINE u == SubSeq(s, 1, at)
           w == SubSeq(s, at + 1, Len(s))
<1>1. Len(s) \in Nat /\ at \in Nat /\ (at + 1) - 1 = at
  OBVIOUS
<1>2. u \in Seq(Nat) /\ Len(u) = at /\ \A k \in 1 .. at : u[k] = s[k]
  BY <1>1
<1>3. w \in Seq(Nat) /\ Len(w) = Len(s) - at /\ \A k \in 1 .. Len(s) - at : w[k] = s[at + k]
  BY <1>1
<1>4. InsertAt(s, at + 1, x) = u \o <<x>> \o w
  BY <1>1 DEF InsertAt
<1> HIDE DEF u, w
<1> DEFINE ux == u \o <<x>>
<1>5. /\ ux \in Seq(Nat) /\ Len(ux) = at + 1 /\ ux[at + 1] = x
      /\ \A k \in 1 .. at : ux[k] = s[k]
  BY <1>1, <1>2
<1> HIDE DEF ux
<1> DEFINE t == ux \o w
<1>6. /\ t \in Seq(Nat) /\ Len(t) = Len(s) + 1
      /\ \A k \in 1 .. at + 1 : t[k] = ux[k]
      /\ \A k \in 1 .. Len(s) - at : t[at + 1 + k] = w[k]
  <2>1. /\ t \in Seq(Nat) /\ Len(t) = Len(ux) + Len(w)
        /\ \A k \in 1 .. Len(ux) + Len(w) : t[k] = IF k <= Len(ux) THEN ux[k] ELSE w[k - Len(ux)]
    BY <1>3, <1>5, ConcatProperties
  <2> HIDE DEF t
  <2>2. ASSUME NEW k \in 1 .. at + 1 PROVE t[k] = ux[k]
    <3>1. k \in 1 .. Len(ux) + Len(w) /\ k <= Len(ux)
      BY <1>1, <1>3, <1>5
    <3> QED BY <2>1, <3>1, Zenon
  <2>3. ASSUME NEW k \in 1 .. Len(s) - at PROVE t[at + 1 + k] = w[k]
    <3>1. at + 1 + k \in 1 .. Len(ux) + Len(w) /\ at + 1 + k > Len(ux) /\ (at + 1 + k) - Len(ux) = k
      BY <1>1, <1>3, <1>5
    <3>2. ~(at + 1 + k <= Len(ux))
      BY <1>1, <1>5, <3>1
    <3> QED BY <2>1, <3>1, <3>2, Zenon
  <2> QED BY <1>1, <1>3, <1>5, <2>1, <2>2, <2>3
<1>7. InsertAt(s, at + 1, x) = t
  BY <1>4 DEF ux
<1> HIDE DEF t
<1>8. ASSUME NEW j \in 0 .. Len(s), j # at PROVE t[j + 1] = s[BeforeInsert(j, at) + 1]
  <2>1. CASE j < at
    <3>1. j + 1 \in 1 .. at /\ j + 1 \in 1 .. at + 1 /\ BeforeInsert(j, at) = j
      BY <1>1, <2>1 DEF BeforeInsert
    <3> QED BY <1>5, <1>6, <3>1
  <2>2. CASE j > at
    <3> DEFINE k == j - at
    <3>1. k \in 1 .. Len(s) - at /\ at + 1 + k = j + 1 /\ at + k = j /\ BeforeInsert(j, at) + 1 = j
      BY <1>1, <2>2 DEF BeforeInsert
    <3> HIDE DEF k
    <3>2. t[at + 1 + k] = w[k] /\ w[k] = s[at + k]
      BY <1>3, <1>6, <3>1
    <3> QED BY <3>1, <3>2
  <2> QED BY <1>1, <1>8, <2>1, <2>2
<1>9. t[at + 1] = x
  BY <1>1, <1>5, <1>6
<1> QED BY <1>6, <1>7, <1>8, <1>9

LEMMA RemoveAtRows ==
    ASSUME NEW s \in Seq(Nat), NEW at \in Indexes(s)
    PROVE  /\ RemoveAt(s, at + 1) \in Seq(Nat) /\ Len(RemoveAt(s, at + 1)) = Len(s) - 1
           /\ \A j \in 0 .. Len(s) - 2 : RemoveAt(s, at + 1)[j + 1] = s[BeforeErase(j, at) + 1]
<1> DEFINE u == SubSeq(s, 1, at)
           w == SubSeq(s, at + 2, Len(s))
<1>1. Len(s) \in Nat /\ at \in Nat /\ at < Len(s) /\ (at + 1) - 1 = at /\ (at + 1) + 1 = at + 2
  BY DEF Indexes
<1>2. u \in Seq(Nat) /\ Len(u) = at /\ \A k \in 1 .. at : u[k] = s[k]
  BY <1>1
<1>3. w \in Seq(Nat) /\ Len(w) = Len(s) - at - 1
      /\ \A k \in 1 .. Len(s) - at - 1 : w[k] = s[at + 1 + k]
  <2>1. w \in Seq(Nat) /\ Len(w) = Len(s) - at - 1
    BY <1>1
  <2>2. ASSUME NEW k \in 1 .. Len(s) - at - 1 PROVE w[k] = s[at + 1 + k]
    BY <1>1, <2>1
  <2> QED BY <2>1, <2>2
<1>4. RemoveAt(s, at + 1) = u \o w
  BY <1>1 DEF RemoveAt
<1> HIDE DEF u, w
<1> DEFINE t == u \o w
<1>6. /\ t \in Seq(Nat) /\ Len(t) = Len(s) - 1
      /\ \A k \in 1 .. at : t[k] = u[k]
      /\ \A k \in 1 .. Len(s) - at - 1 : t[at + k] = w[k]
  <2>1. /\ t \in Seq(Nat) /\ Len(t) = Len(u) + Len(w)
        /\ \A k \in 1 .. Len(u) + Len(w) : t[k] = IF k <= Len(u) THEN u[k] ELSE w[k - Len(u)]
    BY <1>2, <1>3, ConcatProperties
  <2> HIDE DEF t
  <2>2. ASSUME NEW k \in 1 .. at PROVE t[k] = u[k]
    <3>1. k \in 1 .. Len(u) + Len(w) /\ k <= Len(u)
      BY <1>1, <1>2, <1>3
    <3> QED BY <2>1, <3>1, Zenon
  <2>3. ASSUME NEW k \in 1 .. Len(s) - at - 1 PROVE t[at + k] = w[k]
    <3>1. at + k \in 1 .. Len(u) + Len(w) /\ at + k > Len(u) /\ (at + k) - Len(u) = k
      BY <1>1, <1>2, <1>3
    <3> QED BY <1>2, <2>1, <3>1, SMTT(60)
  <2> QED BY <1>1, <1>2, <1>3, <2>1, <2>2, <2>3
<1>7. RemoveAt(s, at + 1) = t
  BY <1>4
<1> HIDE DEF t
<1>8. ASSUME NEW j \in 0 .. Len(s) - 2 PROVE t[j + 1] = s[BeforeErase(j, at) + 1]
  <2>1. CASE j < at
    <3>1. j + 1 \in 1 .. at /\ BeforeErase(j, at) = j
      BY <1>1, <2>1 DEF BeforeErase
    <3> QED BY <1>2, <1>6, <3>1
  <2>2. CASE j >= at
    <3> DEFINE k == j - at + 1
    <3>1. k \in 1 .. Len(s) - at - 1 /\ at + k = j + 1 /\ at + 1 + k = j + 2
          /\ BeforeErase(j, at) + 1 = j + 2
      BY <1>1, <2>2 DEF BeforeErase
    <3> HIDE DEF k
    <3>2. t[at + k] = w[k] /\ w[k] = s[at + 1 + k]
      BY <1>3, <1>6, <3>1
    <3> QED BY <3>1, <3>2
  <2> QED BY <1>1, <1>8, <2>1, <2>2
<1> QED BY <1>6, <1>7, <1>8

(* The indexes of a set after an index was put in or taken out *)
LEMMA ShiftedSet ==
    ASSUME NEW S \in SUBSET Nat, NEW at \in Nat
    PROVE  /\ ShiftForInsertAt(S, at, 1) \in SUBSET Nat
           /\ InsertRange(S, at, 1) \in SUBSET Nat
           /\ \A j \in Nat : j \in ShiftForInsertAt(S, at, 1) <=> j # at /\ BeforeInsert(j, at) \in S
           /\ \A j \in Nat : j \in InsertRange(S, at, 1) <=> j = at \/ BeforeInsert(j, at) \in S
<1> DEFINE New(i) == IF i >= at THEN i + 1 ELSE i
<1>1. \A i \in Nat : New(i) \in Nat /\ New(i) # at /\ BeforeInsert(New(i), at) = i
  BY DEF BeforeInsert
<1>2. \A j \in Nat : j # at => New(BeforeInsert(j, at)) = j
  BY DEF BeforeInsert
<1>3. ShiftForInsertAt(S, at, 1) = {New(i) : i \in S}
  BY DEF ShiftForInsertAt
<1> HIDE DEF New
<1>4. \A j \in Nat : j \in {New(i) : i \in S} <=> j # at /\ BeforeInsert(j, at) \in S
  BY <1>1, <1>2
<1>5. at .. at + 1 - 1 = {at}
  OBVIOUS
<1>6. InsertRange(S, at, 1) = ShiftForInsertAt(S, at, 1) \cup {at}
  BY <1>5 DEF InsertRange
<1> QED BY <1>1, <1>3, <1>4, <1>6

LEMMA ErasedSet ==
    ASSUME NEW S \in SUBSET Nat, NEW at \in Nat
    PROVE  /\ EraseAt(S, at) \in SUBSET Nat
           /\ \A j \in Nat : j \in EraseAt(S, at) <=> BeforeErase(j, at) \in S
<1>1. \A i \in Nat \ {at} : AfterErase(i, at) \in Nat /\ BeforeErase(AfterErase(i, at), at) = i
  BY DEF AfterErase, BeforeErase
<1>2. \A j \in Nat : BeforeErase(j, at) \in Nat \ {at} /\ AfterErase(BeforeErase(j, at), at) = j
  BY DEF AfterErase, BeforeErase
<1>3. \A j \in Nat : j \in {AfterErase(i, at) : i \in S \ {at}} <=> BeforeErase(j, at) \in S
  BY <1>1, <1>2
<1> QED BY <1>1, <1>3 DEF EraseAt
LEMMA AppliesType ==
    ASSUME NEW b \in Seq(Nat), NEW s \in Seq(Nat), NEW D, NEW I, Applies(b, s, D, I)
    PROVE  /\ D \subseteq Indexes(b) /\ I \subseteq Indexes(s) /\ D \in SUBSET Nat /\ I \in SUBSET Nat
           /\ Finite(D) /\ Finite(I) /\ Len(b) \in Nat /\ Len(s) \in Nat
<1>1. D \subseteq Indexes(b) /\ I \subseteq Indexes(s)
  BY DEF Applies
<1>2. Finite(D) /\ Finite(I)
  BY <1>1, IndexesFinite
<1> QED BY <1>1, <1>2 DEF Finite

LEMMA InsertApplies ==
    ASSUME NEW b \in Seq(Nat), NEW s \in Seq(Nat), NEW D, NEW I, Applies(b, s, D, I),
           NEW at \in 0 .. Len(s), NEW x \in Nat
    PROVE  Applies(b, InsertAt(s, at + 1, x), D, InsertRange(I, at, 1))
<1> DEFINE t == InsertAt(s, at + 1, x)
           J == InsertRange(I, at, 1)
           New(j) == IF j >= at THEN j + 1 ELSE j
           f == [i \in Nat \ D |-> New(To(D, I, i))]
<1>1. /\ D \subseteq Indexes(b) /\ I \subseteq Indexes(s) /\ I \in SUBSET Nat /\ at \in Nat
      /\ Finite(D) /\ Finite(I) /\ Len(s) \in Nat
  BY AppliesType
<1>2. /\ t \in Seq(Nat) /\ Len(t) = Len(s) + 1
      /\ \A j \in 0 .. Len(s) : j # at => t[j + 1] = s[BeforeInsert(j, at) + 1]
  BY InsertAtRows, ZenonT(60)
<1>3. J \in SUBSET Nat /\ \A j \in Nat : j \in J <=> j = at \/ BeforeInsert(j, at) \in I
  BY <1>1, ShiftedSet
<1>4. \A j \in Nat : New(j) \in Nat /\ New(j) # at /\ BeforeInsert(New(j), at) = j
  BY <1>1 DEF BeforeInsert
<1>5. \A j \in Nat \ {at} : BeforeInsert(j, at) \in Nat /\ New(BeforeInsert(j, at)) = j
  BY <1>1 DEF BeforeInsert
<1>6. \A j, k \in Nat : j < k => New(j) < New(k)
  BY <1>1
<1>7. \A j \in Nat : New(j) < Len(s) + 1 <=> j < Len(s)
  BY <1>1
<1> HIDE DEF t, J, New
<1>8. J \subseteq Indexes(t)
  <2> SUFFICES ASSUME NEW j \in J PROVE j \in Indexes(t)
    OBVIOUS
  <2>1. j \in Nat /\ (j = at \/ BeforeInsert(j, at) \in 0 .. Len(s) - 1)
    BY <1>1, <1>3 DEF Indexes
  <2> QED BY <1>1, <1>2, <2>1 DEF Indexes, BeforeInsert
<1>9. ASSUME NEW i \in Nat \ D
      PROVE  /\ f[i] \in Nat \ J
             /\ i < Len(b) <=> f[i] < Len(t)
             /\ i < Len(b) => b[i + 1] = t[f[i] + 1]
  <2> DEFINE j == To(D, I, i)
  <2>1. /\ j \in Nat /\ j \notin I /\ (i < Len(b) <=> j < Len(s))
        /\ i < Len(b) => b[i + 1] = s[j + 1]
    BY AppliesBack
  <2>2. f[i] = New(j)
    OBVIOUS
  <2> HIDE DEF j, f
  <2>3. New(j) \in Nat /\ New(j) # at /\ BeforeInsert(New(j), at) = j
    BY <1>4, <2>1
  <2>4. f[i] \in Nat \ J
    BY <1>3, <2>1, <2>2, <2>3
  <2>5. i < Len(b) <=> f[i] < Len(t)
    BY <1>2, <1>7, <2>1, <2>2
  <2>6. ASSUME i < Len(b) PROVE b[i + 1] = t[f[i] + 1]
    <3>1. New(j) \in 0 .. Len(s)
      BY <1>1, <1>2, <2>2, <2>3, <2>5, <2>6
    <3>2. t[New(j) + 1] = s[j + 1]
      BY <1>2, <2>3, <3>1, SMTT(60)
    <3> QED BY <2>1, <2>2, <2>6, <3>2
  <2> QED BY <2>4, <2>5, <2>6
<1>10. ASSUME NEW i \in Nat \ D, NEW k \in Nat \ D, i < k PROVE f[i] < f[k]
  <2>1. To(D, I, i) \in Nat /\ To(D, I, k) \in Nat /\ To(D, I, i) < To(D, I, k)
    BY <1>1, <1>10, ToRight, ToOrder
  <2> QED BY <1>6, <2>1
<1>11. ASSUME NEW j \in Nat \ J PROVE \E i \in Nat \ D : f[i] = j
  <2>1. j # at /\ BeforeInsert(j, at) \in Nat \ I
    BY <1>3, <1>5
  <2>2. To(I, D, BeforeInsert(j, at)) \in Nat \ D /\ To(D, I, To(I, D, BeforeInsert(j, at))) = BeforeInsert(j, at)
    BY <1>1, <2>1, ToRight
  <2>3. f[To(I, D, BeforeInsert(j, at))] = j
    BY <1>5, <2>1, <2>2
  <2> QED BY <2>2, <2>3
<1>12. f = [i \in Nat \ D |-> f[i]]
  OBVIOUS
<1> HIDE DEF f
<1>13. Matches(f, D, J)
  BY <1>9, <1>10, <1>11, <1>12 DEF Matches
<1>14. Applies(b, t, D, J)
  BY <1>1, <1>2, <1>8, <1>9, <1>13, AppliesBy
<1> QED BY <1>14 DEF t, J

(* The deletions once the slot at i is gone *)
After(D, I, i) == IF i \in I THEN D ELSE D \cup {To(I, D, i)}

LEMMA EraseApplies ==
    ASSUME NEW b \in Seq(Nat), NEW s \in Seq(Nat), NEW D, NEW I, Applies(b, s, D, I),
           NEW at \in Indexes(s)
    PROVE  Applies(b, RemoveAt(s, at + 1), After(D, I, at), EraseAt(I, at))
<1> DEFINE t == RemoveAt(s, at + 1)
           J == EraseAt(I, at)
           E == After(D, I, at)
           f == [i \in Nat \ E |-> AfterErase(To(D, I, i), at)]
<1>1. /\ D \subseteq Indexes(b) /\ I \subseteq Indexes(s) /\ I \in SUBSET Nat /\ at \in Nat
      /\ Finite(D) /\ Finite(I) /\ Len(s) \in Nat /\ at < Len(s) /\ Len(b) \in Nat
  <2>1. at \in Nat /\ at < Len(s)
    BY DEF Indexes
  <2> QED BY <2>1, AppliesType
<1>2. /\ t \in Seq(Nat) /\ Len(t) = Len(s) - 1
      /\ \A j \in 0 .. Len(s) - 2 : t[j + 1] = s[BeforeErase(j, at) + 1]
  BY RemoveAtRows
<1>3. J \in SUBSET Nat /\ \A j \in Nat : j \in J <=> BeforeErase(j, at) \in I
  BY <1>1, ErasedSet
<1>4. \A j \in Nat \ {at} : AfterErase(j, at) \in Nat /\ BeforeErase(AfterErase(j, at), at) = j
                            /\ (AfterErase(j, at) < Len(s) - 1 <=> j < Len(s))
  BY <1>1 DEF AfterErase, BeforeErase
<1>5. \A j \in Nat : BeforeErase(j, at) \in Nat \ {at} /\ AfterErase(BeforeErase(j, at), at) = j
                     /\ (j < Len(s) - 1 <=> BeforeErase(j, at) < Len(s))
  BY <1>1 DEF AfterErase, BeforeErase
<1>6. \A j, k \in Nat \ {at} : j < k => AfterErase(j, at) < AfterErase(k, at)
  BY <1>1 DEF AfterErase
<1>7. at \notin I => /\ To(I, D, at) \in Nat \ D /\ To(D, I, To(I, D, at)) = at
                     /\ To(I, D, at) < Len(b)
  BY <1>1, AppliesBack
<1> HIDE DEF t, J
<1>8. /\ D \subseteq E /\ E \in SUBSET Nat
      /\ \A i \in Nat \ E : To(D, I, i) \in Nat /\ To(D, I, i) \notin I /\ To(D, I, i) # at
  <2>1. D \subseteq E /\ E \in SUBSET Nat
    BY <1>1, <1>7 DEF After, Finite
  <2>2. ASSUME NEW i \in Nat \ E PROVE To(D, I, i) \in Nat /\ To(D, I, i) \notin I /\ To(D, I, i) # at
    <3>1. i \in Nat \ D
      BY <2>1
    <3>2. To(D, I, i) \in Nat \ I /\ To(I, D, To(D, I, i)) = i
      BY <1>1, <3>1, ToRight
    <3>3. at \notin I => i # To(I, D, at)
      BY DEF After
    <3> QED BY <3>2, <3>3
  <2> QED BY <2>1, <2>2
<1>9. J \subseteq Indexes(t) /\ E \subseteq Indexes(b)
  <2>1. E \subseteq Indexes(b)
    <3>1. at \notin I => To(I, D, at) \in Indexes(b)
      BY <1>1, <1>7 DEF Indexes
    <3> QED BY <1>1, <3>1 DEF After
  <2>2. ASSUME NEW j \in J PROVE j \in Indexes(t)
    <3>1. j \in Nat /\ BeforeErase(j, at) \in 0 .. Len(s) - 1
      BY <1>1, <1>3, <2>2 DEF Indexes
    <3> QED BY <1>1, <1>2, <1>5, <3>1 DEF Indexes
  <2> QED BY <2>1, <2>2
<1> HIDE DEF E
<1>10. ASSUME NEW i \in Nat \ E
       PROVE  /\ f[i] \in Nat \ J
              /\ i < Len(b) <=> f[i] < Len(t)
              /\ i < Len(b) => b[i + 1] = t[f[i] + 1]
  <2> DEFINE j == To(D, I, i)
  <2>1. /\ j \in Nat /\ j \notin I /\ j # at /\ (i < Len(b) <=> j < Len(s))
        /\ i < Len(b) => b[i + 1] = s[j + 1]
    BY <1>8, AppliesBack, SMTT(60)
  <2>2. f[i] = AfterErase(j, at)
    OBVIOUS
  <2> HIDE DEF j, f
  <2>3. f[i] \in Nat /\ BeforeErase(f[i], at) = j /\ (f[i] < Len(t) <=> j < Len(s))
    BY <1>2, <1>4, <2>1, <2>2
  <2>4. f[i] \in Nat \ J
    BY <1>3, <2>1, <2>3
  <2>6. ASSUME i < Len(b) PROVE b[i + 1] = t[f[i] + 1]
    <3>1. f[i] \in 0 .. Len(s) - 2
      BY <1>1, <1>2, <2>1, <2>3, <2>6, SMTT(60)
    <3>2. t[f[i] + 1] = s[j + 1]
      BY <1>2, <2>3, <3>1
    <3> QED BY <2>1, <2>6, <3>2
  <2> QED BY <2>1, <2>3, <2>4, <2>6
<1>11. ASSUME NEW i \in Nat \ E, NEW k \in Nat \ E, i < k PROVE f[i] < f[k]
  <2>1. To(D, I, i) < To(D, I, k)
    BY <1>1, <1>8, <1>11, ToOrder
  <2> QED BY <1>6, <1>8, <2>1
<1>12. ASSUME NEW j \in Nat \ J PROVE \E i \in Nat \ E : f[i] = j
  <2> DEFINE k == BeforeErase(j, at)
             i == To(I, D, k)
  <2>1. k \in Nat \ I /\ k # at /\ AfterErase(k, at) = j
    BY <1>3, <1>5
  <2>2. i \in Nat \ D /\ To(D, I, i) = k
    BY <1>1, <2>1, ToRight
  <2>3. i \notin E
    BY <1>7, <2>1, <2>2 DEF E, After
  <2> HIDE DEF i, k
  <2>4. f[i] = j
    BY <2>1, <2>2, <2>3
  <2> HIDE DEF f
  <2> QED BY <2>2, <2>3, <2>4
<1>13. f = [i \in Nat \ E |-> f[i]]
  OBVIOUS
<1> HIDE DEF f
<1>14. Matches(f, E, J)
  BY <1>10, <1>11, <1>12, <1>13 DEF Matches
<1>15. Applies(b, t, E, J)
  BY <1>1, <1>2, <1>9, <1>10, <1>14, AppliesBy
<1> QED BY <1>15 DEF t, J, E
-----------------------------------------------------------------------------
(* Only *)

(* Only(s, T) has each element of s that is in T once for each of its places. *)
Picks(g, t, s, n, T) ==
    /\ g \in [1 .. Len(t) -> 1 .. n]
    /\ \A i, j \in 1 .. Len(t) : g[i] = g[j] => i = j
    /\ \A i \in 1 .. Len(t) : t[i] = s[g[i]] /\ s[g[i]] \in T
    /\ \A k \in 1 .. n : s[k] \in T => \E i \in 1 .. Len(t) : g[i] = k

LEMMA PickNext ==
    ASSUME NEW S, NEW s \in Seq(S), NEW T, NEW n \in Nat, n + 1 \in 1 .. Len(s), NEW t \in Seq(S),
           NEW g, Picks(g, t, s, n, T)
    PROVE  \E h : Picks(h, IF s[n + 1] \in T THEN Append(t, s[n + 1]) ELSE t, s, n + 1, T)
<1>1. CASE s[n + 1] \in T
  <2> DEFINE u == Append(t, s[n + 1])
             h == [i \in 1 .. Len(t) + 1 |-> IF i = Len(t) + 1 THEN n + 1 ELSE g[i]]
  <2>1. Len(t) \in Nat /\ s[n + 1] \in S
    OBVIOUS
  <2>2. u \in Seq(S) /\ Len(u) = Len(t) + 1 /\ u[Len(t) + 1] = s[n + 1]
        /\ \A i \in 1 .. Len(t) : u[i] = t[i]
    BY <2>1
  <2> HIDE DEF u
  <2>3. /\ h[Len(t) + 1] = n + 1
        /\ \A i \in 1 .. Len(t) : h[i] = g[i] /\ g[i] \in 1 .. n
        /\ \A i \in 1 .. Len(t) + 1 : i = Len(t) + 1 \/ i \in 1 .. Len(t)
    BY <2>1 DEF Picks
  <2>4. h \in [1 .. Len(u) -> 1 .. n + 1]
    BY <2>1, <2>2 DEF Picks
  <2> HIDE DEF h
  <2>5. \A i, j \in 1 .. Len(u) : h[i] = h[j] => i = j
    BY <2>2, <2>3 DEF Picks
  <2>6. \A i \in 1 .. Len(u) : u[i] = s[h[i]] /\ s[h[i]] \in T
    BY <1>1, <2>2, <2>3 DEF Picks
  <2>7. ASSUME NEW k \in 1 .. n + 1, s[k] \in T PROVE \E i \in 1 .. Len(u) : h[i] = k
    <3>1. CASE k = n + 1
      BY <2>1, <2>2, <2>3, <3>1
    <3>2. CASE k # n + 1
      <4>1. k \in 1 .. n
        BY <3>2
      <4>2. PICK i \in 1 .. Len(t) : g[i] = k
        BY <2>7, <4>1 DEF Picks
      <4>3. i \in 1 .. Len(u) /\ h[i] = k
        BY <2>1, <2>2, <2>3, <4>2
      <4> QED BY <4>3
    <3> QED BY <3>1, <3>2
  <2>8. Picks(h, u, s, n + 1, T)
    BY <2>4, <2>5, <2>6, <2>7 DEF Picks
  <2> QED BY <1>1, <2>8 DEF u
<1>2. CASE s[n + 1] \notin T
  <2>1. \A k \in 1 .. n + 1 : k = n + 1 \/ k \in 1 .. n
    OBVIOUS
  <2>2. 1 .. n \subseteq 1 .. n + 1
    OBVIOUS
  <2>3. Picks(g, t, s, n + 1, T)
    BY <1>2, <2>1, <2>2 DEF Picks
  <2> QED BY <1>2, <2>3
<1> QED BY <1>1, <1>2

LEMMA OnlyPicks ==
    ASSUME NEW S, NEW s \in Seq(S), NEW T
    PROVE  Only(s, T) \in Seq(S) /\ \E g : Picks(g, Only(s, T), s, Len(s), T)
<1> DEFINE N == Len(s)
           V == Seq(S)
           F == [k \in 1 .. N |-> [v \in V |-> IF s[k] \in T THEN Append(v, s[k]) ELSE v]]
           Def(o) == o = [n \in 0 .. N |-> IF n = 0 THEN <<>>
                             ELSE IF s[n] \in T THEN Append(o[n - 1], s[n]) ELSE o[n - 1]]
           o == CHOOSE x : Def(x)
<1>1. N \in Nat /\ <<>> \in V
  OBVIOUS
<1>2. F \in [1 .. N -> [V -> V]]
  OBVIOUS
<1>3. \E x : Def(x)
  <2>1. PICK g \in [0 .. N -> V] : Unfolds(g, <<>>, F, N)
    <3> HIDE DEF F, V, N
    <3> QED BY <1>1, <1>2, Recursion
  <2>2. ASSUME NEW n \in 0 .. N
        PROVE  g[n] = IF n = 0 THEN <<>> ELSE IF s[n] \in T THEN Append(g[n - 1], s[n]) ELSE g[n - 1]
    <3>1. CASE n = 0
      BY <2>1, <3>1 DEF Unfolds
    <3>2. CASE n # 0
      <4>1. n \in 1 .. N /\ n - 1 \in 0 .. N
        BY <1>1, <3>2
      <4>2. g[n - 1] \in V
        BY <4>1
      <4>3. g[n] = F[n][g[n - 1]]
        BY <2>1, <4>1 DEF Unfolds
      <4> QED BY <3>2, <4>1, <4>2, <4>3
    <3> QED BY <3>1, <3>2
  <2>3. g = [n \in 0 .. N |-> g[n]]
    OBVIOUS
  <2>4. Def(g)
    BY <2>2, <2>3
  <2> QED BY <2>4
<1>4. Def(o)
  BY <1>3
<1>5. Only(s, T) = o[N]
  BY DEF Only
<1> DEFINE Right(n) == o[n] \in V /\ \E g : Picks(g, o[n], s, n, T)
           R == {n \in 0 .. N : Right(n)}
<1>6. o[0] = <<>> /\ \A n \in 1 .. N : o[n] = IF s[n] \in T THEN Append(o[n - 1], s[n]) ELSE o[n - 1]
  <2> HIDE DEF o
  <2>1. o[0] = <<>>
    BY <1>1, <1>4
  <2>2. ASSUME NEW n \in 1 .. N
        PROVE  o[n] = IF s[n] \in T THEN Append(o[n - 1], s[n]) ELSE o[n - 1]
    <3>1. n \in 0 .. N /\ n # 0
      BY <1>1
    <3> QED BY <1>4, <3>1
  <2> QED BY <2>1, <2>2
<1> HIDE DEF o
<1>7. 0 \in R
  <2>1. Len(<<>>) = 0 /\ 1 .. 0 = {}
    OBVIOUS
  <2>2. Picks(<<>>, <<>>, s, 0, T)
    BY <2>1 DEF Picks
  <2>3. \E g : Picks(g, o[0], s, 0, T)
    BY <1>6, <2>2
  <2>4. o[0] \in V /\ 0 \in 0 .. N
    BY <1>1, <1>6
  <2> HIDE DEF V, N
  <2> QED BY <2>3, <2>4
<1>8. ASSUME NEW n \in 0 .. N - 1, n \in R PROVE n + 1 \in R
  <2>1. PICK g : Picks(g, o[n], s, n, T)
    BY <1>8
  <2>2. o[n] \in V /\ n \in Nat /\ n + 1 \in 1 .. N /\ n + 1 \in 0 .. N /\ (n + 1) - 1 = n
    BY <1>1, <1>8
  <2>3. o[n + 1] = IF s[n + 1] \in T THEN Append(o[n], s[n + 1]) ELSE o[n]
    BY <1>6, <2>2
  <2>4. o[n + 1] \in V
    BY <2>2, <2>3
  <2>5. \E h : Picks(h, o[n + 1], s, n + 1, T)
    BY <2>1, <2>2, <2>3, PickNext
  <2> QED BY <2>2, <2>4, <2>5
<1>9. N \in R
  <2> HIDE DEF R, N
  <2>1. \A n \in 0 .. N : n \in R
    BY <1>1, <1>7, <1>8, Induction
  <2> QED BY <1>1, <2>1
<1> QED BY <1>5, <1>9
-----------------------------------------------------------------------------
(* What a change set c says of the slots b before and s after it *)

Has(s, x) == \E j \in Indexes(s) : s[j + 1] = x
Distinct(s) == \A i, j \in Indexes(s) : s[i + 1] = s[j + 1] => i = j

MoveSeqs == Seq([from : Nat, to : Nat])
Changes ==
    [deletions : SUBSET Nat, insertions : SUBSET Nat, modifications : SUBSET Nat,
     moves : MoveSeqs, mapping : {<<>>}]

(* Every slot that is deleted and is still there was moved, once. *)
MovesRight(b, s, D, I, ms) ==
    /\ \A n \in DOMAIN ms : ms[n].from \in D /\ ms[n].to \in I /\ b[ms[n].from + 1] = s[ms[n].to + 1]
    /\ \A n, k \in DOMAIN ms : ms[n].from = ms[k].from => n = k
    /\ \A i \in D : Has(s, b[i + 1]) => \E n \in DOMAIN ms : ms[n].from = i

Right(b, s, c) ==
    /\ c \in Changes
    /\ Applies(b, s, c.deletions, c.insertions)
    /\ MovesRight(b, s, c.deletions, c.insertions, c.moves)
    /\ c.modifications \subseteq Indexes(s)

(* The slots that are marked *)
Marks(s, c) == {s[j + 1] : j \in c.modifications}

(* Slots that are in both are marked in both or in neither. *)
SameMarks(s, c, t, d) ==
    \A x \in Nat : Has(s, x) /\ Has(t, x) => (x \in Marks(t, d) <=> x \in Marks(s, c))

LEMMA MoveType ==
    ASSUME NEW ms \in MoveSeqs
    PROVE  /\ Len(ms) \in Nat /\ DOMAIN ms = 1 .. Len(ms)
           /\ \A n \in DOMAIN ms : ms[n] \in [from : Nat, to : Nat] /\ ms[n].from \in Nat /\ ms[n].to \in Nat
<1> DEFINE AMove == [from : Nat, to : Nat]
<1>1. ms \in Seq(AMove)
  BY DEF MoveSeqs
<1>2. \A m \in AMove : m.from \in Nat /\ m.to \in Nat
  OBVIOUS
<1> HIDE DEF AMove
<1>3. Len(ms) \in Nat /\ DOMAIN ms = 1 .. Len(ms) /\ \A n \in DOMAIN ms : ms[n] \in AMove
  BY <1>1
<1> QED BY <1>2, <1>3 DEF AMove

LEMMA RightType ==
    ASSUME NEW b \in Seq(Nat), NEW s \in Seq(Nat), NEW c, Right(b, s, c)
    PROVE  /\ c \in Changes /\ c.deletions \in SUBSET Nat /\ c.insertions \in SUBSET Nat
           /\ c.modifications \in SUBSET Nat /\ c.moves \in MoveSeqs
           /\ Applies(b, s, c.deletions, c.insertions)
           /\ MovesRight(b, s, c.deletions, c.insertions, c.moves)
           /\ c.deletions \subseteq Indexes(b) /\ c.insertions \subseteq Indexes(s)
           /\ c.modifications \subseteq Indexes(s)
<1>1. c \in Changes /\ Applies(b, s, c.deletions, c.insertions)
  BY DEF Right
<1>2. /\ c.deletions \in SUBSET Nat /\ c.insertions \in SUBSET Nat
      /\ c.modifications \in SUBSET Nat /\ c.moves \in MoveSeqs
  BY <1>1 DEF Changes
<1>3. c.deletions \subseteq Indexes(b) /\ c.insertions \subseteq Indexes(s)
  BY <1>1 DEF Applies
<1> QED BY <1>1, <1>2, <1>3 DEF Right

(* With marks at the same places of equal slots the marks are the same. *)
LEMMA MarksBy ==
    ASSUME NEW s \in Seq(Nat), NEW t \in Seq(Nat), NEW c, NEW d, Distinct(s), Distinct(t),
           c.modifications \subseteq Indexes(s), d.modifications \subseteq Indexes(t),
           \A i \in Indexes(s), j \in Indexes(t) : s[i + 1] = t[j + 1] =>
              (i \in c.modifications <=> j \in d.modifications)
    PROVE  SameMarks(s, c, t, d)
<1> SUFFICES ASSUME NEW x \in Nat, Has(s, x), Has(t, x)
             PROVE  x \in Marks(t, d) <=> x \in Marks(s, c)
  BY DEF SameMarks
<1>1. PICK i \in Indexes(s) : s[i + 1] = x
  BY DEF Has
<1>2. PICK j \in Indexes(t) : t[j + 1] = x
  BY DEF Has
<1>3. x \in Marks(s, c) <=> i \in c.modifications
  BY <1>1 DEF Marks, Distinct
<1>4. x \in Marks(t, d) <=> j \in d.modifications
  BY <1>2 DEF Marks, Distinct
<1> QED BY <1>1, <1>2, <1>3, <1>4

(* The moves with their destinations changed *)
WithTo(ms, F) == [k \in DOMAIN ms |-> [ms[k] EXCEPT !.to = F[@]]]

LEMMA MovesTo ==
    ASSUME NEW ms \in MoveSeqs, NEW F, \A j \in Nat : F[j] \in Nat
    PROVE  /\ WithTo(ms, F) \in MoveSeqs /\ DOMAIN WithTo(ms, F) = DOMAIN ms
           /\ \A k \in DOMAIN ms : WithTo(ms, F)[k].from = ms[k].from
                                   /\ WithTo(ms, F)[k].to = F[ms[k].to]
<1> DEFINE AMove == [from : Nat, to : Nat]
           New(m) == [m EXCEPT !.to = F[@]]
           ns == [k \in DOMAIN ms |-> New(ms[k])]
<1>1. ms \in Seq(AMove)
  BY DEF MoveSeqs
<1>2. \A m \in AMove : New(m) \in AMove /\ New(m).from = m.from /\ New(m).to = F[m.to]
  OBVIOUS
<1>3. WithTo(ms, F) = ns
  BY DEF WithTo
<1> HIDE DEF AMove, New
<1>4. Len(ms) \in Nat /\ DOMAIN ms = 1 .. Len(ms) /\ \A k \in DOMAIN ms : ms[k] \in AMove
  BY <1>1
<1>5. ns \in [1 .. Len(ms) -> AMove]
  BY <1>2, <1>4
<1>6. ns \in Seq(AMove) /\ DOMAIN ns = DOMAIN ms
  BY <1>4, <1>5
<1>7. \A k \in DOMAIN ms : ns[k].from = ms[k].from /\ ns[k].to = F[ms[k].to]
  BY <1>2, <1>4
<1> HIDE DEF ns
<1> QED BY <1>3, <1>6, <1>7 DEF AMove, MoveSeqs

LEMMA EmptyFunction ==
    ASSUME NEW f, NEW S, f \in [{} -> S]
    PROVE  f = <<>>
OBVIOUS

-----------------------------------------------------------------------------
(* The instructions of the log *)

LEMMA InsertRight ==
    ASSUME NEW b \in Seq(Nat), NEW s \in Seq(Nat), NEW c, Right(b, s, c), Distinct(s),
           NEW at \in 0 .. Len(s), NEW x \in Nat, ~Has(s, x), ~Has(b, x)
    PROVE  LET t == InsertAt(s, at + 1, x) IN
           /\ Right(b, t, Insert(c, at, 1)) /\ Distinct(t) /\ SameMarks(s, c, t, Insert(c, at, 1))
           /\ \A y \in Nat : Has(t, y) <=> y = x \/ Has(s, y)
<1> DEFINE t == InsertAt(s, at + 1, x)
           d == Insert(c, at, 1)
           D == c.deletions
           I == c.insertions
           ms == c.moves
           J == InsertRange(I, at, 1)
           New(j) == IF j >= at THEN j + 1 ELSE j
           F == [j \in Nat |-> New(j)]
           ns == [k \in DOMAIN ms |-> [ms[k] EXCEPT !.to = New(@)]]
<1>1. /\ c \in Changes /\ D \in SUBSET Nat /\ I \in SUBSET Nat /\ c.modifications \in SUBSET Nat
      /\ ms \in MoveSeqs /\ Applies(b, s, D, I) /\ MovesRight(b, s, D, I, ms)
      /\ D \subseteq Indexes(b) /\ I \subseteq Indexes(s) /\ c.modifications \subseteq Indexes(s)
      /\ Len(s) \in Nat /\ at \in Nat /\ Len(b) \in Nat
  BY RightType
<1>2. /\ t \in Seq(Nat) /\ Len(t) = Len(s) + 1 /\ t[at + 1] = x
      /\ \A j \in 0 .. Len(s) : j # at => t[j + 1] = s[BeforeInsert(j, at) + 1]
  BY InsertAtRows
<1>3. \A j \in Nat : j \in J <=> j = at \/ BeforeInsert(j, at) \in I
  BY <1>1, ShiftedSet
<1>4. \A j \in Nat : j \in ShiftForInsertAt(c.modifications, at, 1)
                     <=> j # at /\ BeforeInsert(j, at) \in c.modifications
  BY <1>1, ShiftedSet
<1>5. J \in SUBSET Nat /\ ShiftForInsertAt(c.modifications, at, 1) \in SUBSET Nat
  BY <1>1, ShiftedSet
<1>6. \A j \in Nat : New(j) \in Nat /\ New(j) # at /\ BeforeInsert(New(j), at) = j
                     /\ (j < Len(s) => New(j) \in 0 .. Len(s))
  BY <1>1 DEF BeforeInsert
<1>7. \A j \in 0 .. Len(s) : j # at => BeforeInsert(j, at) \in Indexes(s)
  BY <1>1 DEF BeforeInsert, Indexes
<1>8. ns \in MoveSeqs /\ \A k \in DOMAIN ms : ns[k].from = ms[k].from /\ ns[k].to = New(ms[k].to)
  <2>1. \A k \in DOMAIN ms : ms[k].to \in Nat
    BY <1>1, MoveType
  <2>2. \A j \in Nat : F[j] \in Nat /\ F[j] = New(j)
    BY <1>6
  <2> HIDE DEF F, New, ms
  <2>3. ns = WithTo(ms, F)
    BY <2>1, <2>2 DEF WithTo
  <2>4. WithTo(ms, F) \in MoveSeqs
        /\ \A k \in DOMAIN ms : WithTo(ms, F)[k].from = ms[k].from
                                /\ WithTo(ms, F)[k].to = F[ms[k].to]
    BY <1>1, <2>2, MovesTo
  <2> HIDE DEF ns
  <2> QED BY <2>1, <2>2, <2>3, <2>4
<1>9. /\ d \in Changes /\ d.deletions = D /\ d.insertions = J /\ d.moves = ns
      /\ d.modifications = ShiftForInsertAt(c.modifications, at, 1)
  <2>1. c.mapping = <<>> /\ DOMAIN c.mapping = {}
    BY <1>1 DEF Changes
  <2>2. {New(k) : k \in DOMAIN c.mapping} = {}
    BY <2>1
  <2>3. [k \in {New(k) : k \in DOMAIN c.mapping} |-> c.mapping[IF k >= at THEN k - 1 ELSE k]] = <<>>
    <3>1. [k \in {New(k) : k \in DOMAIN c.mapping} |-> c.mapping[IF k >= at THEN k - 1 ELSE k]]
             \in [{} -> Nat]
      BY <2>2
    <3> QED BY <3>1, EmptyFunction
  <2>4. d = [c EXCEPT !.modifications = ShiftForInsertAt(@, at, 1), !.insertions = InsertRange(@, at, 1),
               !.moves = ns,
               !.mapping = [k \in {New(k) : k \in DOMAIN c.mapping} |->
                               c.mapping[IF k >= at THEN k - 1 ELSE k]]]
    BY DEF Insert
  <2> DEFINE mp == [k \in {New(k) : k \in DOMAIN c.mapping} |-> c.mapping[IF k >= at THEN k - 1 ELSE k]]
  <2> HIDE DEF ns, New, mp
  <2> QED BY <1>1, <1>5, <1>8, <2>3, <2>4 DEF Changes, mp
<1> HIDE DEF t, d, D, I, J, ms, ns, New
<1>10. Applies(b, t, D, J)
  BY <1>1, InsertApplies DEF t, J
<1>11. \A y \in Nat : Has(t, y) <=> y = x \/ Has(s, y)
  <2>1. ASSUME NEW y \in Nat, Has(t, y) PROVE y = x \/ Has(s, y)
    <3>1. PICK j \in Indexes(t) : t[j + 1] = y
      BY <2>1 DEF Has
    <3>2. j \in 0 .. Len(s)
      BY <1>1, <1>2 DEF Indexes
    <3> QED BY <1>2, <1>7, <3>1, <3>2 DEF Has
  <2>2. ASSUME NEW y \in Nat, Has(s, y) PROVE Has(t, y)
    <3>1. PICK j \in Indexes(s) : s[j + 1] = y
      BY <2>2 DEF Has
    <3>2. j \in Nat /\ j < Len(s)
      BY <1>1 DEF Indexes
    <3>5. New(j) \in 0 .. Len(s) /\ New(j) # at /\ BeforeInsert(New(j), at) = j
      BY <1>6, <3>2
    <3>6. t[New(j) + 1] = s[BeforeInsert(New(j), at) + 1]
      BY <1>2, <3>5
    <3>3. New(j) \in 0 .. Len(s) /\ t[New(j) + 1] = y
      BY <3>1, <3>5, <3>6
    <3>4. New(j) \in Indexes(t)
      BY <1>1, <1>2, <3>3 DEF Indexes
    <3> QED BY <3>3, <3>4 DEF Has
  <2>3. Has(t, x)
    <3>1. at \in Indexes(t)
      BY <1>1, <1>2 DEF Indexes
    <3> QED BY <1>2, <3>1 DEF Has
  <2> QED BY <2>1, <2>2, <2>3
<1>12. ASSUME NEW j \in Indexes(t), j # at
       PROVE  /\ j \in 0 .. Len(s) /\ BeforeInsert(j, at) \in Indexes(s)
              /\ t[j + 1] = s[BeforeInsert(j, at) + 1] /\ t[j + 1] # x
  <2>1. j \in 0 .. Len(s)
    BY <1>1, <1>2 DEF Indexes
  <2> QED BY <1>2, <1>7, <1>12, <2>1 DEF Has
<1>13. Distinct(t)
  <2> SUFFICES ASSUME NEW i \in Indexes(t), NEW j \in Indexes(t), t[i + 1] = t[j + 1] PROVE i = j
    BY DEF Distinct
  <2>1. CASE i # at /\ j # at
    <3>1. BeforeInsert(i, at) = BeforeInsert(j, at)
      BY <1>12, <2>1 DEF Distinct
    <3>2. i \in Nat /\ j \in Nat
      BY <1>12, <2>1
    <3> QED BY <1>1, <2>1, <3>1, <3>2 DEF BeforeInsert
  <2>2. CASE i = at \/ j = at
    BY <1>2, <1>12, <2>2
  <2> QED BY <2>1, <2>2
<1>14. MovesRight(b, t, D, J, ns)
  <2>1. DOMAIN ns = DOMAIN ms
    BY DEF ns
  <2>2. ASSUME NEW n \in DOMAIN ms
        PROVE  ns[n].from \in D /\ ns[n].to \in J /\ b[ns[n].from + 1] = t[ns[n].to + 1]
    <3> DEFINE j == ms[n].to
    <3>1. ms[n].from \in D /\ j \in I /\ b[ms[n].from + 1] = s[j + 1]
      BY <1>1 DEF MovesRight
    <3>5. j \in Indexes(s)
      BY <1>1, <3>1
    <3> HIDE DEF j
    <3>2. j \in Nat /\ j < Len(s)
      BY <1>1, <3>5 DEF Indexes
    <3>3. New(j) \in Nat /\ New(j) # at /\ BeforeInsert(New(j), at) = j /\ New(j) \in 0 .. Len(s)
      BY <1>6, <3>2
    <3>6. New(j) \in J
      BY <1>3, <3>1, <3>3
    <3>4. New(j) \in J /\ t[New(j) + 1] = s[j + 1]
      BY <1>2, <3>3, <3>6, SMTT(60)
    <3> QED BY <1>8, <3>1, <3>4 DEF j
  <2>3. ASSUME NEW i \in D, Has(t, b[i + 1]) PROVE \E n \in DOMAIN ns : ns[n].from = i
    <3>1. i \in Indexes(b) /\ b[i + 1] \in Nat
      BY <1>1 DEF Indexes
    <3>2. b[i + 1] # x
      BY <3>1 DEF Has
    <3>3. Has(s, b[i + 1])
      BY <1>11, <2>3, <3>1, <3>2
    <3> QED BY <1>1, <1>8, <2>1, <3>3 DEF MovesRight
  <2>4. \A n, k \in DOMAIN ns : ns[n].from = ns[k].from => n = k
    BY <1>1, <1>8, <2>1 DEF MovesRight
  <2> QED BY <2>1, <2>2, <2>3, <2>4 DEF MovesRight
<1>15. d.modifications \subseteq Indexes(t)
  <2> SUFFICES ASSUME NEW j \in d.modifications PROVE j \in Indexes(t)
    OBVIOUS
  <2>1. j \in Nat /\ j # at /\ BeforeInsert(j, at) \in 0 .. Len(s) - 1
    BY <1>1, <1>4, <1>5, <1>9 DEF Indexes
  <2> QED BY <1>1, <1>2, <2>1 DEF Indexes, BeforeInsert
<1>16. SameMarks(s, c, t, d)
  <2>1. ASSUME NEW i \in Indexes(s), NEW j \in Indexes(t), s[i + 1] = t[j + 1]
        PROVE  i \in c.modifications <=> j \in d.modifications
    <3>1. j # at
      BY <1>2, <2>1 DEF Has
    <3>2. i = BeforeInsert(j, at) /\ j \in Nat
      BY <1>12, <2>1, <3>1 DEF Distinct
    <3> QED BY <1>4, <1>9, <3>1, <3>2
  <2> QED BY <1>1, <1>2, <1>13, <1>15, <2>1, MarksBy
<1>17. Right(b, t, d)
  BY <1>9, <1>10, <1>14, <1>15 DEF Right
<1> QED BY <1>11, <1>13, <1>16, <1>17 DEF t, d
LEMMA EraseRight ==
    ASSUME NEW b \in Seq(Nat), NEW s \in Seq(Nat), NEW c, Right(b, s, c), Distinct(s),
           NEW at \in Indexes(s)
    PROVE  LET t == RemoveAt(s, at + 1) IN
           /\ Right(b, t, Erase(c, at)) /\ Distinct(t) /\ SameMarks(s, c, t, Erase(c, at))
           /\ \A y \in Nat : Has(t, y) => Has(s, y)
<1> DEFINE t == RemoveAt(s, at + 1)
           d == Erase(c, at)
           D == c.deletions
           I == c.insertions
           ms == c.moves
           J == EraseAt(I, at)
           E == After(D, I, at)
           T == {m \in ToSet(ms) : m.to # at}
           kept == Only(ms, T)
           F == [j \in Nat |-> AfterErase(j, at)]
           ns == [k \in DOMAIN kept |-> [kept[k] EXCEPT !.to = AfterErase(@, at)]]
<1>1. /\ c \in Changes /\ D \in SUBSET Nat /\ I \in SUBSET Nat /\ c.modifications \in SUBSET Nat
      /\ ms \in MoveSeqs /\ Applies(b, s, D, I) /\ MovesRight(b, s, D, I, ms)
      /\ D \subseteq Indexes(b) /\ I \subseteq Indexes(s) /\ c.modifications \subseteq Indexes(s)
      /\ Len(s) \in Nat /\ at \in Nat /\ Len(b) \in Nat /\ at < Len(s)
  <2>1. at \in Nat /\ at < Len(s)
    BY DEF Indexes
  <2> QED BY <2>1, RightType
<1>2. /\ t \in Seq(Nat) /\ Len(t) = Len(s) - 1
      /\ \A j \in 0 .. Len(s) - 2 : t[j + 1] = s[BeforeErase(j, at) + 1]
  BY RemoveAtRows
<1>3. J \in SUBSET Nat /\ \A j \in Nat : j \in J <=> BeforeErase(j, at) \in I
  BY <1>1, ErasedSet
<1>4. /\ EraseAt(c.modifications, at) \in SUBSET Nat
      /\ \A j \in Nat : j \in EraseAt(c.modifications, at) <=> BeforeErase(j, at) \in c.modifications
  BY <1>1, ErasedSet
<1>5. \A j \in Nat : j # at => /\ AfterErase(j, at) \in Nat /\ BeforeErase(AfterErase(j, at), at) = j
                               /\ j < Len(s) => AfterErase(j, at) \in 0 .. Len(s) - 2
  BY <1>1 DEF AfterErase, BeforeErase
<1>6. \A j \in 0 .. Len(s) - 2 : BeforeErase(j, at) \in Indexes(s) /\ BeforeErase(j, at) # at
  BY <1>1 DEF BeforeErase, Indexes
<1>7. /\ kept \in MoveSeqs
      /\ \E g : Picks(g, kept, ms, Len(ms), T)
  BY <1>1, OnlyPicks DEF MoveSeqs
<1>8. PICK g : Picks(g, kept, ms, Len(ms), T)
  BY <1>7
<1> HIDE DEF kept
<1>9. /\ ns \in MoveSeqs /\ DOMAIN ns = DOMAIN kept
      /\ \A k \in DOMAIN kept : ns[k].from = kept[k].from /\ ns[k].to = AfterErase(kept[k].to, at)
  <2>1. \A k \in DOMAIN kept : kept[k].to \in Nat
    BY <1>7, MoveType
  <2>2. \A j \in Nat : F[j] \in Nat /\ F[j] = AfterErase(j, at)
    BY <1>1 DEF AfterErase
  <2> HIDE DEF F
  <2>3. ns = WithTo(kept, F)
    BY <2>1, <2>2 DEF WithTo
  <2>4. WithTo(kept, F) \in MoveSeqs /\ DOMAIN WithTo(kept, F) = DOMAIN kept
        /\ \A k \in DOMAIN kept : WithTo(kept, F)[k].from = kept[k].from
                                  /\ WithTo(kept, F)[k].to = F[kept[k].to]
    BY <1>7, <2>2, MovesTo
  <2> HIDE DEF ns
  <2> QED BY <2>1, <2>2, <2>3, <2>4
<1>10. Deleted(c, at) = E
  BY DEF Deleted, After, AddShifted, To
<1>11. Applies(b, t, E, J)
  BY <1>1, EraseApplies
<1>12. E \in SUBSET Nat
  BY <1>2, <1>11, AppliesType
<1>13. /\ d \in Changes /\ d.deletions = E /\ d.insertions = J /\ d.moves = ns
       /\ d.modifications = EraseAt(c.modifications, at)
  <2>1. d = [c EXCEPT !.modifications = EraseAt(@, at), !.insertions = EraseAt(@, at),
                      !.deletions = Deleted(c, at), !.moves = ns]
    BY DEF Erase, kept
  <2> HIDE DEF ns
  <2> QED BY <1>1, <1>3, <1>4, <1>9, <1>10, <1>12, <2>1 DEF Changes
<1> HIDE DEF t, d, J, ns
<1>14. ASSUME NEW j \in Indexes(t)
       PROVE  /\ j \in 0 .. Len(s) - 2 /\ j \in Nat /\ BeforeErase(j, at) \in Indexes(s)
              /\ BeforeErase(j, at) # at
              /\ t[j + 1] = s[BeforeErase(j, at) + 1] /\ t[j + 1] # s[at + 1]
  <2>1. j \in 0 .. Len(s) - 2 /\ j \in Nat
    BY <1>1, <1>2 DEF Indexes
  <2>2. BeforeErase(j, at) \in Indexes(s) /\ BeforeErase(j, at) # at
    BY <1>6, <2>1
  <2>3. t[j + 1] = s[BeforeErase(j, at) + 1]
    BY <1>2, <2>1
  <2>4. s[BeforeErase(j, at) + 1] # s[at + 1]
    BY <2>2 DEF Distinct
  <2> QED BY <2>1, <2>2, <2>3, <2>4
<1>15. \A y \in Nat : Has(t, y) => Has(s, y)
  BY <1>14 DEF Has
<1>16. Distinct(t)
  <2> SUFFICES ASSUME NEW i \in Indexes(t), NEW j \in Indexes(t), t[i + 1] = t[j + 1] PROVE i = j
    BY DEF Distinct
  <2>1. BeforeErase(i, at) = BeforeErase(j, at)
    BY <1>14 DEF Distinct
  <2>2. i \in Nat /\ j \in Nat
    BY <1>14
  <2> QED BY <1>1, <2>1, <2>2 DEF BeforeErase
<1>17. DOMAIN ms = 1 .. Len(ms) /\ DOMAIN kept = 1 .. Len(kept)
  BY <1>1, <1>7, MoveType
<1>18. ASSUME NEW n \in DOMAIN kept
       PROVE  g[n] \in DOMAIN ms /\ kept[n] = ms[g[n]] /\ ms[g[n]].to # at
  BY <1>8, <1>17 DEF Picks
<1>19. MovesRight(b, t, E, J, ns)
  <2>1. ASSUME NEW n \in DOMAIN kept
        PROVE  ns[n].from \in E /\ ns[n].to \in J /\ b[ns[n].from + 1] = t[ns[n].to + 1]
    <3> DEFINE j == kept[n].to
    <3>1. kept[n].from \in D /\ j \in I /\ b[kept[n].from + 1] = s[j + 1] /\ j # at
      BY <1>1, <1>18, SMTT(60) DEF MovesRight
    <3>2. j \in Indexes(s)
      BY <1>1, <3>1
    <3> HIDE DEF j
    <3>3. j \in Nat /\ j < Len(s)
      BY <1>1, <3>2 DEF Indexes
    <3>4. AfterErase(j, at) \in 0 .. Len(s) - 2 /\ BeforeErase(AfterErase(j, at), at) = j
          /\ AfterErase(j, at) \in Nat
      BY <1>5, <3>1, <3>3
    <3>5. AfterErase(j, at) \in J
      BY <1>3, <3>1, <3>4
    <3>6. t[AfterErase(j, at) + 1] = s[BeforeErase(AfterErase(j, at), at) + 1]
      BY <1>2, <3>4
    <3>7. D \subseteq E
      BY DEF After
    <3> HIDE DEF D, E
    <3> QED BY <1>9, <3>1, <3>4, <3>5, <3>6, <3>7 DEF j
  <2>2. ASSUME NEW i \in E, Has(t, b[i + 1]) PROVE \E n \in DOMAIN kept : kept[n].from = i
    <3>1. PICK j \in Indexes(t) : t[j + 1] = b[i + 1]
      BY <2>2 DEF Has
    <3>2. i \in D
      <4> SUFFICES ASSUME i \notin D PROVE FALSE
        OBVIOUS
      <4>1. at \notin I /\ i = To(I, D, at)
        BY DEF After
      <4>2. s[at + 1] = b[i + 1]
        BY <1>1, <4>1, AppliesBack
      <4> QED BY <1>14, <3>1, <4>2
    <3>3. Has(s, b[i + 1])
      BY <1>14, <3>1 DEF Has
    <3>4. PICK n \in DOMAIN ms : ms[n].from = i
      BY <1>1, <3>2, <3>3 DEF MovesRight
    <3>5. ms[n].to \in Indexes(s) /\ s[ms[n].to + 1] = b[i + 1]
      BY <1>1, <3>4 DEF MovesRight
    <3>6. ms[n].to # at
      BY <1>14, <3>1, <3>5
    <3>7. ms[n] \in T
      BY <3>6 DEF ToSet
    <3>8. PICK k \in 1 .. Len(kept) : g[k] = n
      BY <1>8, <1>17, <3>7 DEF Picks
    <3> QED BY <1>17, <1>18, <3>4, <3>8
  <2>3. ASSUME NEW n \in DOMAIN kept, NEW k \in DOMAIN kept, kept[n].from = kept[k].from PROVE n = k
    <3>1. g[n] = g[k]
      BY <1>1, <1>18, <2>3 DEF MovesRight
    <3> QED BY <1>8, <1>17, <3>1 DEF Picks
  <2> HIDE DEF E, D, I, ms
  <2> QED BY <1>9, <2>1, <2>2, <2>3 DEF MovesRight
<1>20. d.modifications \subseteq Indexes(t)
  <2> SUFFICES ASSUME NEW j \in d.modifications PROVE j \in Indexes(t)
    OBVIOUS
  <2>1. j \in Nat /\ BeforeErase(j, at) \in 0 .. Len(s) - 1
    BY <1>1, <1>4, <1>13 DEF Indexes
  <2> QED BY <1>1, <1>2, <2>1 DEF Indexes, BeforeErase
<1>21. SameMarks(s, c, t, d)
  <2>1. ASSUME NEW i \in Indexes(s), NEW j \in Indexes(t), s[i + 1] = t[j + 1]
        PROVE  i \in c.modifications <=> j \in d.modifications
    <3>1. i = BeforeErase(j, at) /\ j \in Nat
      BY <1>14, <2>1 DEF Distinct
    <3> QED BY <1>4, <1>13, <3>1
  <2> QED BY <1>1, <1>2, <1>16, <1>20, <2>1, MarksBy
<1>22. Right(b, t, d)
  BY <1>11, <1>13, <1>19, <1>20 DEF Right
<1> QED BY <1>15, <1>16, <1>21, <1>22 DEF t, d

(* Where the slot at j goes when one is moved, and where the one at j comes from *)
MovedTo(j, from, to) == IF j = from THEN to ELSE ShiftForMove(j, from, to)
MovedFrom(j, from, to) == IF j = to THEN from ELSE BeforeErase(BeforeInsert(j, to), from)

LEMMA MovedToFrom ==
    ASSUME NEW from \in Nat, NEW to \in Nat, NEW n \in Nat, from < n, to < n, NEW j \in Nat
    PROVE  /\ MovedTo(j, from, to) \in Nat /\ MovedFrom(j, from, to) \in Nat
           /\ MovedFrom(MovedTo(j, from, to), from, to) = j
           /\ MovedTo(MovedFrom(j, from, to), from, to) = j
           /\ j < n => MovedTo(j, from, to) < n /\ MovedFrom(j, from, to) < n
           /\ j < n /\ j # to => BeforeInsert(j, to) \in 0 .. n - 2
<1> USE DEF MovedTo, MovedFrom, BeforeErase, BeforeInsert, ShiftForMove
<1>1. MovedTo(j, from, to) \in Nat /\ MovedFrom(j, from, to) \in Nat
  OBVIOUS
<1>2. MovedFrom(MovedTo(j, from, to), from, to) = j
  OBVIOUS
<1>3. MovedTo(MovedFrom(j, from, to), from, to) = j
  OBVIOUS
<1>4. j < n => MovedTo(j, from, to) < n /\ MovedFrom(j, from, to) < n
  OBVIOUS
<1>5. j < n /\ j # to => BeforeInsert(j, to) \in 0 .. n - 2
  OBVIOUS
<1> QED BY <1>1, <1>2, <1>3, <1>4, <1>5

LEMMA MoveRight ==
    ASSUME NEW b \in Seq(Nat), NEW s \in Seq(Nat), NEW c, Right(b, s, c), Distinct(s),
           NEW from \in Indexes(s), NEW to \in Indexes(s)
    PROVE  LET t == InsertAt(RemoveAt(s, from + 1), to + 1, s[from + 1]) IN
           /\ Right(b, t, Move(c, from, to)) /\ Distinct(t) /\ SameMarks(s, c, t, Move(c, from, to))
           /\ Len(t) = Len(s) /\ \A y \in Nat : Has(t, y) => Has(s, y)
<1> DEFINE r == RemoveAt(s, from + 1)
           t == InsertAt(r, to + 1, s[from + 1])
           d == Move(c, from, to)
           D == c.deletions
           I == c.insertions
           M == c.modifications
           ms == c.moves
           K == EraseAt(I, from)
           J == InsertRange(K, to, 1)
           E == After(D, I, from)
           N == IF from \in M THEN InsertRange(EraseAt(M, from), to, 1)
                ELSE ShiftForInsertAt(EraseAt(M, from), to, 1)
           Old(j) == MovedFrom(j, from, to)
           New(j) == MovedTo(j, from, to)
           F == [j \in Nat |-> New(j)]
           ns == [k \in DOMAIN ms |->
                    [ms[k] EXCEPT !.to = IF @ = from THEN to ELSE ShiftForMove(@, from, to)]]
           added == [from |-> To(I, D, from), to |-> to]
           os == IF from \in I THEN ns ELSE Append(ns, added)
<1>1. /\ c \in Changes /\ D \in SUBSET Nat /\ I \in SUBSET Nat /\ M \in SUBSET Nat
      /\ ms \in MoveSeqs /\ Applies(b, s, D, I) /\ MovesRight(b, s, D, I, ms)
      /\ D \subseteq Indexes(b) /\ I \subseteq Indexes(s) /\ M \subseteq Indexes(s)
      /\ Len(s) \in Nat /\ Len(b) \in Nat
      /\ from \in Nat /\ from < Len(s) /\ to \in Nat /\ to < Len(s) /\ s[from + 1] \in Nat
  <2>1. from \in Nat /\ from < Len(s) /\ to \in Nat /\ to < Len(s)
    BY DEF Indexes
  <2>2. s[from + 1] \in Nat
    BY <2>1
  <2> QED BY <2>1, <2>2, RightType
<1>2. /\ r \in Seq(Nat) /\ Len(r) = Len(s) - 1
      /\ \A j \in 0 .. Len(s) - 2 : r[j + 1] = s[BeforeErase(j, from) + 1]
  BY RemoveAtRows
<1>3. to \in 0 .. Len(r)
  BY <1>1, <1>2
<1>4. /\ t \in Seq(Nat) /\ Len(t) = Len(r) + 1 /\ t[to + 1] = s[from + 1]
      /\ \A j \in 0 .. Len(r) : j # to => t[j + 1] = r[BeforeInsert(j, to) + 1]
  <2> DEFINE x == s[from + 1]
  <2>1. t = InsertAt(r, to + 1, x) /\ x \in Nat
    BY <1>1
  <2> HIDE DEF r, x, t
  <2>2. /\ InsertAt(r, to + 1, x) \in Seq(Nat) /\ Len(InsertAt(r, to + 1, x)) = Len(r) + 1
        /\ InsertAt(r, to + 1, x)[to + 1] = x
        /\ \A j \in 0 .. Len(r) : j # to => InsertAt(r, to + 1, x)[j + 1] = r[BeforeInsert(j, to) + 1]
    BY <1>2, <1>3, <2>1, InsertAtRows, ZenonT(60)
  <2> QED BY <2>1, <2>2 DEF x
<1>5. Applies(b, t, E, J)
  <2>1. Applies(b, r, E, K)
    BY <1>1, EraseApplies
  <2> HIDE DEF r, E, K
  <2> QED BY <1>1, <1>2, <1>3, <2>1, InsertApplies
<1> HIDE DEF r, t
<1>6. /\ \A j \in Nat : /\ New(j) \in Nat /\ Old(j) \in Nat /\ Old(New(j)) = j /\ New(Old(j)) = j
                        /\ j < Len(s) => New(j) < Len(s) /\ Old(j) < Len(s)
      /\ \A j \in 0 .. Len(s) - 1 : j # to => BeforeInsert(j, to) \in 0 .. Len(s) - 2
  <2> DEFINE n == Len(s)
  <2>1. n \in Nat /\ from \in Nat /\ to \in Nat /\ from < n /\ to < n
    BY <1>1
  <2> HIDE DEF n
  <2>2. ASSUME NEW j \in Nat
        PROVE  /\ New(j) \in Nat /\ Old(j) \in Nat /\ Old(New(j)) = j /\ New(Old(j)) = j
               /\ j < n => New(j) < n /\ Old(j) < n
               /\ j < n /\ j # to => BeforeInsert(j, to) \in 0 .. n - 2
    <3>1. /\ MovedTo(j, from, to) \in Nat /\ MovedFrom(j, from, to) \in Nat
          /\ MovedFrom(MovedTo(j, from, to), from, to) = j
          /\ MovedTo(MovedFrom(j, from, to), from, to) = j
          /\ j < n => MovedTo(j, from, to) < n /\ MovedFrom(j, from, to) < n
          /\ j < n /\ j # to => BeforeInsert(j, to) \in 0 .. n - 2
      BY <2>1, MovedToFrom
    <3>2. New(j) = MovedTo(j, from, to) /\ Old(j) = MovedFrom(j, from, to)
      OBVIOUS
    <3>3. Old(New(j)) = MovedFrom(New(j), from, to) /\ New(Old(j)) = MovedTo(Old(j), from, to)
      OBVIOUS
    <3> HIDE DEF New, Old
    <3> QED BY <3>1, <3>2, <3>3
  <2>3. \A j \in 0 .. n - 1 : j \in Nat /\ j < n
    BY <2>1
  <2>4. \A j \in 0 .. n - 1 : j # to => BeforeInsert(j, to) \in 0 .. n - 2
    BY <2>2, <2>3
  <2> HIDE DEF Old, New
  <2> QED BY <2>2, <2>4 DEF n
<1>7. \A j \in Nat : (j = to => Old(j) = from) /\ (j # to => Old(j) = BeforeErase(BeforeInsert(j, to), from))
  BY DEF MovedFrom
<1>8. /\ K \in SUBSET Nat /\ EraseAt(M, from) \in SUBSET Nat
      /\ \A j \in Nat : j \in K <=> BeforeErase(j, from) \in I
      /\ \A j \in Nat : j \in EraseAt(M, from) <=> BeforeErase(j, from) \in M
  BY <1>1, ErasedSet
<1>9. \A j \in Nat : BeforeInsert(j, to) \in Nat
  BY <1>1 DEF BeforeInsert
<1>10. J \in SUBSET Nat /\ \A j \in Nat : j \in J <=> j = to \/ Old(j) \in I
  <2>1. J \in SUBSET Nat /\ \A j \in Nat : j \in J <=> j = to \/ BeforeInsert(j, to) \in K
    <3> HIDE DEF K
    <3> QED BY <1>1, <1>8, ShiftedSet
  <2> HIDE DEF J, K, Old
  <2> QED BY <1>7, <1>8, <1>9, <2>1
<1>11. N \in SUBSET Nat /\ \A j \in Nat : j \in N <=> Old(j) \in M
  <2> DEFINE L == EraseAt(M, from)
  <2>1. /\ InsertRange(L, to, 1) \in SUBSET Nat /\ ShiftForInsertAt(L, to, 1) \in SUBSET Nat
        /\ \A j \in Nat : j \in InsertRange(L, to, 1) <=> j = to \/ BeforeInsert(j, to) \in L
        /\ \A j \in Nat : j \in ShiftForInsertAt(L, to, 1) <=> j # to /\ BeforeInsert(j, to) \in L
    <3>1. L \in SUBSET Nat
      BY <1>8
    <3> HIDE DEF L
    <3> QED BY <1>1, <3>1, ShiftedSet
  <2>2. \A j \in Nat : j \in L <=> BeforeErase(j, from) \in M
    BY <1>8
  <2> HIDE DEF L, Old, M
  <2>3. ASSUME NEW j \in Nat PROVE j \in N <=> Old(j) \in M
    BY <1>7, <1>9, <2>1, <2>2 DEF L
  <2> QED BY <2>1, <2>3 DEF L
<1> HIDE DEF J, K, N, E, Old, New
<1>12. /\ ns \in MoveSeqs /\ DOMAIN ns = DOMAIN ms
       /\ \A k \in DOMAIN ms : ns[k].from = ms[k].from /\ ns[k].to = New(ms[k].to)
  <2>1. \A k \in DOMAIN ms : ms[k].to \in Nat
    BY <1>1, MoveType
  <2>2. \A j \in Nat : F[j] \in Nat /\ F[j] = New(j)
                       /\ F[j] = IF j = from THEN to ELSE ShiftForMove(j, from, to)
    BY <1>6 DEF New, MovedTo
  <2> HIDE DEF F, ms
  <2>3. ns = WithTo(ms, F)
    BY <2>1, <2>2 DEF WithTo
  <2>4. /\ WithTo(ms, F) \in MoveSeqs /\ DOMAIN WithTo(ms, F) = DOMAIN ms
        /\ \A k \in DOMAIN ms : WithTo(ms, F)[k].from = ms[k].from
                                /\ WithTo(ms, F)[k].to = F[ms[k].to]
    <3>1. ms \in MoveSeqs /\ \A j \in Nat : F[j] \in Nat
      BY <1>1, <2>2
    <3> QED BY <3>1, MovesTo
  <2> HIDE DEF ns
  <2> QED BY <2>1, <2>2, <2>3, <2>4
<1>13. E \in SUBSET Nat /\ E = (IF from \in I THEN D ELSE D \cup {To(I, D, from)})
  <2>1. E \in SUBSET Nat
    BY <1>4, <1>5, AppliesType
  <2> QED BY <2>1 DEF E, After
<1>14. from \notin I => /\ To(I, D, from) \in Nat \ D /\ b[To(I, D, from) + 1] = s[from + 1]
  <2> HIDE DEF D, I
  <2> QED BY <1>1, AppliesBack
<1>15. /\ os \in MoveSeqs
       /\ from \in I => os = ns
       /\ from \notin I => /\ DOMAIN os = DOMAIN ns \cup {Len(ns) + 1} /\ Len(ns) + 1 \notin DOMAIN ns
                           /\ os[Len(ns) + 1] = added
                           /\ \A k \in DOMAIN ns : os[k] = ns[k]
  <2>1. CASE from \in I
    BY <1>12, <2>1
  <2>2. CASE from \notin I
    <3>1. added \in [from : Nat, to : Nat]
      BY <1>1, <1>14, <2>2
    <3>2. ns \in Seq([from : Nat, to : Nat])
      BY <1>12 DEF MoveSeqs
    <3>3. os = Append(ns, added)
      BY <2>2
    <3> HIDE DEF ns, added, os
    <3> DEFINE S == [from : Nat, to : Nat]
    <3> HIDE DEF S
    <3>4. Append(ns, added) \in Seq(S)
      BY <3>1, <3>2 DEF S
    <3>5. ns \in Seq(S) /\ added \in S
      BY <3>1, <3>2 DEF S
    <3>6. /\ DOMAIN Append(ns, added) = DOMAIN ns \cup {Len(ns) + 1} /\ Len(ns) + 1 \notin DOMAIN ns
          /\ Append(ns, added)[Len(ns) + 1] = added
          /\ \A k \in DOMAIN ns : Append(ns, added)[k] = ns[k]
      BY <3>5
    <3> QED BY <2>2, <3>3, <3>4, <3>6 DEF S, MoveSeqs
  <2> QED BY <2>1, <2>2
<1>16. /\ d \in Changes /\ d.deletions = E /\ d.insertions = J /\ d.moves = os /\ d.modifications = N
  <2> DEFINE again == \E k \in DOMAIN ms : ms[k].to = from
  <2>1. (again \/ from \in I) <=> from \in I
    BY <1>1 DEF MovesRight
  <2>2. d = [c EXCEPT !.insertions = J,
               !.deletions = IF again \/ from \in I THEN @ ELSE @ \cup {To(I, D, from)},
               !.moves = IF again \/ from \in I THEN ns ELSE Append(ns, added),
               !.modifications = N]
    BY <1>1 DEF Move, To, J, K, N, Changes
  <2> HIDE DEF again, ns, d, added
  <2>3. d = [c EXCEPT !.insertions = J, !.deletions = E, !.moves = os, !.modifications = N]
    BY <1>1, <1>13, <2>1, <2>2 DEF Changes
  <2> HIDE DEF os
  <2> QED BY <1>1, <1>10, <1>11, <1>13, <1>15, <2>3 DEF Changes
<1> HIDE DEF d, D, I, ms, M, ns, os
<1>17. Len(t) = Len(s) /\ Indexes(t) = Indexes(s)
  BY <1>1, <1>2, <1>4 DEF Indexes
<1>18. \A j \in Indexes(s) : j \in Nat /\ Old(j) \in Indexes(s) /\ t[j + 1] = s[Old(j) + 1]
  <2> SUFFICES ASSUME NEW j \in Indexes(s)
               PROVE  j \in Nat /\ Old(j) \in Indexes(s) /\ t[j + 1] = s[Old(j) + 1]
    OBVIOUS
  <2>1. j \in Nat /\ j < Len(s) /\ j \in 0 .. Len(s) - 1 /\ j \in 0 .. Len(r)
    BY <1>1, <1>2 DEF Indexes
  <2>2. Old(j) \in Nat /\ Old(j) < Len(s)
    BY <1>6, <2>1
  <2>3. Old(j) \in Indexes(s)
    BY <1>1, <2>2 DEF Indexes
  <2>4. CASE j = to
    BY <1>4, <1>7, <2>1, <2>3, <2>4
  <2>5. CASE j # to
    <3> DEFINE k == BeforeInsert(j, to)
    <3>1. k \in 0 .. Len(s) - 2 /\ t[j + 1] = r[k + 1]
      BY <1>4, <1>6, <2>1, <2>5
    <3> HIDE DEF k
    <3>2. t[j + 1] = s[BeforeErase(k, from) + 1]
      BY <1>2, <3>1
    <3> QED BY <1>7, <2>1, <2>3, <2>5, <3>2 DEF k
  <2> QED BY <2>4, <2>5
<1>19. Distinct(t)
  <2> SUFFICES ASSUME NEW i \in Indexes(t), NEW j \in Indexes(t), t[i + 1] = t[j + 1] PROVE i = j
    BY DEF Distinct
  <2>1. Old(i) = Old(j) /\ i \in Nat /\ j \in Nat
    BY <1>17, <1>18 DEF Distinct
  <2> QED BY <1>6, <2>1
<1>20. \A y \in Nat : Has(t, y) => Has(s, y)
  BY <1>17, <1>18 DEF Has
<1>21. \A j \in I : New(j) \in J /\ t[New(j) + 1] = s[j + 1]
  <2> SUFFICES ASSUME NEW j \in I PROVE New(j) \in J /\ t[New(j) + 1] = s[j + 1]
    OBVIOUS
  <2>1. j \in Nat /\ j < Len(s)
    BY <1>1 DEF Indexes
  <2>2. New(j) \in Nat /\ New(j) < Len(s) /\ Old(New(j)) = j
    BY <1>6, <2>1
  <2>3. New(j) \in Indexes(s)
    BY <1>1, <2>2 DEF Indexes
  <2> QED BY <1>10, <1>18, <2>2, <2>3, SMTT(60)
<1>22. MovesRight(b, t, E, J, os)
  <2>1. ASSUME NEW n \in DOMAIN ns
        PROVE  ns[n].from \in D /\ ns[n].to \in J /\ b[ns[n].from + 1] = t[ns[n].to + 1]
    <3>1. ms[n].from \in D /\ ms[n].to \in I /\ b[ms[n].from + 1] = s[ms[n].to + 1]
      BY <1>1, <1>12 DEF MovesRight
    <3> QED BY <1>12, <1>21, <3>1
  <2>2. D \subseteq E
    BY <1>13
  <2>3. \A n, k \in DOMAIN ns : ns[n].from = ns[k].from => n = k
    BY <1>1, <1>12 DEF MovesRight
  <2>4. ASSUME NEW i \in D, Has(t, b[i + 1]) PROVE \E n \in DOMAIN ns : ns[n].from = i
    <3>1. i \in Indexes(b)
      BY <1>1
    <3>2. b[i + 1] \in Nat
      BY <3>1 DEF Indexes
    <3>3. Has(s, b[i + 1])
      BY <1>20, <2>4, <3>2
    <3> QED BY <1>1, <1>12, <3>3 DEF MovesRight
  <2>5. CASE from \in I
    BY <1>13, <1>15, <2>1, <2>3, <2>4, <2>5 DEF MovesRight
  <2>6. CASE from \notin I
    <3> DEFINE k == Len(ns) + 1
               so == To(I, D, from)
    <3>1. added.from = so /\ added.to = to /\ so \in E /\ so \notin D /\ to \in J /\ b[so + 1] = t[to + 1]
      BY <1>1, <1>4, <1>10, <1>13, <1>14, <2>6
    <3>2. /\ DOMAIN os = DOMAIN ns \cup {k} /\ k \notin DOMAIN ns /\ os[k] = added
          /\ \A n \in DOMAIN ns : os[n] = ns[n]
      BY <1>15, <2>6
    <3>3. E = D \cup {so}
      BY <1>13, <2>6
    <3> HIDE DEF k, so, added
    <3>4. \A n \in DOMAIN os : os[n].from \in E /\ os[n].to \in J /\ b[os[n].from + 1] = t[os[n].to + 1]
      BY <2>1, <2>2, <3>1, <3>2
    <3>5. \A n, l \in DOMAIN os : os[n].from = os[l].from => n = l
      BY <2>1, <2>3, <3>1, <3>2
    <3>6. \A i \in E : Has(t, b[i + 1]) => \E n \in DOMAIN os : os[n].from = i
      BY <2>4, <3>1, <3>2, <3>3, SMTT(60)
    <3> QED BY <3>4, <3>5, <3>6 DEF MovesRight
  <2> QED BY <2>5, <2>6
<1>23. d.modifications \subseteq Indexes(t)
  <2> SUFFICES ASSUME NEW j \in N PROVE j \in Indexes(t)
    BY <1>16
  <2>3. j \in Nat /\ Old(j) \in Indexes(s)
    BY <1>1, <1>11
  <2>1. j \in Nat /\ Old(j) \in Nat /\ Old(j) < Len(s) /\ New(Old(j)) = j
    BY <1>1, <1>6, <2>3 DEF Indexes
  <2>2. j < Len(s)
    BY <1>6, <2>1
  <2> QED BY <1>1, <1>17, <2>1, <2>2 DEF Indexes
<1>24. SameMarks(s, c, t, d)
  <2>1. ASSUME NEW i \in Indexes(s), NEW j \in Indexes(t), s[i + 1] = t[j + 1]
        PROVE  i \in c.modifications <=> j \in d.modifications
    <3>1. i = Old(j) /\ j \in Nat
      BY <1>17, <1>18, <2>1 DEF Distinct
    <3> QED BY <1>11, <1>16, <3>1 DEF M
  <2> QED BY <1>1, <1>4, <1>19, <1>23, <2>1, MarksBy DEF M
<1>25. Right(b, t, d)
  BY <1>5, <1>16, <1>22, <1>23 DEF Right
<1> QED BY <1>17, <1>19, <1>20, <1>24, <1>25 DEF t, d, r

LEMMA ModifyRight ==
    ASSUME NEW b \in Seq(Nat), NEW s \in Seq(Nat), NEW c, Right(b, s, c), NEW i \in Indexes(s)
    PROVE  Right(b, s, Modify(c, i)) /\ Marks(s, Modify(c, i)) = Marks(s, c) \cup {s[i + 1]}
<1> DEFINE d == Modify(c, i)
<1>1. c \in Changes /\ i \in Nat
  BY DEF Right, Indexes
<1>2. /\ d \in Changes /\ d.deletions = c.deletions /\ d.insertions = c.insertions
      /\ d.moves = c.moves /\ d.modifications = c.modifications \cup {i}
  BY <1>1 DEF Modify, Changes
<1> HIDE DEF d
<1>3. Right(b, s, d)
  BY <1>2 DEF Right
<1>4. Marks(s, d) = Marks(s, c) \cup {s[i + 1]}
  BY <1>2 DEF Marks
<1> QED BY <1>3, <1>4 DEF d

(* As many slots stay in b as in s. *)
LEMMA AppliesEnd ==
    ASSUME NEW b \in Seq(Nat), NEW s \in Seq(Nat), NEW D, NEW I, Applies(b, s, D, I)
    PROVE  /\ Unshift(D, Len(b)) = Unshift(I, Len(s))
           /\ Unshift(D, Len(b)) = Len(b) - Cardinality(D) /\ Cardinality(D) \in Nat
           /\ Unshift(I, Len(s)) = Len(s) - Cardinality(I) /\ Cardinality(I) \in Nat
<1>1. /\ D \subseteq Indexes(b) /\ I \subseteq Indexes(s) /\ D \in SUBSET Nat /\ I \in SUBSET Nat
      /\ Finite(D) /\ Finite(I) /\ Len(b) \in Nat /\ Len(s) \in Nat
  BY AppliesType
<1>2. Len(b) \in Nat \ D /\ Len(s) \in Nat \ I
  BY <1>1 DEF Indexes
<1> DEFINE i == To(I, D, Len(s))
           j == To(D, I, Len(b))
<1>3. /\ i \in Nat \ D /\ ~(i < Len(b)) /\ To(D, I, i) = Len(s)
      /\ j \in Nat \ I /\ ~(j < Len(s))
  <2>1. j \in Nat \ I /\ ~(j < Len(s))
    <3>1. Len(b) < Len(b) <=> j < Len(s)
      BY <1>2, AppliesBack
    <3>2. j \in Nat \ I
      BY <1>2, AppliesBack
    <3> QED BY <1>1, <3>1, <3>2
  <2>2. i \in Nat \ D /\ ~(i < Len(b)) /\ To(D, I, i) = Len(s)
    <3>1. Len(s) < Len(s) <=> i < Len(b)
      BY <1>2, AppliesBack
    <3>2. i \in Nat \ D /\ To(D, I, i) = Len(s)
      BY <1>2, AppliesBack
    <3> QED BY <1>1, <3>1, <3>2
  <2> QED BY <2>1, <2>2
<1>4. j = Len(s)
  <2>1. Len(s) < j <=> i < Len(b)
    <3>1. To(D, I, i) < To(D, I, Len(b)) <=> i < Len(b)
      BY <1>1, <1>2, <1>3, ToOrder
    <3> HIDE DEF i
    <3> QED BY <1>3, <3>1
  <2> HIDE DEF i, j
  <2> QED BY <1>1, <1>3, <2>1
<1>5. Unshift(I, j) = Unshift(D, Len(b))
  BY <1>1, <1>2, ToRight
<1>6. ASSUME NEW q \in Seq(Nat), NEW S \in SUBSET Nat, S \subseteq Indexes(q)
      PROVE  Unshift(S, Len(q)) = Len(q) - Cardinality(S)
  <2>1. Below(S, Len(q)) = S
    <3>1. \A k \in S : 0 <= k /\ k < Len(q)
      BY <1>6 DEF Indexes
    <3> QED BY <3>1 DEF Below
  <2>2. Len(q) \in Nat
    OBVIOUS
  <2> QED BY <2>1, <2>2, BelowFinite
<1>7. Cardinality(D) \in Nat /\ Cardinality(I) \in Nat
  BY <1>1, FS_CardinalityType DEF Finite
<1> HIDE DEF j
<1> QED BY <1>1, <1>4, <1>5, <1>6, <1>7

LEMMA ClearRight ==
    ASSUME NEW b \in Seq(Nat), NEW s \in Seq(Nat), NEW c, Right(b, s, c), Len(s) < Npos
    PROVE  Right(b, <<>>, Clear(c, Len(s)))
<1> DEFINE d == Clear(c, Len(s))
           D == 0 .. Len(b) - 1
           n == Len(b)
           t == <<>>
           f == [i \in Nat \ D |-> i - n]
<1>1. ClearedSize(c, Len(s)) = Len(b)
  <2> DEFINE x == Cardinality(c.deletions)
             y == Cardinality(c.insertions)
  <2>1. Len(b) - x = Len(s) - y /\ x \in Nat /\ y \in Nat
    BY AppliesEnd DEF Right
  <2>2. Len(s) # Npos /\ Len(s) \in Nat /\ Len(b) \in Nat
    BY NposAssumption
  <2>3. ClearedSize(c, Len(s)) = Len(s) + x - y
    BY <2>2 DEF ClearedSize
  <2> HIDE DEF x, y
  <2> QED BY <2>1, <2>2, <2>3
<1>2. /\ d.deletions = D /\ d.insertions = {} /\ d.modifications = {} /\ d.moves = <<>> /\ d.mapping = <<>>
      /\ d = [deletions |-> D, insertions |-> {}, modifications |-> {}, moves |-> <<>>, mapping |-> <<>>]
  <2> DEFINE m == ClearedSize(c, Len(s))
  <2>1. d = [NoChanges EXCEPT !.deletions = 0 .. m - 1] /\ m = Len(b)
    BY <1>1 DEF Clear
  <2>2. 0 .. m - 1 = D
    BY <2>1
  <2> HIDE DEF d, m, D
  <2> QED BY <2>1, <2>2 DEF NoChanges
<1> HIDE DEF d
<1>3. n \in Nat /\ t \in Seq(Nat) /\ Len(t) = 0 /\ Indexes(t) = {} /\ D \in SUBSET Nat
  BY DEF Indexes
<1>4. d \in Changes
  <2>1. <<>> \in MoveSeqs
    BY DEF MoveSeqs
  <2> HIDE DEF D
  <2> QED BY <1>2, <1>3, <2>1 DEF Changes
<1>5. Applies(b, t, D, {})
  <2> HIDE DEF n, t
  <2>1. \A i \in Nat \ D : i \in Nat /\ i >= n
    BY <1>3 DEF n
  <2>2. \A i \in Nat \ D : f[i] \in Nat /\ f[i] = i - n
    BY <1>3, <2>1
  <2>3. \A j \in Nat : j + n \in Nat \ D /\ (j + n) - n = j
    BY <1>3 DEF n
  <2>4. Matches(f, D, {})
    <3>1. f \in [Nat \ D -> Nat \ {}]
      BY <2>2
    <3>2. \A i, k \in Nat \ D : i < k => f[i] < f[k]
      BY <1>3, <2>1, <2>2
    <3>3. ASSUME NEW j \in Nat \ {} PROVE \E i \in Nat \ D : f[i] = j
      BY <2>2, <2>3
    <3> HIDE DEF f, D
    <3> QED BY <3>1, <3>2, <3>3 DEF Matches
  <2>5. \A i \in Nat \ D : ~(i < Len(b)) /\ ~(f[i] < Len(t))
    BY <1>3, <2>1, <2>2 DEF n
  <2>6. D \subseteq Indexes(b) /\ {} \subseteq Indexes(t)
    BY DEF Indexes
  <2> HIDE DEF f, D
  <2> QED BY <1>3, <2>4, <2>5, <2>6, AppliesBy
<1>6. MovesRight(b, t, D, {}, <<>>)
  <2>1. DOMAIN <<>> = {}
    OBVIOUS
  <2>2. \A x : ~Has(t, x)
    BY <1>3 DEF Has
  <2> HIDE DEF t, D
  <2> QED BY <2>1, <2>2 DEF MovesRight
<1> HIDE DEF t, D
<1>7. Right(b, t, d)
  BY <1>2, <1>4, <1>5, <1>6 DEF Right
<1> QED BY <1>7 DEF t, d

-----------------------------------------------------------------------------
(* Kept *)

LEMMA RankIs ==
    ASSUME NEW S \in SUBSET Nat, NEW n \in Nat, NEW k \in 0 .. n
    PROVE  Cardinality({i \in (0 .. n - 1) \ S : i < k}) = Unshift(S, k)
<1> DEFINE A == 0 .. k - 1
<1>1. /\ IsFiniteSet(Below(S, k)) /\ Cardinality(Below(S, k)) \in 0 .. k
      /\ Unshift(S, k) = k - Cardinality(Below(S, k)) /\ k \in Nat
  BY BelowFinite
<1>2. {i \in (0 .. n - 1) \ S : i < k} = A \ S
  BY <1>1
<1>3. A \cap S = Below(S, k)
  <2>1. \A i \in S : i \in Nat
    OBVIOUS
  <2>2. \A i \in Nat : i \in A <=> 0 <= i /\ i < k
    BY <1>1
  <2> HIDE DEF A
  <2>3. \A i : i \in A \cap S <=> i \in Below(S, k)
    BY <2>1, <2>2 DEF Below
  <2> QED BY <2>3
<1>4. IsFiniteSet(A) /\ Cardinality(A) = k
  <2>1. 0 \in Int /\ k - 1 \in Int
    BY <1>1
  <2>2. IsFiniteSet(A) /\ Cardinality(A) = IF 0 > k - 1 THEN 0 ELSE (k - 1) - 0 + 1
    BY <2>1, FS_Interval
  <2> HIDE DEF A
  <2> QED BY <1>1, <2>2
<1>5. Cardinality(A \ S) = Cardinality(A) - Cardinality(A \cap S)
  BY <1>4, FS_Difference
<1> HIDE DEF A
<1> QED BY <1>1, <1>2, <1>3, <1>4, <1>5

(* The n-th slot that stays, and how many there are *)
LEMMA KeptNth ==
    ASSUME NEW s \in Seq(Nat), NEW I, I \subseteq Indexes(s)
    PROVE  LET r == Unshift(I, Len(s)) IN
           /\ r \in Nat /\ DOMAIN Kept(s, I) = 1 .. r
           /\ \A k \in Indexes(s) \ I : Unshift(I, k) + 1 \in 1 .. r /\ Kept(s, I)[Unshift(I, k) + 1] = s[k + 1]
           /\ \A n \in 1 .. r : \E k \in Indexes(s) \ I : Unshift(I, k) + 1 = n
           /\ Kept(s, I) = [n \in 1 .. r |-> Kept(s, I)[n]]
<1> DEFINE stay == Indexes(s) \ I
           r == Unshift(I, Len(s))
           Rank(k) == Cardinality({i \in stay : i < k})
           Nth(n) == CHOOSE k \in stay : Rank(k) = n - 1
<1>1. Finite(I) /\ I \in SUBSET Nat /\ Len(s) \in Nat /\ IsFiniteSet(I)
  <2>1. Finite(I)
    BY IndexesFinite
  <2>2. Len(s) \in Nat
    OBVIOUS
  <2> QED BY <2>1, <2>2 DEF Finite
<1>2. r \in Nat
  BY <1>1, UnshiftNext
<1>3. ASSUME NEW k \in 0 .. Len(s) PROVE Rank(k) = Unshift(I, k)
  BY <1>1, RankIs DEF Indexes
<1>4. Cardinality(stay) = r
  <2>1. \A i \in stay : i < Len(s)
    BY <1>1 DEF Indexes
  <2>2. {i \in stay : i < Len(s)} = stay
    BY <2>1
  <2>3. Rank(Len(s)) = r
    BY <1>1, <1>3
  <2> QED BY <2>2, <2>3
<1>5. \A k \in stay : k \in Nat /\ k \notin I /\ k < Len(s) /\ k \in 0 .. Len(s)
  BY <1>1 DEF Indexes
<1>6. ASSUME NEW k \in stay PROVE Unshift(I, k) + 1 \in 1 .. r /\ Unshift(I, k) \in Nat
  <2>1. Unshift(I, k) \in Nat
    BY <1>1, <1>5, UnshiftNext
  <2>2. Unshift(I, k) < r
    BY <1>1, <1>5, UnshiftGrows
  <2> HIDE DEF r
  <2> QED BY <1>2, <2>1, <2>2
<1>7. Kept(s, I) = [n \in 1 .. r |-> s[Nth(n) + 1]]
  BY <1>4 DEF Kept
<1>8. ASSUME NEW k \in stay PROVE Nth(Unshift(I, k) + 1) = k
  <2>1. \A l \in stay : Rank(l) = Unshift(I, l)
    BY <1>3, <1>5
  <2>2. \A l \in stay : Unshift(I, l) = Unshift(I, k) => l = k
    BY <1>1, <1>5, RankUnique
  <2>3. (Unshift(I, k) + 1) - 1 = Unshift(I, k)
    BY <1>6
  <2> HIDE DEF Rank, stay
  <2> QED BY <2>1, <2>2, <2>3
<1>9. ASSUME NEW n \in 1 .. r PROVE \E k \in stay : Unshift(I, k) + 1 = n
  <2>1. n \in Nat /\ n - 1 \in Nat /\ n - 1 < r
    BY <1>2
  <2>2. PICK k \in Nat : k \notin I /\ Unshift(I, k) = n - 1
    BY <1>1, <2>1, NthExists
  <2>3. Unshift(I, k) < r
    BY <2>1, <2>2
  <2>4. ~(Len(s) <= k)
    <3> SUFFICES ASSUME Len(s) <= k PROVE FALSE
      OBVIOUS
    <3>1. k = Len(s) \/ Len(s) < k
      BY <1>1
    <3>2. Len(s) < k => r <= Unshift(I, k)
      BY <1>1, UnshiftGrows
    <3>3. Unshift(I, k) \in Nat
      BY <1>1, UnshiftNext
    <3> QED BY <1>2, <2>3, <3>1, <3>2, <3>3
  <2>5. k \in Indexes(s)
    BY <1>1, <2>4 DEF Indexes
  <2> QED BY <2>1, <2>2, <2>5
<1> HIDE DEF r, Nth, stay
<1>10. DOMAIN Kept(s, I) = 1 .. r /\ Kept(s, I) = [n \in 1 .. r |-> Kept(s, I)[n]]
  BY <1>7
<1>11. ASSUME NEW k \in stay PROVE Kept(s, I)[Unshift(I, k) + 1] = s[k + 1]
  BY <1>6, <1>7, <1>8
<1>12. \A k \in stay : Unshift(I, k) + 1 \in 1 .. r
  BY <1>6
<1> QED BY <1>2, <1>9, <1>10, <1>11, <1>12 DEF r, stay

LEMMA AppliesKept ==
    ASSUME NEW b \in Seq(Nat), NEW s \in Seq(Nat), NEW D, NEW I, Applies(b, s, D, I)
    PROVE  Kept(b, D) = Kept(s, I)
<1> DEFINE r == Unshift(I, Len(s))
<1>1. D \subseteq Indexes(b) /\ I \subseteq Indexes(s) /\ Finite(D) /\ Finite(I) /\ Len(s) \in Nat
      /\ Len(b) \in Nat
  BY AppliesType
<1>2. Unshift(D, Len(b)) = r
  BY AppliesEnd
<1>3. /\ \A k \in Indexes(s) \ I : Kept(s, I)[Unshift(I, k) + 1] = s[k + 1]
      /\ \A n \in 1 .. r : \E k \in Indexes(s) \ I : Unshift(I, k) + 1 = n
      /\ Kept(s, I) = [n \in 1 .. r |-> Kept(s, I)[n]]
  BY <1>1, KeptNth
<1>4. /\ \A k \in Indexes(b) \ D : Kept(b, D)[Unshift(D, k) + 1] = b[k + 1]
      /\ Kept(b, D) = [n \in 1 .. r |-> Kept(b, D)[n]]
  BY <1>1, <1>2, KeptNth
<1> HIDE DEF r
<1>5. ASSUME NEW n \in 1 .. r PROVE Kept(b, D)[n] = Kept(s, I)[n]
  <2>1. PICK k \in Indexes(s) \ I : Unshift(I, k) + 1 = n
    BY <1>3
  <2> DEFINE i == To(I, D, k)
  <2>2. k \in Nat \ I /\ k < Len(s)
    BY <1>1 DEF Indexes
  <2>3. i \in Nat \ D /\ i < Len(b) /\ s[k + 1] = b[i + 1]
    BY <2>2, AppliesBack
  <2>4. Unshift(D, i) = Unshift(I, k)
    BY <1>1, <2>2, ToRight
  <2> HIDE DEF i
  <2>5. i \in Indexes(b) \ D
    BY <1>1, <2>3 DEF Indexes
  <2> QED BY <1>3, <1>4, <2>1, <2>3, <2>4, <2>5
<1> QED BY <1>3, <1>4, <1>5

-----------------------------------------------------------------------------
(* clean_up_stale_moves *)

Fits(b, s, c) ==
    /\ c \in Changes
    /\ Applies(b, s, c.deletions, c.insertions)
    /\ MovesRight(b, s, c.deletions, c.insertions, c.moves)

(* A stale move is taken out of the deletions and insertions. *)
LEMMA StaleApplies ==
    ASSUME NEW b \in Seq(Nat), NEW s \in Seq(Nat), NEW D, NEW I, Applies(b, s, D, I),
           NEW from \in D, NEW to \in I, b[from + 1] = s[to + 1], Unshift(D, from) = Unshift(I, to)
    PROVE  Applies(b, s, D \ {from}, I \ {to})
<1> DEFINE E == D \ {from}
           J == I \ {to}
           f == [i \in Nat \ E |-> IF i = from THEN to ELSE To(D, I, i)]
<1>1. /\ D \subseteq Indexes(b) /\ I \subseteq Indexes(s) /\ D \in SUBSET Nat /\ I \in SUBSET Nat
      /\ Finite(D) /\ Finite(I) /\ Len(b) \in Nat /\ Len(s) \in Nat
  BY AppliesType
<1>2. from \in Nat /\ from < Len(b) /\ to \in Nat /\ to < Len(s)
  BY <1>1 DEF Indexes
<1>3. ASSUME NEW i \in Nat \ D
      PROVE  /\ To(D, I, i) \in Nat \ I
             /\ i < Len(b) <=> To(D, I, i) < Len(s)
             /\ i < Len(b) => b[i + 1] = s[To(D, I, i) + 1]
             /\ i < from => To(D, I, i) < to
             /\ from < i => to < To(D, I, i)
  <2> DEFINE j == To(D, I, i)
  <2>1. /\ j \in Nat \ I /\ (i < Len(b) <=> j < Len(s)) /\ (i < Len(b) => b[i + 1] = s[j + 1])
    BY AppliesBack
  <2>2. Unshift(I, j) = Unshift(D, i)
    BY <1>1, ToRight
  <2>3. Unshift(D, from) \in Nat /\ Unshift(D, i) \in Nat /\ Unshift(I, to) \in Nat /\ Unshift(I, j) \in Nat
    BY <1>1, <1>2, <2>1, UnshiftNext
  <2> HIDE DEF j
  <2>4. i < from => Unshift(D, i) < Unshift(D, from)
    BY <1>1, <1>2, UnshiftGrows
  <2>5. from < i => Unshift(D, from) <= Unshift(D, i)
    BY <1>1, <1>2, UnshiftGrows
  <2>6. to < j => Unshift(I, to) <= Unshift(I, j)
    BY <1>1, <1>2, <2>1, UnshiftGrows
  <2>7. j < to => Unshift(I, j) < Unshift(I, to)
    BY <1>1, <1>2, <2>1, UnshiftGrows
  <2>8. j # to
    BY <2>1
  <2>9. i < from => j < to
    BY <1>2, <2>1, <2>2, <2>3, <2>4, <2>6, <2>8
  <2>10. from < i => to < j
    BY <1>2, <2>1, <2>2, <2>3, <2>5, <2>7, <2>8
  <2> QED BY <2>1, <2>9, <2>10 DEF j
<1>4. f[from] = to /\ from \in Nat \ E /\ to \in Nat \ J
  BY <1>2
<1>5. ASSUME NEW i \in Nat \ E, i # from PROVE i \in Nat \ D /\ f[i] = To(D, I, i)
  BY <1>5
<1> HIDE DEF f
<1>6. Matches(f, E, J)
  <2>1. f \in [Nat \ E -> Nat \ J]
    <3>1. \A i \in Nat \ E : f[i] \in Nat \ J
      BY <1>3, <1>4, <1>5
    <3>2. f = [i \in Nat \ E |-> f[i]]
      BY DEF f
    <3> QED BY <3>1, <3>2
  <2>2. ASSUME NEW i \in Nat \ E, NEW k \in Nat \ E, i < k PROVE f[i] < f[k]
    <3>1. CASE i = from
      <4>1. k # from
        BY <1>2, <2>2, <3>1
      <4> QED BY <1>3, <1>4, <1>5, <2>2, <3>1, <4>1
    <3>2. CASE k = from
      <4>1. i # from
        BY <1>2, <2>2, <3>2
      <4> QED BY <1>3, <1>4, <1>5, <2>2, <3>2, <4>1
    <3>3. CASE i # from /\ k # from
      <4>1. i \in Nat \ D /\ k \in Nat \ D /\ f[i] = To(D, I, i) /\ f[k] = To(D, I, k)
        BY <1>5, <3>3
      <4>2. To(D, I, i) < To(D, I, k) <=> i < k
        BY <1>1, <4>1, ToOrder
      <4> QED BY <2>2, <4>1, <4>2
    <3> QED BY <3>1, <3>2, <3>3
  <2>3. ASSUME NEW j \in Nat \ J PROVE \E i \in Nat \ E : f[i] = j
    <3>1. CASE j = to
      BY <1>4, <3>1
    <3>2. CASE j # to
      <4>1. j \in Nat \ I
        BY <3>2
      <4>2. To(I, D, j) \in Nat \ D /\ To(D, I, To(I, D, j)) = j
        BY <4>1, AppliesBack
      <4> QED BY <1>5, <4>2
    <3> QED BY <3>1, <3>2
  <2> HIDE DEF E, J
  <2> QED BY <2>1, <2>2, <2>3 DEF Matches
<1>7. ASSUME NEW i \in Nat \ E
      PROVE  (i < Len(b) <=> f[i] < Len(s)) /\ (i < Len(b) => b[i + 1] = s[f[i] + 1])
  <2>1. CASE i = from
    BY <1>2, <1>4, <2>1
  <2>2. CASE i # from
    BY <1>3, <1>5, <2>2, SMTT(60)
  <2> QED BY <2>1, <2>2
<1>8. E \subseteq Indexes(b) /\ J \subseteq Indexes(s)
  BY <1>1
<1> HIDE DEF E, J
<1>9. Applies(b, s, E, J)
  BY <1>6, <1>7, <1>8, AppliesBy
<1> QED BY <1>9 DEF E, J

(* Changes between the same slots delete and insert the same. *)
LEMMA AppliesSame ==
    ASSUME NEW b \in Seq(Nat), Distinct(b), NEW D, NEW I, Applies(b, b, D, I)
    PROVE  D = I
<1>1. /\ D \subseteq Indexes(b) /\ I \subseteq Indexes(b) /\ Len(b) \in Nat
  BY AppliesType
<1>2. \A i \in Indexes(b) : i \in Nat /\ i < Len(b)
  BY <1>1 DEF Indexes
<1>3. \A i \in Nat : i < Len(b) => i \in Indexes(b)
  BY <1>1 DEF Indexes
<1>4. ASSUME NEW i \in D, i \notin I PROVE FALSE
  <2> DEFINE j == To(I, D, i)
  <2>1. i \in Nat \ I /\ i < Len(b)
    BY <1>1, <1>2, <1>4
  <2>2. j \in Nat \ D /\ j < Len(b) /\ b[i + 1] = b[j + 1]
    BY <2>1, AppliesBack
  <2> HIDE DEF j
  <2> QED BY <1>1, <1>3, <2>2 DEF Distinct
<1>5. ASSUME NEW i \in I, i \notin D PROVE FALSE
  <2> DEFINE j == To(D, I, i)
  <2>1. i \in Nat \ D /\ i < Len(b)
    BY <1>1, <1>2, <1>5
  <2>2. j \in Nat \ I /\ j < Len(b) /\ b[i + 1] = b[j + 1]
    BY <2>1, AppliesBack
  <2> HIDE DEF j
  <2> QED BY <1>1, <1>3, <2>2 DEF Distinct
<1> QED BY <1>4, <1>5

(* e is c when the first n moves have been looked at. *)
Cleaned(b, s, c, n, e) ==
    /\ e \in Changes /\ e.modifications = c.modifications
    /\ Applies(b, s, e.deletions, e.insertions)
    /\ \A k \in DOMAIN c.moves : k > n => c.moves[k].from \in e.deletions /\ c.moves[k].to \in e.insertions
    /\ \A k \in DOMAIN e.moves :
          /\ e.moves[k].from \in e.deletions /\ e.moves[k].to \in e.insertions
          /\ b[e.moves[k].from + 1] = s[e.moves[k].to + 1]
          /\ \E l \in DOMAIN c.moves : l <= n /\ c.moves[l] = e.moves[k]
    /\ \A k, l \in DOMAIN e.moves : e.moves[k].from = e.moves[l].from => k = l
    /\ \A i \in e.deletions : Has(s, b[i + 1]) =>
          \/ \E k \in DOMAIN e.moves : e.moves[k].from = i
          \/ \E k \in DOMAIN c.moves : k > n /\ c.moves[k].from = i
    /\ b = s => e.moves = <<>>

LEMMA AppendMove ==
    ASSUME NEW ms \in MoveSeqs, NEW m \in [from : Nat, to : Nat]
    PROVE  /\ Append(ms, m) \in MoveSeqs /\ DOMAIN Append(ms, m) = DOMAIN ms \cup {Len(ms) + 1}
           /\ Len(ms) + 1 \notin DOMAIN ms /\ Append(ms, m)[Len(ms) + 1] = m
           /\ \A k \in DOMAIN ms : Append(ms, m)[k] = ms[k]
<1> DEFINE S == [from : Nat, to : Nat]
<1>1. ms \in Seq(S) /\ m \in S
  BY DEF MoveSeqs
<1> HIDE DEF S
<1>2. /\ Append(ms, m) \in Seq(S) /\ DOMAIN Append(ms, m) = DOMAIN ms \cup {Len(ms) + 1}
      /\ Len(ms) + 1 \notin DOMAIN ms /\ Append(ms, m)[Len(ms) + 1] = m
      /\ \A k \in DOMAIN ms : Append(ms, m)[k] = ms[k]
  BY <1>1
<1> QED BY <1>2 DEF S, MoveSeqs

LEMMA CleanNext ==
    ASSUME NEW b \in Seq(Nat), NEW s \in Seq(Nat), Distinct(b), NEW c, Fits(b, s, c),
           NEW n \in Nat, n + 1 \in DOMAIN c.moves, NEW e, Cleaned(b, s, c, n, e)
    PROVE  Cleaned(b, s, c, n + 1, WithMove(e, c.moves[n + 1]))
<1> DEFINE ms == c.moves
           m == ms[n + 1]
           from == m.from
           to == m.to
           D == e.deletions
           I == e.insertions
           d == WithMove(e, m)
<1>1. /\ c \in Changes /\ e \in Changes /\ ms \in MoveSeqs /\ e.moves \in MoveSeqs
      /\ D \in SUBSET Nat /\ I \in SUBSET Nat
  BY DEF Fits, Cleaned, Changes
<1>2. /\ \A k \in DOMAIN ms : k \in Nat /\ ms[k] \in [from : Nat, to : Nat] /\ ms[k].from \in Nat /\ ms[k].to \in Nat
      /\ \A k \in DOMAIN e.moves : k \in Nat
  <2>1. DOMAIN ms = 1 .. Len(ms) /\ DOMAIN e.moves = 1 .. Len(e.moves) /\ Len(ms) \in Nat /\ Len(e.moves) \in Nat
    BY <1>1, MoveType
  <2>2. \A k \in DOMAIN ms : ms[k] \in [from : Nat, to : Nat] /\ ms[k].from \in Nat /\ ms[k].to \in Nat
    BY <1>1, MoveType
  <2> HIDE DEF ms
  <2> QED BY <2>1, <2>2
<1>3. /\ \A k \in DOMAIN ms : ms[k].from \in c.deletions /\ b[ms[k].from + 1] = s[ms[k].to + 1]
      /\ \A k, l \in DOMAIN ms : ms[k].from = ms[l].from => k = l
      /\ c.deletions \subseteq Indexes(b)
  BY DEF Fits, MovesRight, Applies
<1>4. \A k, l \in DOMAIN ms : ms[k].to = ms[l].to => k = l
  <2> SUFFICES ASSUME NEW k \in DOMAIN ms, NEW l \in DOMAIN ms, ms[k].to = ms[l].to PROVE k = l
    OBVIOUS
  <2>1. b[ms[k].from + 1] = b[ms[l].from + 1] /\ ms[k].from \in Indexes(b) /\ ms[l].from \in Indexes(b)
    BY <1>3
  <2>2. ms[k].from = ms[l].from
    BY <2>1 DEF Distinct
  <2> QED BY <1>3, <2>2
<1>5. /\ e.modifications = c.modifications /\ Applies(b, s, D, I)
      /\ \A k \in DOMAIN ms : k > n => ms[k].from \in D /\ ms[k].to \in I
      /\ \A k \in DOMAIN e.moves :
            /\ e.moves[k].from \in D /\ e.moves[k].to \in I
            /\ b[e.moves[k].from + 1] = s[e.moves[k].to + 1]
            /\ \E l \in DOMAIN ms : l <= n /\ ms[l] = e.moves[k]
      /\ \A k, l \in DOMAIN e.moves : e.moves[k].from = e.moves[l].from => k = l
      /\ \A i \in D : Has(s, b[i + 1]) =>
            \/ \E k \in DOMAIN e.moves : e.moves[k].from = i
            \/ \E k \in DOMAIN ms : k > n /\ ms[k].from = i
      /\ b = s => e.moves = <<>>
  BY DEF Cleaned
<1>6. \A k \in Nat : (k > n + 1 => k > n /\ k # n + 1) /\ (k > n => k > n + 1 \/ k = n + 1)
                     /\ (k <= n => k <= n + 1 /\ k # n + 1)
  OBVIOUS
<1>7. from \in D /\ to \in I /\ b[from + 1] = s[to + 1] /\ n + 1 \in DOMAIN ms /\ n + 1 > n /\ n + 1 <= n + 1
  BY <1>3, <1>5
<1>8. \A k \in DOMAIN e.moves : e.moves[k].from # from /\ e.moves[k].to # to
                                /\ \E l \in DOMAIN ms : l <= n + 1 /\ ms[l] = e.moves[k]
  <2> SUFFICES ASSUME NEW k \in DOMAIN e.moves
               PROVE  e.moves[k].from # from /\ e.moves[k].to # to
                      /\ \E l \in DOMAIN ms : l <= n + 1 /\ ms[l] = e.moves[k]
    OBVIOUS
  <2>1. PICK l \in DOMAIN ms : l <= n /\ ms[l] = e.moves[k]
    BY <1>5
  <2>2. l <= n + 1 /\ l # n + 1
    BY <1>2, <1>6, <2>1
  <2> QED BY <1>3, <1>4, <1>7, <2>1, <2>2
<1>9. CASE IsStale(e, m)
  <2> DEFINE E == D \ {from}
             J == I \ {to}
  <2>1. /\ d = [e EXCEPT !.deletions = @ \ {from}, !.insertions = @ \ {to}]
    BY <1>9 DEF WithMove
  <2>2. /\ d \in Changes /\ d.deletions = E /\ d.insertions = J /\ d.moves = e.moves
        /\ d.modifications = e.modifications
    <3> HIDE DEF d, from, to
    <3> QED BY <1>1, <2>1 DEF Changes
  <2>3. Applies(b, s, E, J)
    <3>1. Unshift(D, from) = Unshift(I, to)
      BY <1>9 DEF IsStale
    <3> HIDE DEF from, to, D, I
    <3> QED BY <1>5, <1>7, <3>1, StaleApplies
  <2> HIDE DEF d
  <2>4. \A k \in DOMAIN ms : k > n + 1 => ms[k].from \in E /\ ms[k].to \in J
    BY <1>2, <1>3, <1>4, <1>5, <1>6, <1>7
  <2>5. \A k \in DOMAIN e.moves : e.moves[k].from \in E /\ e.moves[k].to \in J
    BY <1>5, <1>8
  <2>6. ASSUME NEW i \in E, Has(s, b[i + 1])
        PROVE  \/ \E k \in DOMAIN e.moves : e.moves[k].from = i
               \/ \E k \in DOMAIN ms : k > n + 1 /\ ms[k].from = i
    <3>1. i \in D /\ i # from
      OBVIOUS
    <3>2. CASE \E k \in DOMAIN e.moves : e.moves[k].from = i
      BY <3>2
    <3>3. CASE \E k \in DOMAIN ms : k > n /\ ms[k].from = i
      BY <1>2, <1>6, <3>1, <3>3
    <3> HIDE DEF ms, D, E
    <3> QED BY <1>5, <2>6, <3>1, <3>2, <3>3
  <2> HIDE DEF E, J, D, I
  <2>7. Cleaned(b, s, c, n + 1, d)
    BY <1>5, <1>8, <2>2, <2>3, <2>4, <2>5, <2>6 DEF Cleaned
  <2> QED BY <2>7 DEF d
<1>10. CASE ~IsStale(e, m)
  <2> DEFINE os == Append(e.moves, m)
             p == Len(e.moves) + 1
  <2>1. d = [e EXCEPT !.moves = os]
    BY <1>1, <1>10 DEF WithMove, Changes
  <2>2. /\ os \in MoveSeqs /\ DOMAIN os = DOMAIN e.moves \cup {p} /\ p \notin DOMAIN e.moves
        /\ os[p] = m /\ \A k \in DOMAIN e.moves : os[k] = e.moves[k]
    BY <1>1, <1>2, AppendMove
  <2> HIDE DEF os, p
  <2>3. /\ d \in Changes /\ d.deletions = D /\ d.insertions = I /\ d.moves = os
        /\ d.modifications = e.modifications
    <3> HIDE DEF d
    <3> QED BY <1>1, <2>1, <2>2 DEF Changes
  <2>4. b # s
    <3> SUFFICES ASSUME b = s PROVE FALSE
      OBVIOUS
    <3>1. D = I
      BY <1>5, AppliesSame
    <3>2. from \in Indexes(b) /\ to \in Indexes(b)
      BY <1>5, <1>7 DEF Applies
    <3>3. from = to
      BY <1>7, <3>2 DEF Distinct
    <3> QED BY <1>10, <3>1, <3>3 DEF IsStale
  <2> HIDE DEF d
  <2>5. \A k \in DOMAIN ms : k > n + 1 => ms[k].from \in D /\ ms[k].to \in I
    BY <1>2, <1>5, <1>6
  <2>6. \A k \in DOMAIN os :
            /\ os[k].from \in D /\ os[k].to \in I /\ b[os[k].from + 1] = s[os[k].to + 1]
            /\ \E l \in DOMAIN ms : l <= n + 1 /\ ms[l] = os[k]
    BY <1>5, <1>7, <1>8, <2>2, SMTT(60)
  <2>7. \A k, l \in DOMAIN os : os[k].from = os[l].from => k = l
    BY <1>5, <1>8, <2>2
  <2>8. ASSUME NEW i \in D, Has(s, b[i + 1])
        PROVE  \/ \E k \in DOMAIN os : os[k].from = i
               \/ \E k \in DOMAIN ms : k > n + 1 /\ ms[k].from = i
    <3>2. CASE \E k \in DOMAIN e.moves : e.moves[k].from = i
      BY <2>2, <3>2
    <3>3. CASE \E k \in DOMAIN ms : k > n /\ ms[k].from = i
      BY <1>2, <1>6, <2>2, <3>3
    <3> HIDE DEF ms, D
    <3> QED BY <1>5, <2>8, <3>2, <3>3
  <2> HIDE DEF D, I
  <2>9. Cleaned(b, s, c, n + 1, d)
    BY <1>5, <2>3, <2>4, <2>5, <2>6, <2>7, <2>8 DEF Cleaned
  <2> QED BY <2>9 DEF d
<1> QED BY <1>9, <1>10

LEMMA CleanUpRight ==
    ASSUME NEW b \in Seq(Nat), NEW s \in Seq(Nat), Distinct(b), NEW c, Fits(b, s, c)
    PROVE  /\ Fits(b, s, CleanUpStaleMoves(c))
           /\ CleanUpStaleMoves(c).modifications = c.modifications
           /\ b = s => CleanUpStaleMoves(c).deletions = {} /\ CleanUpStaleMoves(c).insertions = {}
<1> DEFINE ms == c.moves
           N == Len(ms)
           V == Changes
           z == [c EXCEPT !.moves = <<>>]
           F == [k \in 1 .. N |-> [v \in V |-> WithMove(v, ms[k])]]
           Def(x) == x = [n \in 0 .. N |-> IF n = 0 THEN z ELSE WithMove(x[n - 1], ms[n])]
           o == CHOOSE x : Def(x)
<1>1. c \in Changes /\ ms \in MoveSeqs
  BY DEF Fits, Changes
<1>2. /\ N \in Nat /\ DOMAIN ms = 1 .. N
      /\ \A k \in 1 .. N : ms[k] \in [from : Nat, to : Nat] /\ ms[k].from \in Nat /\ ms[k].to \in Nat
  <2>1. /\ N \in Nat /\ DOMAIN ms = 1 .. N
        /\ \A k \in DOMAIN ms : ms[k] \in [from : Nat, to : Nat] /\ ms[k].from \in Nat /\ ms[k].to \in Nat
    BY <1>1, MoveType
  <2> HIDE DEF ms, N
  <2> QED BY <2>1
<1>3. /\ z \in V /\ z.deletions = c.deletions /\ z.insertions = c.insertions /\ z.moves = <<>>
      /\ z.modifications = c.modifications
  <2>1. <<>> \in MoveSeqs
    BY DEF MoveSeqs
  <2> QED BY <1>1, <2>1 DEF Changes
<1>4. ASSUME NEW v \in V, NEW k \in 1 .. N PROVE WithMove(v, ms[k]) \in V
  <2> DEFINE m == ms[k]
  <2>1. m \in [from : Nat, to : Nat] /\ v.moves \in MoveSeqs
    BY <1>2 DEF Changes
  <2> HIDE DEF m
  <2>2. Append(v.moves, m) \in MoveSeqs
    BY <2>1, AppendMove
  <2>3. WithMove(v, m) = IF IsStale(v, m) THEN [v EXCEPT !.deletions = @ \ {m.from}, !.insertions = @ \ {m.to}]
                         ELSE [v EXCEPT !.moves = Append(v.moves, m)]
    BY DEF WithMove, Changes
  <2>4. [v EXCEPT !.deletions = @ \ {m.from}, !.insertions = @ \ {m.to}] \in V
    BY DEF Changes
  <2>5. [v EXCEPT !.moves = Append(v.moves, m)] \in V
    BY <2>2 DEF Changes
  <2> QED BY <2>3, <2>4, <2>5 DEF m
<1> HIDE DEF V, z
<1>5. F \in [1 .. N -> [V -> V]]
  BY <1>4
<1>6. \E x : Def(x)
  <2>1. PICK g \in [0 .. N -> V] : Unfolds(g, z, F, N)
    <3> HIDE DEF F, N
    <3> QED BY <1>2, <1>3, <1>5, Recursion
  <2>2. ASSUME NEW n \in 0 .. N
        PROVE  g[n] = IF n = 0 THEN z ELSE WithMove(g[n - 1], ms[n])
    <3>1. CASE n = 0
      BY <2>1, <3>1 DEF Unfolds
    <3>2. CASE n # 0
      <4>1. n \in 1 .. N /\ n - 1 \in 0 .. N
        BY <1>2, <3>2
      <4>2. g[n - 1] \in V
        BY <4>1
      <4>3. g[n] = F[n][g[n - 1]]
        BY <2>1, <4>1 DEF Unfolds
      <4> QED BY <3>2, <4>1, <4>2, <4>3
    <3> QED BY <3>1, <3>2
  <2>3. g = [n \in 0 .. N |-> g[n]]
    OBVIOUS
  <2>4. Def(g)
    BY <2>2, <2>3
  <2> QED BY <2>4
<1>7. Def(o)
  BY <1>6
<1>8. CleanUpStaleMoves(c) = o[N]
  BY DEF CleanUpStaleMoves, z
<1>9. o[0] = z /\ \A n \in 1 .. N : o[n] = WithMove(o[n - 1], ms[n])
  <2> HIDE DEF o
  <2>1. o[0] = z
    BY <1>2, <1>7
  <2>2. ASSUME NEW n \in 1 .. N PROVE o[n] = WithMove(o[n - 1], ms[n])
    <3>1. n \in 0 .. N /\ n # 0
      BY <1>2
    <3> QED BY <1>7, <3>1
  <2> QED BY <2>1, <2>2
<1> HIDE DEF o
<1> DEFINE R == {n \in 0 .. N : Cleaned(b, s, c, n, o[n])}
<1>10. 0 \in R
  <2>1. \A k \in DOMAIN ms : k > 0
    BY <1>2
  <2>2. DOMAIN z.moves = {}
    BY <1>3
  <2>3. \A n \in DOMAIN ms : ms[n].from \in c.deletions /\ ms[n].to \in c.insertions
    BY DEF Fits, MovesRight
  <2>4. \A i \in c.deletions : Has(s, b[i + 1]) => \E n \in DOMAIN ms : ms[n].from = i
    BY DEF Fits, MovesRight
  <2>5. Applies(b, s, c.deletions, c.insertions)
    BY DEF Fits
  <2>6. Cleaned(b, s, c, 0, z)
    BY <1>3, <2>1, <2>2, <2>3, <2>4, <2>5 DEF Cleaned, V
  <2>7. 0 \in 0 .. N
    BY <1>2
  <2> HIDE DEF N
  <2> QED BY <1>9, <2>6, <2>7
<1>11. ASSUME NEW n \in 0 .. N - 1, n \in R PROVE n + 1 \in R
  <2>1. n \in Nat /\ n + 1 \in 1 .. N /\ n + 1 \in 0 .. N /\ (n + 1) - 1 = n /\ n + 1 \in DOMAIN ms
    BY <1>2, <1>11
  <2>2. o[n + 1] = WithMove(o[n], ms[n + 1])
    BY <1>9, <2>1
  <2>3. Cleaned(b, s, c, n, o[n])
    BY <1>11
  <2>4. Cleaned(b, s, c, n + 1, WithMove(o[n], ms[n + 1]))
    BY <2>1, <2>3, CleanNext
  <2> HIDE DEF ms, N
  <2> QED BY <2>1, <2>2, <2>4
<1>12. N \in R
  <2> HIDE DEF R, N
  <2>1. \A n \in 0 .. N : n \in R
    BY <1>2, <1>10, <1>11, Induction
  <2> QED BY <1>2, <2>1
<1> DEFINE e == o[N]
<1>13. Cleaned(b, s, c, N, e)
  BY <1>12
<1>14. \A k \in DOMAIN ms : ~(k > N)
  BY <1>2
<1> HIDE DEF e, N
<1>15. Fits(b, s, e)
  BY <1>13, <1>14 DEF Cleaned, Fits, MovesRight
<1>16. b = s => e.deletions = {} /\ e.insertions = {}
  <2> SUFFICES ASSUME b = s PROVE e.deletions = {} /\ e.insertions = {}
    OBVIOUS
  <2>1. e.moves = <<>> /\ Applies(b, s, e.deletions, e.insertions)
    BY <1>13 DEF Cleaned
  <2>2. e.deletions = e.insertions
    BY <2>1, AppliesSame
  <2>3. \A i \in e.deletions : i \in Indexes(b)
    BY <2>1 DEF Applies
  <2>4. \A i \in e.deletions : Has(s, b[i + 1])
    BY <2>3 DEF Has
  <2>5. \A i \in e.deletions : \E k \in DOMAIN e.moves : e.moves[k].from = i
    BY <1>15, <2>4 DEF Fits, MovesRight
  <2>6. DOMAIN e.moves = {}
    BY <2>1
  <2> QED BY <2>2, <2>5, <2>6
<1>17. e.modifications = c.modifications
  BY <1>13 DEF Cleaned
<1> QED BY <1>8, <1>15, <1>16, <1>17 DEF e, N

-----------------------------------------------------------------------------
(* merge: from b by way of m to s *)

(* What is deleted and inserted in all *)
AllDeleted(D, I, D2) == D \cup {To(I, D, v) : v \in D2 \ I}
AllInserted(I, D2, I2) == {To(D2, I2, k) : k \in I \ D2} \cup I2

LEMMA MergedSets ==
    ASSUME NEW c, NEW d
    PROVE  /\ MergedDeletions(c, d) = AllDeleted(c.deletions, c.insertions, d.deletions)
           /\ \A S, D2, I2 : /\ InsertAll(EraseAll(S, D2), I2) = AllInserted(S, D2, I2)
                             /\ ShiftForInsert(EraseAll(S, D2), I2) = {To(D2, I2, k) : k \in S \ D2}
<1>1. MergedDeletions(c, d) = AllDeleted(c.deletions, c.insertions, d.deletions)
  BY DEF MergedDeletions, AddShiftedBy, AllDeleted, To
<1>2. ASSUME NEW S, NEW D2, NEW I2
      PROVE  ShiftForInsert(EraseAll(S, D2), I2) = {To(D2, I2, k) : k \in S \ D2}
  BY DEF ShiftForInsert, EraseAll, To
<1>3. ASSUME NEW S, NEW D2, NEW I2
      PROVE  InsertAll(EraseAll(S, D2), I2) = AllInserted(S, D2, I2)
  BY <1>2 DEF InsertAll, AllInserted
<1> QED BY <1>1, <1>2, <1>3

LEMMA MergeApplies ==
    ASSUME NEW b \in Seq(Nat), NEW m \in Seq(Nat), NEW s \in Seq(Nat), NEW D, NEW I, NEW D2, NEW I2,
           Applies(b, m, D, I), Applies(m, s, D2, I2)
    PROVE  Applies(b, s, AllDeleted(D, I, D2), AllInserted(I, D2, I2))
<1> DEFINE E == AllDeleted(D, I, D2)
           J == AllInserted(I, D2, I2)
           Via(i) == To(D, I, i)
           Back(j) == To(I, D, j)
           Via2(j) == To(D2, I2, j)
           Back2(k) == To(I2, D2, k)
           f == [i \in Nat \ E |-> Via2(Via(i))]
<1>1. /\ D \subseteq Indexes(b) /\ I \subseteq Indexes(m) /\ Finite(D) /\ Finite(I) /\ Len(m) \in Nat
      /\ D2 \subseteq Indexes(m) /\ I2 \subseteq Indexes(s) /\ Finite(D2) /\ Finite(I2)
      /\ Len(b) \in Nat /\ Len(s) \in Nat
  BY AppliesType
<1>2. /\ \A i \in Nat \ D :
            /\ Via(i) \in Nat \ I /\ Back(Via(i)) = i
            /\ i < Len(b) <=> Via(i) < Len(m)
            /\ i < Len(b) => b[i + 1] = m[Via(i) + 1]
      /\ \A j \in Nat \ I :
            /\ Back(j) \in Nat \ D /\ Via(Back(j)) = j
            /\ j < Len(m) <=> Back(j) < Len(b)
            /\ j < Len(m) => m[j + 1] = b[Back(j) + 1]
  BY AppliesBack
<1>3. /\ \A j \in Nat \ D2 :
            /\ Via2(j) \in Nat \ I2 /\ Back2(Via2(j)) = j
            /\ j < Len(m) <=> Via2(j) < Len(s)
            /\ j < Len(m) => m[j + 1] = s[Via2(j) + 1]
      /\ \A k \in Nat \ I2 :
            /\ Back2(k) \in Nat \ D2 /\ Via2(Back2(k)) = k
            /\ k < Len(s) <=> Back2(k) < Len(m)
            /\ k < Len(s) => s[k + 1] = m[Back2(k) + 1]
  BY AppliesBack
<1>4. \A i, k \in Nat \ D : Via(i) < Via(k) <=> i < k
  BY <1>1, ToOrder
<1>5. \A i, k \in Nat \ D2 : Via2(i) < Via2(k) <=> i < k
  BY <1>1, ToOrder
<1>6. D \in SUBSET Nat /\ I \in SUBSET Nat /\ D2 \in SUBSET Nat /\ I2 \in SUBSET Nat
  BY <1>1 DEF Finite
<1>7. E = D \cup {Back(v) : v \in D2 \ I} /\ J = {Via2(k) : k \in I \ D2} \cup I2
  BY DEF AllDeleted, AllInserted
<1> HIDE DEF Via, Back, Via2, Back2, E, J
<1>8. ASSUME NEW i \in Nat \ E
      PROVE  /\ i \in Nat \ D /\ Via(i) \in Nat \ D2 /\ Via(i) \in Nat \ I /\ Via2(Via(i)) \in Nat \ J
             /\ f[i] = Via2(Via(i))
  <2>1. i \in Nat \ D
    BY <1>7
  <2>2. Via(i) \in Nat \ I /\ Back(Via(i)) = i
    BY <1>2, <2>1
  <2>3. Via(i) \notin D2
    BY <1>7, <2>2
  <2>4. Via2(Via(i)) \in Nat \ I2 /\ Back2(Via2(Via(i))) = Via(i)
    BY <1>3, <2>2, <2>3
  <2>5. \A k \in I \ D2 : Back2(Via2(k)) = k /\ k # Via(i)
    BY <1>3, <1>6, <2>2
  <2>6. Via2(Via(i)) \notin J
    BY <1>7, <2>4, <2>5
  <2> QED BY <2>1, <2>2, <2>3, <2>4, <2>6
<1> HIDE DEF f
<1>9. Matches(f, E, J)
  <2>1. f \in [Nat \ E -> Nat \ J]
    <3>1. f = [i \in Nat \ E |-> f[i]]
      BY DEF f
    <3> QED BY <1>8, <3>1
  <2>2. ASSUME NEW i \in Nat \ E, NEW k \in Nat \ E, i < k PROVE f[i] < f[k]
    BY <1>4, <1>5, <1>8, <2>2
  <2>3. ASSUME NEW k \in Nat \ J PROVE \E i \in Nat \ E : f[i] = k
    <3> DEFINE j == Back2(k)
               i == Back(j)
    <3>1. k \notin I2
      BY <1>7
    <3>2. j \in Nat \ D2 /\ Via2(j) = k
      BY <1>3, <3>1
    <3> HIDE DEF j
    <3>3. j \notin I
      BY <1>7, <3>2
    <3>4. i \in Nat \ D /\ Via(i) = j
      BY <1>2, <3>2, <3>3
    <3>5. \A v \in D2 \ I : Via(Back(v)) = v /\ v # j
      BY <1>2, <1>6, <3>2
    <3> HIDE DEF i
    <3>6. i \in Nat \ E
      BY <1>7, <3>4, <3>5
    <3> QED BY <1>8, <3>2, <3>4, <3>6
  <2> QED BY <2>1, <2>2, <2>3 DEF Matches
<1>10. ASSUME NEW i \in Nat \ E
       PROVE  (i < Len(b) <=> f[i] < Len(s)) /\ (i < Len(b) => b[i + 1] = s[f[i] + 1])
  <2>1. i \in Nat \ D /\ Via(i) \in Nat \ D2 /\ f[i] = Via2(Via(i))
    BY <1>8
  <2>2. (i < Len(b) <=> Via(i) < Len(m)) /\ (i < Len(b) => b[i + 1] = m[Via(i) + 1])
    BY <1>2, <2>1
  <2>3. /\ Via(i) < Len(m) <=> Via2(Via(i)) < Len(s)
        /\ Via(i) < Len(m) => m[Via(i) + 1] = s[Via2(Via(i)) + 1]
    BY <1>3, <2>1
  <2> QED BY <2>1, <2>2, <2>3
<1>11. E \subseteq Indexes(b)
  <2> SUFFICES ASSUME NEW v \in D2 \ I PROVE Back(v) \in Indexes(b)
    BY <1>1, <1>7
  <2>1. v \in Nat /\ v < Len(m)
    BY <1>1 DEF Indexes
  <2>2. Back(v) \in Nat /\ Back(v) < Len(b)
    BY <1>2, <2>1
  <2> QED BY <1>1, <2>2 DEF Indexes
<1>12. J \subseteq Indexes(s)
  <2> SUFFICES ASSUME NEW k \in I \ D2 PROVE Via2(k) \in Indexes(s)
    BY <1>1, <1>7
  <2>1. k \in Nat /\ k < Len(m)
    BY <1>1 DEF Indexes
  <2>2. Via2(k) \in Nat /\ Via2(k) < Len(s)
    BY <1>3, <2>1
  <2> QED BY <1>1, <2>2 DEF Indexes
<1>13. Applies(b, s, E, J)
  BY <1>9, <1>10, <1>11, <1>12, AppliesBy
<1> QED BY <1>13 DEF E, J

(* Nothing deleted and nothing inserted: the slots are the same. *)
LEMMA AppliesNothing ==
    ASSUME NEW b \in Seq(Nat), NEW s \in Seq(Nat), Applies(b, s, {}, {})
    PROVE  b = s
<1>1. ASSUME NEW i \in Nat PROVE To({}, {}, i) = i
  <2>1. Unshift({}, i) = i
    <3>1. {k \in {} : 0 <= k /\ k < i} = {}
      OBVIOUS
    <3>2. Cardinality({}) = 0
      BY FS_EmptySet
    <3> QED BY <3>1, <3>2 DEF Unshift, Count
  <2>2. Shift({}, i) = i
    <3>1. {k \in {} : Unshift({}, k) <= i} = {}
      OBVIOUS
    <3>2. Cardinality({}) = 0
      BY FS_EmptySet
    <3> QED BY <3>1, <3>2 DEF Shift
  <2> QED BY <2>1, <2>2 DEF To
<1>2. ASSUME NEW i \in Nat PROVE (i < Len(b) <=> i < Len(s)) /\ (i < Len(b) => b[i + 1] = s[i + 1])
  BY <1>1 DEF Applies
<1>3. Len(b) \in Nat /\ Len(s) \in Nat
  OBVIOUS
<1>4. Len(b) = Len(s)
  <2>1. Len(b) < Len(b) <=> Len(b) < Len(s)
    BY <1>2, <1>3
  <2>2. Len(s) < Len(b) <=> Len(s) < Len(s)
    BY <1>2, <1>3
  <2> QED BY <1>3, <2>1, <2>2
<1>5. ASSUME NEW k \in 1 .. Len(b) PROVE b[k] = s[k]
  <2>1. k - 1 \in Nat /\ k - 1 < Len(b) /\ (k - 1) + 1 = k
    BY <1>3
  <2> QED BY <1>2, <2>1
<1> QED BY <1>4, <1>5

LEMMA FoundMove ==
    ASSUME NEW ms \in MoveSeqs, NEW x
    PROVE  LET k == SelectInSeq(ms, LAMBDA m : m.from = x) IN
           \/ k = 0 /\ \A i \in DOMAIN ms : ms[i].from # x
           \/ k # 0 /\ k \in DOMAIN ms /\ ms[k].from = x
<1> DEFINE I == {i \in 1 .. Len(ms) : ms[i].from = x}
           k == SelectInSeq(ms, LAMBDA m : m.from = x)
<1>1. k = IF I # {} THEN Min(I) ELSE 0
  BY DEF SelectInSeq
<1>2. Len(ms) \in Nat /\ DOMAIN ms = 1 .. Len(ms)
  BY MoveType
<1> HIDE DEF k
<1>3. CASE I = {}
  <2>1. k = 0
    BY <1>1, <1>3
  <2>2. \A i \in DOMAIN ms : ms[i].from # x
    BY <1>2, <1>3
  <2> QED BY <2>1, <2>2 DEF k
<1>4. CASE I # {}
  <2>1. I \in SUBSET Nat
    BY <1>2
  <2>2. PICK y \in I : \A z \in I : y <= z
    <3> HIDE DEF I
    <3> QED BY <1>4, <2>1, LeastNumber
  <2>3. Min(I) \in I
    <3> HIDE DEF I
    <3> QED BY <2>2 DEF Min
  <2>4. k \in I
    <3> HIDE DEF I
    <3> QED BY <1>1, <1>4, <2>3
  <2>5. k \in 1 .. Len(ms) /\ ms[k].from = x
    BY <2>4
  <2>6. k # 0 /\ k \in DOMAIN ms
    BY <1>2, <2>5
  <2> QED BY <2>5, <2>6 DEF k
<1> QED BY <1>3, <1>4

Froms(ms) == \A k, l \in DOMAIN ms : ms[k].from = ms[l].from => k = l

(* The moves but one, whose place the last one takes *)
RestOf(ms, k) == IF k = Len(ms) THEN Front(ms) ELSE Front(ReplaceAt(ms, k, Last(ms)))

LEMMA RestMoves ==
    ASSUME NEW ms \in MoveSeqs, NEW k \in DOMAIN ms, Froms(ms)
    PROVE  /\ RestOf(ms, k) \in MoveSeqs /\ Froms(RestOf(ms, k))
           /\ \A i \in DOMAIN RestOf(ms, k) : \E l \in DOMAIN ms : l # k /\ RestOf(ms, k)[i] = ms[l]
           /\ \A l \in DOMAIN ms : l # k => \E i \in DOMAIN RestOf(ms, k) : RestOf(ms, k)[i] = ms[l]
<1> DEFINE S == [from : Nat, to : Nat]
           n == Len(ms)
           g == [i \in 1 .. n - 1 |-> IF i = k THEN n ELSE i]
           t == RestOf(ms, k)
<1>1. n \in Nat /\ DOMAIN ms = 1 .. n /\ ms \in Seq(S) /\ k \in 1 .. n
  <2>1. n \in Nat /\ DOMAIN ms = 1 .. n
    BY MoveType
  <2> HIDE DEF n
  <2> QED BY <2>1 DEF MoveSeqs
<1>2. /\ \A i \in 1 .. n - 1 : g[i] \in 1 .. n /\ g[i] # k
      /\ \A i, j \in 1 .. n - 1 : g[i] = g[j] => i = j
      /\ \A l \in 1 .. n : l # k => \E i \in 1 .. n - 1 : g[i] = l
  <2> HIDE DEF n
  <2>1. \A i \in 1 .. n - 1 : g[i] \in 1 .. n /\ g[i] # k
    BY <1>1
  <2>2. \A i, j \in 1 .. n - 1 : g[i] = g[j] => i = j
    BY <1>1
  <2>3. ASSUME NEW l \in 1 .. n, l # k PROVE \E i \in 1 .. n - 1 : g[i] = l
    <3>1. CASE l = n
      <4>1. k \in 1 .. n - 1
        BY <1>1, <2>3, <3>1
      <4>2. g[k] = l
        BY <3>1, <4>1
      <4> QED BY <4>1, <4>2
    <3>2. CASE l # n
      <4>1. l \in 1 .. n - 1
        BY <1>1, <3>2
      <4>2. g[l] = l
        BY <2>3, <4>1
      <4> QED BY <4>1, <4>2
    <3> QED BY <3>1, <3>2
  <2> HIDE DEF g
  <2> QED BY <2>1, <2>2, <2>3
<1>3. t \in Seq(S) /\ Len(t) = n - 1 /\ \A i \in 1 .. n - 1 : t[i] = ms[g[i]]
  <2>1. CASE k = n
    <3>1. t = SubSeq(ms, 1, n - 1)
      BY <2>1 DEF RestOf, Front
    <3>2. \A i \in 1 .. n - 1 : g[i] = i
      BY <1>1, <2>1
    <3> HIDE DEF t, S, g
    <3>3. t \in Seq(S) /\ Len(t) = n - 1 /\ \A i \in 1 .. n - 1 : t[i] = ms[i]
      BY <1>1, <3>1
    <3> QED BY <3>2, <3>3
  <2>2. CASE k # n
    <3> DEFINE r == ReplaceAt(ms, k, Last(ms))
    <3>1. t = SubSeq(r, 1, Len(r) - 1) /\ r = [ms EXCEPT ![k] = ms[n]]
      BY <2>2 DEF RestOf, Front, ReplaceAt, Last
    <3> HIDE DEF t, S, r
    <3>2. n \in 1 .. n
      BY <1>1
    <3>3. /\ r \in Seq(S) /\ Len(r) = n
          /\ \A i \in 1 .. n : i # k => r[i] = ms[i]
          /\ r[k] = ms[n]
      BY <1>1, <3>1, <3>2
    <3> HIDE DEF n
    <3>4. t \in Seq(S) /\ Len(t) = n - 1 /\ \A i \in 1 .. n - 1 : t[i] = r[i]
      BY <1>1, <3>1, <3>3
    <3>5. \A i \in 1 .. n - 1 : i \in 1 .. n /\ r[i] = ms[g[i]]
      BY <1>1, <3>3
    <3> QED BY <3>4, <3>5
  <2> QED BY <2>1, <2>2
<1> HIDE DEF g, t, S, n
<1>4. DOMAIN t = 1 .. n - 1
  BY <1>1, <1>3
<1>5. Froms(t)
  BY <1>1, <1>2, <1>3, <1>4, SMTT(60) DEF Froms
<1>6. \A i \in DOMAIN t : \E l \in DOMAIN ms : l # k /\ t[i] = ms[l]
  BY <1>1, <1>2, <1>3, <1>4
<1>7. ASSUME NEW l \in DOMAIN ms, l # k PROVE \E i \in DOMAIN t : t[i] = ms[l]
  <2>1. PICK i \in 1 .. n - 1 : g[i] = l
    BY <1>1, <1>2, <1>7
  <2> QED BY <1>3, <1>4, <2>1
<1>8. t \in MoveSeqs
  BY <1>3 DEF MoveSeqs, S
<1> QED BY <1>5, <1>6, <1>7, <1>8 DEF t

(* No slot was moved to x by the first n moves of c. *)
Open(c, n, x) == \A k \in DOMAIN c.moves : k <= n => c.moves[k].to # x

(* The slot that d moves with l was moved before by one of the first n moves of c, and
   was marked then. *)
Again(c, d, n, l) ==
    \E k \in DOMAIN c.moves :
        k <= n /\ c.moves[k].to = d.moves[l].from /\ c.moves[k].to \in c.modifications

(* a is what UpdateMove has made of the first n moves of c. *)
KeptMoves(b, s, c, J, n, ms) ==
    /\ ms \in MoveSeqs /\ Froms(ms)
    /\ \A i \in DOMAIN ms :
          /\ \E k \in DOMAIN c.moves : k <= n /\ ms[i].from = c.moves[k].from
          /\ ms[i].to \in J /\ b[ms[i].from + 1] = s[ms[i].to + 1]
    /\ \A k \in DOMAIN c.moves : k <= n /\ Has(s, b[c.moves[k].from + 1]) =>
          \E i \in DOMAIN ms : ms[i].from = c.moves[k].from

NextMoves(c, d, n, ms) ==
    /\ ms \in MoveSeqs /\ Froms(ms)
    /\ \A i \in DOMAIN ms : \E l \in DOMAIN d.moves : ms[i] = d.moves[l] /\ Open(c, n, ms[i].from)
    /\ \A l \in DOMAIN d.moves : Open(c, n, d.moves[l].from) => \E i \in DOMAIN ms : ms[i] = d.moves[l]

Updated(b, s, c, d, n, a) ==
    /\ a \in [kept : MoveSeqs, next : Changes]
    /\ a.next.deletions = d.deletions /\ a.next.insertions = d.insertions
    /\ \A j : j \in a.next.modifications <=>
          j \in d.modifications \/ \E l \in DOMAIN d.moves : j = d.moves[l].to /\ Again(c, d, n, l)
    /\ NextMoves(c, d, n, a.next.moves)
    /\ KeptMoves(b, s, c, AllInserted(c.insertions, d.deletions, d.insertions), n, a.kept)

(* One more move is kept. *)
LEMMA KeepMove ==
    ASSUME NEW b \in Seq(Nat), NEW s \in Seq(Nat), NEW c, c.moves \in MoveSeqs, Froms(c.moves), NEW J,
           NEW n \in Nat, n + 1 \in DOMAIN c.moves, NEW ms, KeptMoves(b, s, c, J, n, ms),
           NEW x, x \in [from : Nat, to : Nat], x.from = c.moves[n + 1].from, x.to \in J,
           b[x.from + 1] = s[x.to + 1]
    PROVE  KeptMoves(b, s, c, J, n + 1, Append(ms, x))
<1> DEFINE t == Append(ms, x)
           p == Len(ms) + 1
           cs == c.moves
<1>1. ms \in MoveSeqs /\ Froms(ms)
  BY DEF KeptMoves
<1>2. /\ t \in MoveSeqs /\ DOMAIN t = DOMAIN ms \cup {p} /\ p \notin DOMAIN ms
      /\ t[p] = x /\ \A k \in DOMAIN ms : t[k] = ms[k]
  BY <1>1, AppendMove, ZenonT(60)
<1> HIDE DEF t, p
<1>3. \A k \in DOMAIN cs : k \in Nat /\ (k <= n + 1 <=> k <= n \/ k = n + 1) /\ (k <= n => k # n + 1)
  <2>1. DOMAIN cs = 1 .. Len(cs) /\ Len(cs) \in Nat
    BY MoveType
  <2> HIDE DEF cs
  <2>2. \A k \in Nat : (k <= n + 1 <=> k <= n \/ k = n + 1) /\ (k <= n => k # n + 1)
    OBVIOUS
  <2>3. \A k \in 1 .. Len(cs) : k \in Nat
    BY <2>1
  <2> QED BY <2>1, <2>2, <2>3
<1>4. \A i \in DOMAIN ms : \E k \in DOMAIN cs : k <= n /\ ms[i].from = cs[k].from
  BY DEF KeptMoves
<1>5. \A i \in DOMAIN ms : ms[i].from # x.from
  <2> SUFFICES ASSUME NEW i \in DOMAIN ms, ms[i].from = x.from PROVE FALSE
    OBVIOUS
  <2>1. PICK k \in DOMAIN cs : k <= n /\ ms[i].from = cs[k].from
    BY <1>4
  <2>2. k = n + 1
    BY <2>1 DEF Froms
  <2> QED BY <1>3, <2>1, <2>2
<1>6. Froms(t)
  BY <1>1, <1>2, <1>5 DEF Froms
<1>7. ASSUME NEW i \in DOMAIN t
      PROVE  /\ \E k \in DOMAIN cs : k <= n + 1 /\ t[i].from = cs[k].from
             /\ t[i].to \in J /\ b[t[i].from + 1] = s[t[i].to + 1]
  <2>1. CASE i \in DOMAIN ms
    <3>1. PICK k \in DOMAIN cs : k <= n /\ ms[i].from = cs[k].from
      BY <1>4, <2>1
    <3>2. ms[i].to \in J /\ b[ms[i].from + 1] = s[ms[i].to + 1]
      BY <2>1 DEF KeptMoves
    <3> QED BY <1>2, <1>3, <2>1, <3>1, <3>2
  <2>2. CASE i = p
    BY <1>2, <1>3, <2>2
  <2> QED BY <1>2, <2>1, <2>2
<1>8. ASSUME NEW k \in DOMAIN cs, k <= n + 1, Has(s, b[cs[k].from + 1])
      PROVE  \E i \in DOMAIN t : t[i].from = cs[k].from
  <2>1. CASE k <= n
    <3>1. PICK i \in DOMAIN ms : ms[i].from = cs[k].from
      BY <1>8, <2>1 DEF KeptMoves
    <3> QED BY <1>2, <3>1
  <2>2. CASE k = n + 1
    BY <1>2, <2>2
  <2> QED BY <1>3, <1>8, <2>1, <2>2
<1>9. KeptMoves(b, s, c, J, n + 1, t)
  BY <1>2, <1>6, <1>7, <1>8 DEF KeptMoves
<1> QED BY <1>9 DEF t

(* The move is not kept, as its slot is gone. *)
LEMMA DropMove ==
    ASSUME NEW b, NEW s, NEW c, c.moves \in MoveSeqs, NEW J,
           NEW n \in Nat, n + 1 \in DOMAIN c.moves, NEW ms, KeptMoves(b, s, c, J, n, ms),
           ~Has(s, b[c.moves[n + 1].from + 1])
    PROVE  KeptMoves(b, s, c, J, n + 1, ms)
<1> DEFINE cs == c.moves
<1>1. \A k \in DOMAIN cs : k \in Nat /\ (k <= n + 1 <=> k <= n \/ k = n + 1)
  <2>1. DOMAIN cs = 1 .. Len(cs) /\ Len(cs) \in Nat
    BY MoveType
  <2> HIDE DEF cs
  <2> QED BY <2>1
<1>2. /\ ms \in MoveSeqs /\ Froms(ms)
      /\ \A i \in DOMAIN ms :
          /\ \E k \in DOMAIN cs : k <= n /\ ms[i].from = cs[k].from
          /\ ms[i].to \in J /\ b[ms[i].from + 1] = s[ms[i].to + 1]
      /\ \A k \in DOMAIN cs : k <= n /\ Has(s, b[cs[k].from + 1]) =>
          \E i \in DOMAIN ms : ms[i].from = cs[k].from
  BY DEF KeptMoves
<1>3. \A i \in DOMAIN ms : \E k \in DOMAIN cs : k <= n + 1 /\ ms[i].from = cs[k].from
  BY <1>1, <1>2
<1>4. \A k \in DOMAIN cs : k <= n + 1 /\ Has(s, b[cs[k].from + 1]) =>
          \E i \in DOMAIN ms : ms[i].from = cs[k].from
  BY <1>1, <1>2
<1> QED BY <1>2, <1>3, <1>4 DEF KeptMoves

(* The new moves go on as before when none starts where the move ended. *)
LEMMA PassMove ==
    ASSUME NEW c, c.moves \in MoveSeqs, NEW d, NEW n \in Nat, n + 1 \in DOMAIN c.moves,
           NEW ms, NextMoves(c, d, n, ms), \A i \in DOMAIN ms : ms[i].from # c.moves[n + 1].to
    PROVE  NextMoves(c, d, n + 1, ms)
<1> DEFINE cs == c.moves
<1>1. \A k \in DOMAIN cs : k \in Nat /\ (k <= n + 1 <=> k <= n \/ k = n + 1)
  <2>1. DOMAIN cs = 1 .. Len(cs) /\ Len(cs) \in Nat
    BY MoveType
  <2> HIDE DEF cs
  <2> QED BY <2>1
<1>2. \A x : Open(c, n + 1, x) <=> Open(c, n, x) /\ x # cs[n + 1].to
  BY <1>1 DEF Open
<1> QED BY <1>2 DEF NextMoves

(* A new move that continues the move is taken out. *)
LEMMA TakeMove ==
    ASSUME NEW c, c.moves \in MoveSeqs, NEW d, NEW n \in Nat, n + 1 \in DOMAIN c.moves,
           NEW ms, NextMoves(c, d, n, ms), NEW k \in DOMAIN ms, ms[k].from = c.moves[n + 1].to
    PROVE  NextMoves(c, d, n + 1, RestOf(ms, k))
<1> DEFINE cs == c.moves
           t == RestOf(ms, k)
<1>1. \A i \in DOMAIN cs : i \in Nat /\ (i <= n + 1 <=> i <= n \/ i = n + 1)
  <2>1. DOMAIN cs = 1 .. Len(cs) /\ Len(cs) \in Nat
    BY MoveType
  <2> HIDE DEF cs
  <2> QED BY <2>1
<1>2. \A x : Open(c, n + 1, x) <=> Open(c, n, x) /\ x # cs[n + 1].to
  BY <1>1 DEF Open
<1>3. /\ ms \in MoveSeqs /\ Froms(ms)
      /\ \A i \in DOMAIN ms : \E l \in DOMAIN d.moves : ms[i] = d.moves[l] /\ Open(c, n, ms[i].from)
      /\ \A l \in DOMAIN d.moves : Open(c, n, d.moves[l].from) => \E i \in DOMAIN ms : ms[i] = d.moves[l]
  BY DEF NextMoves
<1>4. /\ t \in MoveSeqs /\ Froms(t)
      /\ \A i \in DOMAIN t : \E l \in DOMAIN ms : l # k /\ t[i] = ms[l]
      /\ \A l \in DOMAIN ms : l # k => \E i \in DOMAIN t : t[i] = ms[l]
  BY <1>3, RestMoves
<1> HIDE DEF t
<1>5. ASSUME NEW i \in DOMAIN t
      PROVE  \E l \in DOMAIN d.moves : t[i] = d.moves[l] /\ Open(c, n + 1, t[i].from)
  <2>1. PICK l \in DOMAIN ms : l # k /\ t[i] = ms[l]
    BY <1>4
  <2>2. ms[l].from # cs[n + 1].to
    BY <1>3, <2>1 DEF Froms
  <2> QED BY <1>2, <1>3, <2>1, <2>2
<1>6. ASSUME NEW l \in DOMAIN d.moves, Open(c, n + 1, d.moves[l].from)
      PROVE  \E i \in DOMAIN t : t[i] = d.moves[l]
  <2>1. Open(c, n, d.moves[l].from) /\ d.moves[l].from # cs[n + 1].to
    BY <1>2, <1>6
  <2>2. PICK i \in DOMAIN ms : ms[i] = d.moves[l]
    BY <1>3, <2>1
  <2>3. i # k
    BY <2>1, <2>2
  <2> QED BY <1>4, <2>2, <2>3
<1> QED BY <1>4, <1>5, <1>6 DEF NextMoves, t

LEMMA UpdateNext ==
    ASSUME NEW b \in Seq(Nat), NEW m \in Seq(Nat), NEW s \in Seq(Nat), Distinct(b),
           NEW c, Fits(b, m, c), NEW d, Fits(m, s, d),
           NEW n \in Nat, n + 1 \in DOMAIN c.moves, NEW a, Updated(b, s, c, d, n, a)
    PROVE  Updated(b, s, c, d, n + 1, UpdateMove(c, a, c.moves[n + 1]))
<1> DEFINE cs == c.moves
           old == cs[n + 1]
           e == a.next
           k == SelectInSeq(e.moves, LAMBDA x : x.from = old.to)
           J == AllInserted(c.insertions, d.deletions, d.insertions)
           q == UpdateMove(c, a, old)
<1>1. /\ c \in Changes /\ cs \in MoveSeqs /\ d \in Changes /\ d.moves \in MoveSeqs
      /\ Applies(b, m, c.deletions, c.insertions) /\ Applies(m, s, d.deletions, d.insertions)
      /\ MovesRight(b, m, c.deletions, c.insertions, cs)
      /\ MovesRight(m, s, d.deletions, d.insertions, d.moves)
  BY DEF Fits, Changes
<1>2. /\ \A i \in DOMAIN cs : i \in Nat /\ (i <= n + 1 <=> i <= n \/ i = n + 1) /\ (i <= n => i # n + 1)
      /\ old \in [from : Nat, to : Nat] /\ old.from \in Nat /\ old.to \in Nat /\ n + 1 <= n + 1
  <2>1. DOMAIN cs = 1 .. Len(cs) /\ Len(cs) \in Nat
    BY <1>1, MoveType
  <2>2. \A i \in Nat : (i <= n + 1 <=> i <= n \/ i = n + 1) /\ (i <= n => i # n + 1)
    OBVIOUS
  <2>3. \A i \in 1 .. Len(cs) : i \in Nat
    BY <2>1
  <2>4. old \in [from : Nat, to : Nat] /\ old.from \in Nat /\ old.to \in Nat
    BY <1>1, MoveType
  <2> HIDE DEF cs, old
  <2>5. n + 1 <= n + 1
    OBVIOUS
  <2>6. \A i \in DOMAIN cs : i \in Nat /\ (i <= n + 1 <=> i <= n \/ i = n + 1) /\ (i <= n => i # n + 1)
    BY <2>1, <2>2, <2>3
  <2> QED BY <2>4, <2>5, <2>6
<1>3. /\ old.from \in c.deletions /\ old.to \in c.insertions /\ b[old.from + 1] = m[old.to + 1]
      /\ Froms(cs)
  BY <1>1 DEF MovesRight, Froms
<1>4. /\ c.deletions \subseteq Indexes(b) /\ c.insertions \subseteq Indexes(m)
      /\ d.deletions \subseteq Indexes(m) /\ d.insertions \subseteq Indexes(s)
  BY <1>1 DEF Applies
<1>5. \A i \in DOMAIN cs : i <= n => cs[i].to # old.to
  <2> SUFFICES ASSUME NEW i \in DOMAIN cs, i <= n, cs[i].to = old.to PROVE FALSE
    OBVIOUS
  <2>1. cs[i].from \in c.deletions /\ b[cs[i].from + 1] = m[cs[i].to + 1]
    BY <1>1 DEF MovesRight
  <2>2. cs[i].from = old.from
    BY <1>3, <1>4, <2>1 DEF Distinct
  <2>3. i = n + 1
    BY <1>3, <2>2 DEF Froms
  <2> QED BY <1>2, <2>3
<1>6. Open(c, n, old.to)
  BY <1>5 DEF Open
<1>7. /\ a \in [kept : MoveSeqs, next : Changes] /\ a.kept \in MoveSeqs /\ e \in Changes
      /\ e.deletions = d.deletions /\ e.insertions = d.insertions /\ e.moves \in MoveSeqs
      /\ NextMoves(c, d, n, e.moves) /\ KeptMoves(b, s, c, J, n, a.kept)
      /\ \A j : j \in e.modifications <=>
            j \in d.modifications \/ \E l \in DOMAIN d.moves : j = d.moves[l].to /\ Again(c, d, n, l)
  BY DEF Updated, NextMoves, KeptMoves
<1>8. \/ k = 0 /\ \A i \in DOMAIN e.moves : e.moves[i].from # old.to
      \/ k # 0 /\ k \in DOMAIN e.moves /\ e.moves[k].from = old.to
  <2> HIDE DEF old, e
  <2> QED BY <1>7, FoundMove
<1>9. q = IF k # 0
          THEN [kept |-> Append(a.kept, [old EXCEPT !.to = e.moves[k].to]),
                next |-> [e EXCEPT !.moves = RestOf(e.moves, k),
                                   !.modifications = IF old.to \in c.modifications
                                                     THEN @ \cup {e.moves[k].to} ELSE @]]
          ELSE IF old.to \in e.deletions THEN a
          ELSE [a EXCEPT !.kept = Append(@, [old EXCEPT !.to = MovedOn(e, @)])]
  BY DEF UpdateMove, RestOf
<1> HIDE DEF q, k, old, e
<1>10. CASE k # 0
  <2> DEFINE y == e.moves[k]
             x == [old EXCEPT !.to = y.to]
             t == Append(a.kept, x)
             u == RestOf(e.moves, k)
             g == IF old.to \in c.modifications THEN e.modifications \cup {y.to} ELSE e.modifications
             f == [e EXCEPT !.moves = u, !.modifications = g]
  <2>1. k \in DOMAIN e.moves /\ y.from = old.to
    BY <1>8, <1>10
  <2>2. PICK l \in DOMAIN d.moves : y = d.moves[l]
    BY <1>7, <2>1 DEF NextMoves
  <2>3. y \in [from : Nat, to : Nat] /\ y.to \in Nat /\ y.to \in d.insertions /\ m[y.from + 1] = s[y.to + 1]
    <3>1. y \in [from : Nat, to : Nat] /\ y.to \in Nat
      BY <1>7, <2>1, MoveType
    <3> HIDE DEF y
    <3> QED BY <1>1, <2>2, <3>1 DEF MovesRight
  <2>4. q = [kept |-> t, next |-> f]
    <3> HIDE DEF u, t
    <3> QED BY <1>7, <1>9, <1>10 DEF Changes, u, t
  <2> HIDE DEF y
  <2>5. x \in [from : Nat, to : Nat] /\ x.from = old.from /\ x.to = y.to
    BY <1>2, <2>3
  <2> HIDE DEF x
  <2>6. x.to \in J
    BY <2>3, <2>5 DEF AllInserted
  <2>7. b[x.from + 1] = s[x.to + 1]
    BY <1>3, <2>1, <2>3, <2>5
  <2>8. KeptMoves(b, s, c, J, n + 1, t)
    <3> HIDE DEF J
    <3> QED BY <1>1, <1>3, <1>7, <2>5, <2>6, <2>7, KeepMove DEF old
  <2>9. NextMoves(c, d, n + 1, u)
    BY <1>1, <1>7, <2>1, TakeMove DEF y, old
  <2>10. g \in SUBSET Nat
    BY <1>7, <2>3 DEF Changes
  <2>11. u \in MoveSeqs /\ t \in MoveSeqs
    BY <2>8, <2>9 DEF NextMoves, KeptMoves
  <2>12. /\ f \in Changes /\ f.deletions = d.deletions /\ f.insertions = d.insertions
         /\ f.moves = u /\ f.modifications = g
    <3> HIDE DEF g, u
    <3> QED BY <1>7, <2>10, <2>11 DEF Changes
  <2>13. \A j : j \in g <=>
            j \in d.modifications \/ \E h \in DOMAIN d.moves : j = d.moves[h].to /\ Again(c, d, n + 1, h)
    <3>1. \A h \in DOMAIN d.moves :
             Again(c, d, n + 1, h) <=>
                Again(c, d, n, h) \/ (d.moves[h].from = old.to /\ old.to \in c.modifications)
      BY <1>2 DEF Again, old
    <3>2. \A h \in DOMAIN d.moves : d.moves[h].from = old.to => h = l
      BY <1>1, <2>1, <2>2 DEF MovesRight
    <3>3. d.moves[l].from = old.to /\ d.moves[l].to = y.to
      BY <2>1, <2>2
    <3>4. \A j : (\E h \in DOMAIN d.moves : j = d.moves[h].to /\ Again(c, d, n + 1, h)) <=>
                 \/ \E h \in DOMAIN d.moves : j = d.moves[h].to /\ Again(c, d, n, h)
                 \/ j = y.to /\ old.to \in c.modifications
      BY <3>1, <3>2, <3>3
    <3> QED BY <1>7, <3>4
  <2> HIDE DEF t, f, g, u
  <2>14. q.kept = t /\ q.next = f /\ q \in [kept : MoveSeqs, next : Changes]
    BY <2>4, <2>11, <2>12
  <2>15. Updated(b, s, c, d, n + 1, q)
    BY <2>8, <2>9, <2>12, <2>13, <2>14 DEF Updated
  <2> QED BY <2>15 DEF q, old
<1>11. CASE k = 0
  <2>1. \A i \in DOMAIN e.moves : e.moves[i].from # old.to
    BY <1>8, <1>11
  <2>2. NextMoves(c, d, n + 1, e.moves)
    BY <1>1, <1>7, <2>1, PassMove DEF old
  <2>3. \A l \in DOMAIN d.moves : d.moves[l].from # old.to
    BY <1>6, <1>7, <2>1 DEF NextMoves
  <2>4. \A j : j \in e.modifications <=>
            j \in d.modifications \/ \E h \in DOMAIN d.moves : j = d.moves[h].to /\ Again(c, d, n + 1, h)
    <3>1. \A h \in DOMAIN d.moves : Again(c, d, n + 1, h) <=> Again(c, d, n, h)
      BY <1>2, <2>3 DEF Again, old
    <3> QED BY <1>7, <3>1
  <2>5. CASE old.to \in e.deletions
    <3>1. q = a
      BY <1>9, <1>11, <2>5
    <3>2. ~Has(s, b[old.from + 1])
      BY <1>1, <1>3, <1>7, <2>3, <2>5 DEF MovesRight
    <3>3. KeptMoves(b, s, c, J, n + 1, a.kept)
      <4> HIDE DEF J
      <4> QED BY <1>1, <1>7, <3>2, DropMove DEF old
    <3>4. Updated(b, s, c, d, n + 1, a)
      BY <1>7, <2>2, <2>4, <3>3 DEF Updated, e
    <3> QED BY <3>1, <3>4 DEF q, old
  <2>6. CASE old.to \notin e.deletions
    <3> DEFINE x == [old EXCEPT !.to = MovedOn(e, @)]
               j == To(d.deletions, d.insertions, old.to)
               t == Append(a.kept, x)
    <3>1. q = [a EXCEPT !.kept = t]
      BY <1>7, <1>9, <1>11, <2>6
    <3>2. MovedOn(e, old.to) = j
      BY <1>7 DEF MovedOn, To
    <3>3. old.to < Len(m)
      BY <1>3, <1>4 DEF Indexes
    <3>4. j \in Nat /\ m[old.to + 1] = s[j + 1]
      <4>1. old.to \in Nat \ d.deletions
        BY <1>2, <1>7, <2>6
      <4>2. old.to < Len(m) <=> j < Len(s)
        BY <1>1, <4>1, AppliesBack
      <4>3. j \in Nat \ d.insertions /\ (old.to < Len(m) => m[old.to + 1] = s[j + 1])
        <5>1. \A i \in Nat \ d.deletions :
                 /\ To(d.deletions, d.insertions, i) \in Nat \ d.insertions
                 /\ i < Len(m) => m[i + 1] = s[To(d.deletions, d.insertions, i) + 1]
          BY <1>1, AppliesBack
        <5> QED BY <4>1, <5>1
      <4> QED BY <3>3, <4>3
    <3>5. j \in J
      BY <1>3, <1>7, <2>6 DEF AllInserted
    <3>6. x \in [from : Nat, to : Nat] /\ x.from = old.from /\ x.to = j
      <4> HIDE DEF j
      <4> QED BY <1>2, <3>2, <3>4
    <3> HIDE DEF x, j
    <3>7. KeptMoves(b, s, c, J, n + 1, t)
      <4>1. x.to \in J /\ b[x.from + 1] = s[x.to + 1]
        BY <1>3, <3>4, <3>5, <3>6
      <4> HIDE DEF J
      <4> QED BY <1>1, <1>3, <1>7, <3>6, <4>1, KeepMove DEF old
    <3> HIDE DEF t
    <3>8. t \in MoveSeqs
      BY <3>7 DEF KeptMoves
    <3>9. q.kept = t /\ q.next = e /\ q \in [kept : MoveSeqs, next : Changes]
      BY <1>7, <3>1, <3>8 DEF e
    <3>10. Updated(b, s, c, d, n + 1, q)
      BY <1>7, <2>2, <2>4, <3>7, <3>9 DEF Updated
    <3> QED BY <3>10 DEF q, old
  <2> QED BY <2>5, <2>6
<1> QED BY <1>10, <1>11

Updates(d) ==
    {a \in [kept : MoveSeqs, next : Changes] :
        a.next.deletions = d.deletions /\ a.next.insertions = d.insertions /\ Froms(a.next.moves)}

LEMMA UpdateType ==
    ASSUME NEW c, NEW d, Finite(d.deletions), Finite(d.insertions), NEW a \in Updates(d),
           NEW old \in [from : Nat, to : Nat]
    PROVE  UpdateMove(c, a, old) \in Updates(d)
<1> DEFINE e == a.next
           k == SelectInSeq(e.moves, LAMBDA x : x.from = old.to)
           q == UpdateMove(c, a, old)
<1>1. /\ a \in [kept : MoveSeqs, next : Changes] /\ a.kept \in MoveSeqs /\ e \in Changes
      /\ e.deletions = d.deletions /\ e.insertions = d.insertions /\ e.moves \in MoveSeqs /\ Froms(e.moves)
      /\ e.modifications \in SUBSET Nat
  BY DEF Updates, Changes
<1>2. \/ k = 0 /\ \A i \in DOMAIN e.moves : e.moves[i].from # old.to
      \/ k # 0 /\ k \in DOMAIN e.moves /\ e.moves[k].from = old.to
  <2> HIDE DEF e
  <2> QED BY <1>1, FoundMove
<1>3. q = IF k # 0
          THEN [kept |-> Append(a.kept, [old EXCEPT !.to = e.moves[k].to]),
                next |-> [e EXCEPT !.moves = RestOf(e.moves, k),
                                   !.modifications = IF old.to \in c.modifications
                                                     THEN @ \cup {e.moves[k].to} ELSE @]]
          ELSE IF old.to \in e.deletions THEN a
          ELSE [a EXCEPT !.kept = Append(@, [old EXCEPT !.to = MovedOn(e, @)])]
  BY DEF UpdateMove, RestOf
<1> HIDE DEF q, k, e
<1>4. CASE k # 0
  <2> DEFINE y == e.moves[k].to
             x == [old EXCEPT !.to = y]
             t == Append(a.kept, x)
             u == RestOf(e.moves, k)
             g == IF old.to \in c.modifications THEN e.modifications \cup {y} ELSE e.modifications
             f == [e EXCEPT !.moves = u, !.modifications = g]
  <2>1. k \in DOMAIN e.moves
    BY <1>2, <1>4
  <2>2. y \in Nat
    BY <1>1, <2>1, MoveType
  <2>3. q = [kept |-> t, next |-> f]
    <3> HIDE DEF u, t
    <3> QED BY <1>1, <1>3, <1>4 DEF Changes, u, t
  <2> HIDE DEF y
  <2>4. x \in [from : Nat, to : Nat]
    BY <2>2
  <2>5. t \in MoveSeqs
    <3> HIDE DEF x
    <3> QED BY <1>1, <2>4, AppendMove
  <2>6. u \in MoveSeqs /\ Froms(u)
    BY <1>1, <2>1, RestMoves
  <2>7. g \in SUBSET Nat
    BY <1>1, <2>2
  <2> HIDE DEF g, u, t
  <2>8. f \in Changes /\ f.deletions = d.deletions /\ f.insertions = d.insertions /\ f.moves = u
    BY <1>1, <2>6, <2>7 DEF Changes
  <2> HIDE DEF f
  <2>9. q \in [kept : MoveSeqs, next : Changes] /\ q.next = f
    BY <2>3, <2>5, <2>8
  <2> QED BY <2>6, <2>8, <2>9 DEF Updates, q
<1>5. CASE k = 0 /\ old.to \in e.deletions
  BY <1>3, <1>5 DEF q
<1>6. CASE k = 0 /\ old.to \notin e.deletions
  <2> DEFINE j == MovedOn(e, old.to)
             x == [old EXCEPT !.to = j]
             t == Append(a.kept, x)
  <2>1. j = To(d.deletions, d.insertions, old.to)
    BY <1>1 DEF MovedOn, To
  <2>2. old.to \in Nat \ d.deletions
    BY <1>1, <1>6
  <2>3. j \in Nat
    BY <2>1, <2>2, ToRight
  <2>4. q = [a EXCEPT !.kept = t]
    BY <1>1, <1>3, <1>6
  <2> HIDE DEF j
  <2>5. x \in [from : Nat, to : Nat]
    BY <2>3
  <2>6. t \in MoveSeqs
    <3> HIDE DEF x
    <3> QED BY <1>1, <2>5, AppendMove
  <2> HIDE DEF t
  <2>7. q \in [kept : MoveSeqs, next : Changes] /\ q.next = e
    BY <1>1, <2>4, <2>6 DEF e
  <2> QED BY <1>1, <2>7 DEF Updates, q
<1> QED BY <1>4, <1>5, <1>6

LEMMA UpdatedAll ==
    ASSUME NEW b \in Seq(Nat), NEW m \in Seq(Nat), NEW s \in Seq(Nat), Distinct(b),
           NEW c, Fits(b, m, c), NEW d, Fits(m, s, d)
    PROVE  Updated(b, s, c, d, Len(c.moves), UpdatedMoves(c, d))
<1> DEFINE ms == c.moves
           N == Len(ms)
           V == Updates(d)
           z == [kept |-> <<>>, next |-> d]
           F == [k \in 1 .. N |-> [v \in V |-> UpdateMove(c, v, ms[k])]]
           Def(x) == x = [n \in 0 .. N |-> IF n = 0 THEN z ELSE UpdateMove(c, x[n - 1], ms[n])]
           o == CHOOSE x : Def(x)
<1>1. /\ c \in Changes /\ ms \in MoveSeqs /\ d \in Changes /\ d.moves \in MoveSeqs
      /\ Finite(d.deletions) /\ Finite(d.insertions) /\ Froms(d.moves)
  <2>1. Applies(m, s, d.deletions, d.insertions)
    BY DEF Fits
  <2>2. Finite(d.deletions) /\ Finite(d.insertions)
    BY <2>1, AppliesType
  <2> QED BY <2>2 DEF Fits, Changes, MovesRight, Froms
<1>2. N \in Nat /\ DOMAIN ms = 1 .. N /\ \A k \in 1 .. N : ms[k] \in [from : Nat, to : Nat]
  <2>1. N \in Nat /\ DOMAIN ms = 1 .. N /\ \A k \in DOMAIN ms : ms[k] \in [from : Nat, to : Nat]
    BY <1>1, MoveType
  <2> HIDE DEF ms, N
  <2> QED BY <2>1
<1>3. z \in V /\ z \in [kept : MoveSeqs, next : Changes] /\ z.kept = <<>> /\ z.next = d
  <2>1. <<>> \in MoveSeqs
    BY DEF MoveSeqs
  <2> QED BY <1>1, <2>1 DEF Updates
<1>4. ASSUME NEW v \in V, NEW k \in 1 .. N PROVE UpdateMove(c, v, ms[k]) \in V
  <2>1. ms[k] \in [from : Nat, to : Nat]
    BY <1>2
  <2> HIDE DEF ms
  <2> QED BY <1>1, <2>1, UpdateType
<1> HIDE DEF V, z
<1>5. F \in [1 .. N -> [V -> V]]
  BY <1>4
<1>6. \E x : Def(x)
  <2>1. PICK g \in [0 .. N -> V] : Unfolds(g, z, F, N)
    <3> HIDE DEF F, N
    <3> QED BY <1>2, <1>3, <1>5, Recursion
  <2>2. ASSUME NEW n \in 0 .. N
        PROVE  g[n] = IF n = 0 THEN z ELSE UpdateMove(c, g[n - 1], ms[n])
    <3>1. CASE n = 0
      BY <2>1, <3>1 DEF Unfolds
    <3>2. CASE n # 0
      <4>1. n \in 1 .. N /\ n - 1 \in 0 .. N
        BY <1>2, <3>2
      <4>2. g[n - 1] \in V
        BY <4>1
      <4>3. g[n] = F[n][g[n - 1]]
        BY <2>1, <4>1 DEF Unfolds
      <4> QED BY <3>2, <4>1, <4>2, <4>3
    <3> QED BY <3>1, <3>2
  <2>3. g = [n \in 0 .. N |-> g[n]]
    OBVIOUS
  <2>4. Def(g)
    BY <2>2, <2>3
  <2> QED BY <2>4
<1>7. Def(o)
  BY <1>6
<1>8. UpdatedMoves(c, d) = o[N]
  BY DEF UpdatedMoves, z
<1>9. o[0] = z /\ \A n \in 1 .. N : o[n] = UpdateMove(c, o[n - 1], ms[n])
  <2> HIDE DEF o
  <2>1. o[0] = z
    BY <1>2, <1>7
  <2>2. ASSUME NEW n \in 1 .. N PROVE o[n] = UpdateMove(c, o[n - 1], ms[n])
    <3>1. n \in 0 .. N /\ n # 0
      BY <1>2
    <3> QED BY <1>7, <3>1
  <2> QED BY <2>1, <2>2
<1> HIDE DEF o
<1> DEFINE R == {n \in 0 .. N : Updated(b, s, c, d, n, o[n])}
<1>10. 0 \in R
  <2>1. \A k \in DOMAIN ms : ~(k <= 0)
    BY <1>2
  <2>2. \A x : Open(c, 0, x)
    BY <2>1 DEF Open
  <2>3. \A l : ~Again(c, d, 0, l)
    BY <2>1 DEF Again
  <2>4. NextMoves(c, d, 0, d.moves)
    BY <1>1, <2>2 DEF NextMoves
  <2>5. <<>> \in MoveSeqs /\ DOMAIN <<>> = {}
    BY DEF MoveSeqs
  <2>6. ASSUME NEW J PROVE KeptMoves(b, s, c, J, 0, <<>>)
    BY <2>1, <2>5 DEF KeptMoves, Froms
  <2>7. Updated(b, s, c, d, 0, z)
    BY <1>3, <2>3, <2>4, <2>6 DEF Updated
  <2>8. 0 \in 0 .. N
    BY <1>2
  <2> HIDE DEF N
  <2> QED BY <1>9, <2>7, <2>8
<1>11. ASSUME NEW n \in 0 .. N - 1, n \in R PROVE n + 1 \in R
  <2>1. n \in Nat /\ n + 1 \in 1 .. N /\ n + 1 \in 0 .. N /\ (n + 1) - 1 = n /\ n + 1 \in DOMAIN ms
    BY <1>2, <1>11
  <2>2. o[n + 1] = UpdateMove(c, o[n], ms[n + 1])
    BY <1>9, <2>1
  <2>3. Updated(b, s, c, d, n, o[n])
    BY <1>11
  <2>4. Updated(b, s, c, d, n + 1, UpdateMove(c, o[n], ms[n + 1]))
    BY <2>1, <2>3, UpdateNext
  <2> HIDE DEF ms, N
  <2> QED BY <2>1, <2>2, <2>4
<1>12. N \in R
  <2> HIDE DEF R, N
  <2>1. \A n \in 0 .. N : n \in R
    BY <1>2, <1>10, <1>11, Induction
  <2> QED BY <1>2, <2>1
<1> QED BY <1>8, <1>12

(* The moves of d that do not go on from an insertion of c *)
OwnMoves(c, d, ms) ==
    /\ ms \in MoveSeqs /\ Froms(ms)
    /\ \A k \in DOMAIN ms : ms[k].from \notin c.insertions /\ \E l \in DOMAIN d.moves : ms[k] = d.moves[l]
    /\ \A l \in DOMAIN d.moves : d.moves[l].from \notin c.insertions => \E k \in DOMAIN ms : ms[k] = d.moves[l]

LEMMA OnlyOwn ==
    ASSUME NEW b, NEW m, NEW c, NEW d, Fits(b, m, c), NEW ms, NextMoves(c, d, Len(c.moves), ms)
    PROVE  OwnMoves(c, d, Only(ms, {x \in ToSet(ms) : x.from \notin c.insertions}))
<1> DEFINE S == [from : Nat, to : Nat]
           T == {x \in ToSet(ms) : x.from \notin c.insertions}
           t == Only(ms, T)
<1>1. ms \in MoveSeqs /\ Froms(ms) /\ c.moves \in MoveSeqs
      /\ \A k \in DOMAIN c.moves : c.moves[k].to \in c.insertions
  BY DEF NextMoves, Fits, MovesRight, Changes
<1>2. /\ \A i \in DOMAIN ms : \E l \in DOMAIN d.moves : ms[i] = d.moves[l]
      /\ \A l \in DOMAIN d.moves : Open(c, Len(c.moves), d.moves[l].from) => \E i \in DOMAIN ms : ms[i] = d.moves[l]
  BY DEF NextMoves
<1>3. Len(ms) \in Nat /\ DOMAIN ms = 1 .. Len(ms) /\ ms \in Seq(S)
  <2>1. Len(ms) \in Nat /\ DOMAIN ms = 1 .. Len(ms)
    BY <1>1, MoveType
  <2> QED BY <1>1, <2>1 DEF MoveSeqs
<1> HIDE DEF S
<1>4. t \in Seq(S) /\ \E g : Picks(g, t, ms, Len(ms), T)
  <2> HIDE DEF T
  <2> QED BY <1>3, OnlyPicks
<1>5. PICK g : Picks(g, t, ms, Len(ms), T)
  BY <1>4
<1>6. \A i \in DOMAIN ms : ms[i] \in T <=> ms[i].from \notin c.insertions
  BY DEF ToSet
<1> HIDE DEF t, T
<1>7. t \in MoveSeqs /\ DOMAIN t = 1 .. Len(t)
  BY <1>4 DEF MoveSeqs, S
<1>8. ASSUME NEW k \in DOMAIN t PROVE g[k] \in DOMAIN ms /\ t[k] = ms[g[k]] /\ ms[g[k]] \in T
  BY <1>3, <1>5, <1>7 DEF Picks
<1>9. Froms(t)
  BY <1>1, <1>5, <1>7, <1>8 DEF Froms, Picks
<1>10. ASSUME NEW k \in DOMAIN t
       PROVE  t[k].from \notin c.insertions /\ \E l \in DOMAIN d.moves : t[k] = d.moves[l]
  BY <1>2, <1>6, <1>8
<1>11. ASSUME NEW l \in DOMAIN d.moves, d.moves[l].from \notin c.insertions
       PROVE  \E k \in DOMAIN t : t[k] = d.moves[l]
  <2>1. Open(c, Len(c.moves), d.moves[l].from)
    BY <1>1, <1>11 DEF Open
  <2>2. PICK i \in DOMAIN ms : ms[i] = d.moves[l]
    BY <1>2, <2>1
  <2>3. ms[i] \in T
    BY <1>6, <1>11, <2>2
  <2>4. PICK k \in 1 .. Len(t) : g[k] = i
    BY <1>3, <1>5, <2>3 DEF Picks
  <2> QED BY <1>7, <1>8, <2>2, <2>4
<1>12. OwnMoves(c, d, t)
  BY <1>7, <1>9, <1>10, <1>11 DEF OwnMoves
<1> QED BY <1>12 DEF t, T

(* The moves of a merge *)
LEMMA JoinedMoves ==
    ASSUME NEW b \in Seq(Nat), NEW m \in Seq(Nat), NEW s \in Seq(Nat),
           NEW c, Fits(b, m, c), NEW d, Fits(m, s, d),
           \A x \in Nat : Has(b, x) /\ Has(s, x) => Has(m, x),
           NEW kept, KeptMoves(b, s, c, AllInserted(c.insertions, d.deletions, d.insertions),
                               Len(c.moves), kept),
           NEW own, OwnMoves(c, d, own),
           NEW t \in MoveSeqs, DOMAIN t = DOMAIN own,
           \A k \in DOMAIN own : /\ t[k].from = To(c.insertions, c.deletions, own[k].from)
                                 /\ t[k].to = own[k].to
    PROVE  /\ kept \o t \in MoveSeqs
           /\ MovesRight(b, s, AllDeleted(c.deletions, c.insertions, d.deletions),
                         AllInserted(c.insertions, d.deletions, d.insertions), kept \o t)
<1> DEFINE D == c.deletions
           I == c.insertions
           E == AllDeleted(D, I, d.deletions)
           J == AllInserted(I, d.deletions, d.insertions)
           a == kept \o t
<1>1. /\ c \in Changes /\ c.moves \in MoveSeqs /\ d \in Changes /\ d.moves \in MoveSeqs
      /\ Applies(b, m, D, I) /\ Applies(m, s, d.deletions, d.insertions)
      /\ MovesRight(b, m, D, I, c.moves) /\ MovesRight(m, s, d.deletions, d.insertions, d.moves)
  BY DEF Fits, Changes
<1>2. /\ D \subseteq Indexes(b) /\ I \subseteq Indexes(m) /\ d.deletions \subseteq Indexes(m)
      /\ D \subseteq E /\ d.insertions \subseteq J
  BY <1>1 DEF Applies, AllDeleted, AllInserted
<1>3. /\ \A k \in DOMAIN c.moves : k <= Len(c.moves)
      /\ \A j \in Indexes(m) : j \in Nat /\ j < Len(m) /\ j + 1 \in 1 .. Len(m)
      /\ \A i \in Indexes(b) : i \in Nat /\ b[i + 1] \in Nat
  <2>1. DOMAIN c.moves = 1 .. Len(c.moves) /\ Len(c.moves) \in Nat
    BY <1>1, MoveType
  <2>2. Len(m) \in Nat /\ Len(b) \in Nat
    OBVIOUS
  <2>3. \A k \in DOMAIN c.moves : k <= Len(c.moves)
    BY <2>1
  <2>4. \A j \in Indexes(m) : j \in Nat /\ j < Len(m) /\ j + 1 \in 1 .. Len(m)
    BY <2>2 DEF Indexes
  <2>5. \A i \in Indexes(b) : i \in Nat /\ b[i + 1] \in Nat
    BY <2>2 DEF Indexes
  <2> QED BY <2>3, <2>4, <2>5
<1>4. /\ kept \in MoveSeqs /\ Froms(kept)
      /\ \A i \in DOMAIN kept :
            /\ \E k \in DOMAIN c.moves : kept[i].from = c.moves[k].from
            /\ kept[i].to \in J /\ b[kept[i].from + 1] = s[kept[i].to + 1]
      /\ \A k \in DOMAIN c.moves : Has(s, b[c.moves[k].from + 1]) =>
            \E i \in DOMAIN kept : kept[i].from = c.moves[k].from
  BY <1>3 DEF KeptMoves
<1>5. ASSUME NEW i \in DOMAIN kept
      PROVE  kept[i].from \in D /\ kept[i].to \in J /\ b[kept[i].from + 1] = s[kept[i].to + 1]
  BY <1>1, <1>4 DEF MovesRight
<1>6. /\ own \in MoveSeqs /\ Froms(own)
      /\ \A k \in DOMAIN own : own[k].from \notin I /\ \E l \in DOMAIN d.moves : own[k] = d.moves[l]
  BY DEF OwnMoves
<1>7. Finite(D) /\ Finite(I)
  BY <1>1, AppliesBack
<1>8. ASSUME NEW v \in Indexes(m) \ I
      PROVE  To(I, D, v) \in Nat \ D /\ b[To(I, D, v) + 1] = m[v + 1]
  <2>1. v \in Nat \ I /\ v < Len(m)
    BY <1>3
  <2>2. \A j \in Nat \ I : To(I, D, j) \in Nat \ D /\ (j < Len(m) => m[j + 1] = b[To(I, D, j) + 1])
    BY <1>1, AppliesBack
  <2> QED BY <2>1, <2>2
<1>9. ASSUME NEW k \in DOMAIN own
      PROVE  /\ own[k] \in [from : Nat, to : Nat] /\ own[k].from \in d.deletions \ I
             /\ own[k].to \in d.insertions /\ own[k].to \in Nat
             /\ m[own[k].from + 1] = s[own[k].to + 1]
  <2>1. PICK l \in DOMAIN d.moves : own[k] = d.moves[l]
    BY <1>6
  <2>2. own[k] \in [from : Nat, to : Nat] /\ own[k].to \in Nat
    BY <1>6, MoveType
  <2> QED BY <1>1, <1>6, <2>1, <2>2 DEF MovesRight
<1>10. ASSUME NEW k \in DOMAIN own
       PROVE  t[k].from = To(I, D, own[k].from) /\ t[k].to = own[k].to
  OBVIOUS
<1>11. ASSUME NEW k \in DOMAIN own
       PROVE  t[k].from \in E \ D /\ t[k].to \in J /\ b[t[k].from + 1] = s[t[k].to + 1]
  <2>1. own[k].from \in Indexes(m) \ I
    BY <1>2, <1>9
  <2>2. To(I, D, own[k].from) \in Nat \ D /\ b[To(I, D, own[k].from) + 1] = m[own[k].from + 1]
    BY <1>8, <2>1
  <2>3. To(I, D, own[k].from) \in E
    BY <1>9 DEF AllDeleted
  <2> QED BY <1>2, <1>9, <1>10, <2>2, <2>3
<1>12. DOMAIN t = DOMAIN own
  OBVIOUS
<1>14. ASSUME NEW k \in DOMAIN t, NEW l \in DOMAIN t, t[k].from = t[l].from PROVE k = l
  <2>1. own[k].from \in Nat \ I /\ own[l].from \in Nat \ I
    BY <1>2, <1>3, <1>9, <1>12
  <2>2. To(I, D, own[k].from) = To(I, D, own[l].from)
    BY <1>10, <1>12, <1>14
  <2>3. own[k].from = own[l].from
    BY <1>7, <2>1, <2>2, ToOrder
  <2> QED BY <1>6, <1>12, <2>3 DEF Froms
<1>15. ASSUME NEW i \in E, Has(s, b[i + 1])
       PROVE  \/ \E n \in DOMAIN kept : kept[n].from = i
              \/ \E n \in DOMAIN t : t[n].from = i
  <2>1. CASE i \in D
    <3>1. Has(b, b[i + 1]) /\ b[i + 1] \in Nat
      BY <1>2, <1>3, <2>1 DEF Has
    <3>2. Has(m, b[i + 1])
      BY <1>15, <3>1
    <3>3. PICK k \in DOMAIN c.moves : c.moves[k].from = i
      BY <1>1, <2>1, <3>2 DEF MovesRight
    <3> QED BY <1>4, <1>15, <3>3
  <2>2. CASE i \notin D
    <3>1. PICK v \in d.deletions \ I : i = To(I, D, v)
      BY <2>2 DEF AllDeleted
    <3>2. v \in Indexes(m) \ I
      BY <1>2, <3>1
    <3>3. b[i + 1] = m[v + 1]
      BY <1>8, <3>1, <3>2
    <3>4. PICK l \in DOMAIN d.moves : d.moves[l].from = v
      BY <1>1, <1>15, <3>1, <3>3 DEF MovesRight
    <3>5. PICK k \in DOMAIN own : own[k] = d.moves[l]
      BY <3>1, <3>4 DEF OwnMoves
    <3>6. t[k].from = i
      BY <1>10, <3>1, <3>4, <3>5
    <3> QED BY <1>12, <3>5, <3>6
  <2> QED BY <2>1, <2>2
<1> HIDE DEF D, I, E, J
<1>16. /\ a \in MoveSeqs
       /\ \A n \in DOMAIN a : \/ n \in DOMAIN kept /\ a[n] = kept[n]
                              \/ n - Len(kept) \in DOMAIN t /\ a[n] = t[n - Len(kept)]
       /\ \A n \in DOMAIN kept : n \in DOMAIN a /\ a[n] = kept[n]
       /\ \A n \in DOMAIN t : n + Len(kept) \in DOMAIN a /\ a[n + Len(kept)] = t[n]
       /\ \A n \in DOMAIN a : n \in Nat
       /\ Len(kept) \in Nat
  <2> DEFINE S == [from : Nat, to : Nat]
  <2>1. kept \in Seq(S) /\ t \in Seq(S)
    BY <1>4 DEF MoveSeqs
  <2> HIDE DEF S
  <2>2. /\ a \in Seq(S) /\ Len(a) = Len(kept) + Len(t)
        /\ \A n \in 1 .. Len(a) : a[n] = IF n <= Len(kept) THEN kept[n] ELSE t[n - Len(kept)]
    BY <2>1, ConcatProperties
  <2>3. /\ Len(kept) \in Nat /\ Len(t) \in Nat /\ DOMAIN kept = 1 .. Len(kept) /\ DOMAIN t = 1 .. Len(t)
    BY <2>1
  <2>4. DOMAIN a = 1 .. Len(a)
    BY <2>2
  <2> HIDE DEF a
  <2>5. \A n \in 1 .. Len(a) : n \in Nat /\ (n <= Len(kept) => n \in 1 .. Len(kept))
                                /\ (~(n <= Len(kept)) => n - Len(kept) \in 1 .. Len(t))
    BY <2>2, <2>3
  <2>6. \A n \in 1 .. Len(kept) : n \in 1 .. Len(a) /\ n <= Len(kept)
    BY <2>2, <2>3
  <2>7. \A n \in 1 .. Len(t) : /\ n + Len(kept) \in 1 .. Len(a) /\ ~(n + Len(kept) <= Len(kept))
                               /\ (n + Len(kept)) - Len(kept) = n
    BY <2>2, <2>3
  <2>8. \A n \in DOMAIN kept : n \in DOMAIN a /\ a[n] = kept[n]
    BY <2>2, <2>3, <2>4, <2>6
  <2>9. \A n \in DOMAIN t : n + Len(kept) \in DOMAIN a /\ a[n + Len(kept)] = t[n]
    BY <2>2, <2>3, <2>4, <2>7
  <2>10. a \in MoveSeqs
    BY <2>2 DEF MoveSeqs, S
  <2> QED BY <2>2, <2>3, <2>4, <2>5, <2>8, <2>9, <2>10
<1> HIDE DEF a
<1>17. \A n \in DOMAIN a : a[n].from \in E /\ a[n].to \in J /\ b[a[n].from + 1] = s[a[n].to + 1]
  <2> SUFFICES ASSUME NEW n \in DOMAIN a
               PROVE  a[n].from \in E /\ a[n].to \in J /\ b[a[n].from + 1] = s[a[n].to + 1]
    OBVIOUS
  <2>1. CASE n \in DOMAIN kept /\ a[n] = kept[n]
    BY <1>2, <1>5, <2>1
  <2>2. CASE n - Len(kept) \in DOMAIN t /\ a[n] = t[n - Len(kept)]
    BY <1>11, <1>12, <2>2
  <2> QED BY <1>16, <2>1, <2>2
<1>18. ASSUME NEW n \in DOMAIN a, NEW k \in DOMAIN a, a[n].from = a[k].from PROVE n = k
  <2>1. CASE n \in DOMAIN kept /\ a[n] = kept[n] /\ k \in DOMAIN kept /\ a[k] = kept[k]
    BY <1>4, <1>18, <2>1 DEF Froms
  <2>2. CASE /\ n - Len(kept) \in DOMAIN t /\ a[n] = t[n - Len(kept)]
             /\ k - Len(kept) \in DOMAIN t /\ a[k] = t[k - Len(kept)]
    <3>1. n - Len(kept) = k - Len(kept)
      BY <1>14, <1>18, <2>2
    <3> QED BY <1>16, <3>1
  <2>3. ASSUME NEW i \in DOMAIN kept, NEW j \in DOMAIN t PROVE kept[i].from # t[j].from
    BY <1>5, <1>11, <1>12
  <2>4. ~(a[n] = kept[n] /\ n \in DOMAIN kept /\ k - Len(kept) \in DOMAIN t /\ a[k] = t[k - Len(kept)])
    BY <1>18, <2>3
  <2>5. ~(a[k] = kept[k] /\ k \in DOMAIN kept /\ n - Len(kept) \in DOMAIN t /\ a[n] = t[n - Len(kept)])
    BY <1>18, <2>3
  <2>6. /\ \/ n \in DOMAIN kept /\ a[n] = kept[n]
           \/ n - Len(kept) \in DOMAIN t /\ a[n] = t[n - Len(kept)]
        /\ \/ k \in DOMAIN kept /\ a[k] = kept[k]
           \/ k - Len(kept) \in DOMAIN t /\ a[k] = t[k - Len(kept)]
    BY <1>16, <1>18
  <2> QED BY <2>1, <2>2, <2>4, <2>5, <2>6
<1>19. ASSUME NEW i \in E, Has(s, b[i + 1]) PROVE \E n \in DOMAIN a : a[n].from = i
  <2>1. CASE \E n \in DOMAIN kept : kept[n].from = i
    BY <1>16, <2>1
  <2>2. CASE \E n \in DOMAIN t : t[n].from = i
    BY <1>16, <2>2
  <2> QED BY <1>15, <1>19, <2>1, <2>2
<1>20. MovesRight(b, s, E, J, a)
  BY <1>17, <1>18, <1>19 DEF MovesRight
<1> QED BY <1>16, <1>20 DEF a, E, J, D, I

(* The moves with their origins as they were before the changes D and I *)
Before(ms, D, I) == [k \in DOMAIN ms |-> [ms[k] EXCEPT !.from = Shift(D, Unshift(I, @))]]

LEMMA MovesBefore ==
    ASSUME NEW D, NEW I, Finite(D), Finite(I), NEW ms \in MoveSeqs, \A k \in DOMAIN ms : ms[k].from \notin I
    PROVE  /\ Before(ms, D, I) \in MoveSeqs /\ DOMAIN Before(ms, D, I) = DOMAIN ms
           /\ \A k \in DOMAIN ms : /\ Before(ms, D, I)[k].from = To(I, D, ms[k].from)
                                   /\ Before(ms, D, I)[k].to = ms[k].to
<1> DEFINE AMove == [from : Nat, to : Nat]
           New(x) == [x EXCEPT !.from = Shift(D, Unshift(I, @))]
           ns == [k \in DOMAIN ms |-> New(ms[k])]
<1>1. ms \in Seq(AMove)
  BY DEF MoveSeqs
<1>2. ASSUME NEW x \in AMove, x.from \notin I
      PROVE  New(x) \in AMove /\ New(x).from = To(I, D, x.from) /\ New(x).to = x.to
  <2>1. x.from \in Nat \ I
    BY <1>2
  <2>2. To(I, D, x.from) \in Nat
    BY <2>1, ToRight
  <2> QED BY <2>2 DEF To
<1>3. Before(ms, D, I) = ns
  BY DEF Before
<1> HIDE DEF AMove, New
<1>4. Len(ms) \in Nat /\ DOMAIN ms = 1 .. Len(ms) /\ \A k \in DOMAIN ms : ms[k] \in AMove
  BY <1>1
<1>5. ns \in [1 .. Len(ms) -> AMove]
  BY <1>2, <1>4
<1>6. ns \in Seq(AMove) /\ DOMAIN ns = DOMAIN ms
  BY <1>4, <1>5
<1>7. \A k \in DOMAIN ms : ns[k].from = To(I, D, ms[k].from) /\ ns[k].to = ms[k].to
  BY <1>2, <1>4
<1> HIDE DEF ns
<1> QED BY <1>3, <1>6, <1>7 DEF AMove, MoveSeqs

(* The slots that b and s have both were never away. *)
Between(b, m, s) == \A x \in Nat : Has(b, x) /\ Has(s, x) => Has(m, x)

(* A slot that is still there is marked by e when c, on the way to m, or d marked it. *)
MarksJoin(b, m, s, c, d, e) ==
    \A x \in Nat : Has(b, x) /\ Has(s, x) =>
        (x \in Marks(s, e) <=> x \in Marks(m, c) \/ x \in Marks(s, d))

(* The places that a merge marks *)
MarkedAt(c, d, q) ==
    \/ q \in d.modifications
    \/ \E p \in c.modifications \ d.deletions : q = To(d.deletions, d.insertions, p)
    \/ \E l \in DOMAIN d.moves :
          /\ q = d.moves[l].to /\ d.moves[l].from \in c.modifications
          /\ d.moves[l].from \in c.insertions => \E k \in DOMAIN c.moves : c.moves[k].to = d.moves[l].from

MarksMerged(c, d, e) == \A q : q \in e.modifications <=> MarkedAt(c, d, q)

(* A slot that is still there is marked by the merge when one of the two marked it. *)
LEMMA MergedMarks ==
    ASSUME NEW b \in Seq(Nat), NEW m \in Seq(Nat), NEW s \in Seq(Nat), Distinct(m), Distinct(s),
           NEW c, Right(b, m, c), NEW d, Right(m, s, d),
           Between(b, m, s), NEW e, MarksMerged(c, d, e)
    PROVE  e.modifications \subseteq Indexes(s) /\ MarksJoin(b, m, s, c, d, e)
<1> DEFINE D2 == d.deletions
           I2 == d.insertions
<1>1. /\ Applies(b, m, c.deletions, c.insertions) /\ Applies(m, s, D2, I2)
      /\ MovesRight(b, m, c.deletions, c.insertions, c.moves) /\ MovesRight(m, s, D2, I2, d.moves)
      /\ c.modifications \subseteq Indexes(m) /\ d.modifications \subseteq Indexes(s)
  BY DEF Right
<1>2. /\ c.deletions \subseteq Indexes(b) /\ c.insertions \subseteq Indexes(m)
      /\ D2 \subseteq Indexes(m) /\ I2 \subseteq Indexes(s)
  BY <1>1 DEF Applies
<1>3. /\ \A j \in Nat : j \in Indexes(m) <=> j < Len(m)
      /\ \A j \in Nat : j \in Indexes(s) <=> j < Len(s)
      /\ \A j \in Nat : j \in Indexes(b) <=> j < Len(b)
      /\ Indexes(m) \subseteq Nat /\ Indexes(b) \subseteq Nat
  <2>1. Len(m) \in Nat /\ Len(s) \in Nat /\ Len(b) \in Nat
    OBVIOUS
  <2> QED BY <2>1 DEF Indexes
<1>4. ASSUME NEW p \in Indexes(m) \ D2
      PROVE  To(D2, I2, p) \in Indexes(s) /\ s[To(D2, I2, p) + 1] = m[p + 1]
  <2>1. \A i \in Nat \ D2 :
           /\ To(D2, I2, i) \in Nat
           /\ i < Len(m) <=> To(D2, I2, i) < Len(s)
           /\ i < Len(m) => m[i + 1] = s[To(D2, I2, i) + 1]
    BY <1>1, AppliesBack
  <2>2. p \in Nat \ D2 /\ p < Len(m)
    BY <1>3
  <2> QED BY <1>3, <2>1, <2>2
<1>5. ASSUME NEW i \in Indexes(b) \ c.deletions
      PROVE  \E j \in Indexes(m) \ c.insertions : m[j + 1] = b[i + 1]
  <2> DEFINE j == To(c.deletions, c.insertions, i)
  <2>1. \A k \in Nat \ c.deletions :
           /\ To(c.deletions, c.insertions, k) \in Nat \ c.insertions
           /\ k < Len(b) <=> To(c.deletions, c.insertions, k) < Len(m)
           /\ k < Len(b) => b[k + 1] = m[To(c.deletions, c.insertions, k) + 1]
    BY <1>1, AppliesBack
  <2>2. i \in Nat \ c.deletions /\ i < Len(b)
    BY <1>3
  <2>3. j \in Nat \ c.insertions /\ j < Len(m) /\ m[j + 1] = b[i + 1]
    BY <2>1, <2>2
  <2> HIDE DEF j
  <2> QED BY <1>3, <2>3
<1>6. ASSUME NEW l \in DOMAIN d.moves
      PROVE  /\ d.moves[l].from \in Indexes(m) /\ d.moves[l].to \in Indexes(s)
             /\ m[d.moves[l].from + 1] = s[d.moves[l].to + 1]
  BY <1>1, <1>2 DEF MovesRight
<1>7. ASSUME NEW q \in e.modifications PROVE q \in Indexes(s)
  <2>1. MarkedAt(c, d, q)
    BY <1>7 DEF MarksMerged
  <2>2. ASSUME NEW p \in c.modifications \ D2, q = To(D2, I2, p) PROVE q \in Indexes(s)
    BY <1>1, <1>4, <2>2
  <2> QED BY <1>1, <1>6, <2>1, <2>2 DEF MarkedAt
<1>8. ASSUME NEW x \in Nat, Has(b, x), Has(s, x)
      PROVE  x \in Marks(s, e) <=> x \in Marks(m, c) \/ x \in Marks(s, d)
  <2>1. PICK p \in Indexes(m) : m[p + 1] = x
    BY <1>8 DEF Has, Between
  <2>2. PICK q \in Indexes(s) : s[q + 1] = x
    BY <1>8 DEF Has
  <2>3. /\ x \in Marks(m, c) <=> p \in c.modifications
        /\ x \in Marks(s, d) <=> q \in d.modifications
        /\ x \in Marks(s, e) <=> q \in e.modifications
    BY <1>1, <1>7, <2>1, <2>2, ZenonT(60) DEF Marks, Distinct
  <2>4. ASSUME q \in e.modifications, q \notin d.modifications PROVE p \in c.modifications
    <3>1. MarkedAt(c, d, q)
      BY <2>4 DEF MarksMerged
    <3>2. ASSUME NEW v \in c.modifications \ D2, q = To(D2, I2, v) PROVE p \in c.modifications
      <4>1. v \in Indexes(m) /\ m[v + 1] = x
        BY <1>1, <1>4, <2>2, <3>2
      <4>2. v = p
        BY <2>1, <4>1 DEF Distinct
      <4> QED BY <3>2, <4>2
    <3>3. ASSUME NEW l \in DOMAIN d.moves, q = d.moves[l].to, d.moves[l].from \in c.modifications
          PROVE  p \in c.modifications
      <4>1. d.moves[l].from = p
        BY <1>6, <2>1, <2>2, <3>3 DEF Distinct
      <4> QED BY <3>3, <4>1
    <3> QED BY <2>4, <3>1, <3>2, <3>3 DEF MarkedAt
  <2>5. ASSUME q \in d.modifications PROVE q \in e.modifications
    BY <2>5 DEF MarkedAt, MarksMerged
  <2>6. ASSUME p \in c.modifications, p \notin D2 PROVE q \in e.modifications
    <3>1. To(D2, I2, p) \in Indexes(s) /\ s[To(D2, I2, p) + 1] = x
      BY <1>4, <2>1, <2>6
    <3>2. q = To(D2, I2, p)
      BY <2>2, <3>1 DEF Distinct
    <3>3. MarkedAt(c, d, q)
      BY <2>6, <3>2 DEF MarkedAt
    <3> QED BY <3>3 DEF MarksMerged
  <2>7. ASSUME p \in c.modifications, p \in D2 PROVE q \in e.modifications
    <3>1. PICK l \in DOMAIN d.moves : d.moves[l].from = p
      BY <1>1, <1>8, <2>1, <2>7 DEF MovesRight
    <3>2. d.moves[l].to = q
      BY <1>6, <2>1, <2>2, <3>1 DEF Distinct
    <3>3. ASSUME p \in c.insertions PROVE \E k \in DOMAIN c.moves : c.moves[k].to = p
      <4>1. PICK i \in Indexes(b) : b[i + 1] = x
        BY <1>8 DEF Has
      <4>2. i \in c.deletions
        <5> SUFFICES ASSUME i \notin c.deletions PROVE FALSE
          OBVIOUS
        <5>1. PICK j \in Indexes(m) \ c.insertions : m[j + 1] = x
          BY <1>5, <4>1
        <5>2. j = p
          BY <2>1, <5>1 DEF Distinct
        <5> QED BY <3>3, <5>1, <5>2
      <4>3. Has(m, b[i + 1])
        BY <2>1, <4>1 DEF Has
      <4>4. PICK k \in DOMAIN c.moves : c.moves[k].from = i
        BY <1>1, <4>2, <4>3 DEF MovesRight
      <4>5. c.moves[k].to \in Indexes(m) /\ m[c.moves[k].to + 1] = x
        BY <1>1, <1>2, <4>1, <4>4 DEF MovesRight
      <4>6. c.moves[k].to = p
        BY <2>1, <4>5 DEF Distinct
      <4> QED BY <4>6
    <3>4. MarkedAt(c, d, q)
      BY <2>7, <3>1, <3>2, <3>3 DEF MarkedAt
    <3> QED BY <3>4 DEF MarksMerged
  <2> QED BY <2>3, <2>4, <2>5, <2>6, <2>7
<1> QED BY <1>7, <1>8 DEF MarksJoin

(* What merge marks, before and after the moves are cleaned up *)
LEMMA MergedPlaces ==
    ASSUME NEW b, NEW m, NEW s, NEW c, Fits(b, m, c), NEW d, NEW u,
           Updated(b, s, c, d, Len(c.moves), u), NEW own, OwnMoves(c, d, own), NEW q
    PROVE  (\/ q \in {To(d.deletions, d.insertions, p) : p \in c.modifications \ d.deletions}
            \/ q \in u.next.modifications
            \/ q \in {x.to : x \in {y \in ToSet(own) : y.from \in c.modifications}})
           <=> MarkedAt(c, d, q)
<1>1. \A k \in DOMAIN c.moves : k <= Len(c.moves) /\ c.moves[k].to \in c.insertions
  <2>1. c.moves \in MoveSeqs /\ \A k \in DOMAIN c.moves : c.moves[k].to \in c.insertions
    BY DEF Fits, MovesRight, Changes
  <2>2. DOMAIN c.moves = 1 .. Len(c.moves) /\ Len(c.moves) \in Nat
    BY <2>1, MoveType
  <2>3. \A k \in DOMAIN c.moves : k <= Len(c.moves)
    BY <2>2
  <2> QED BY <2>1, <2>3
<1>2. ASSUME NEW l \in DOMAIN d.moves
      PROVE  Again(c, d, Len(c.moves), l) <=>
                /\ d.moves[l].from \in c.modifications
                /\ \E k \in DOMAIN c.moves : c.moves[k].to = d.moves[l].from
  BY <1>1 DEF Again
<1>3. q \in u.next.modifications <=>
         q \in d.modifications \/ \E l \in DOMAIN d.moves : q = d.moves[l].to /\ Again(c, d, Len(c.moves), l)
  BY DEF Updated
<1>4. q \in {x.to : x \in {y \in ToSet(own) : y.from \in c.modifications}} <=>
         \E l \in DOMAIN d.moves : /\ q = d.moves[l].to /\ d.moves[l].from \in c.modifications
                                   /\ d.moves[l].from \notin c.insertions
  <2>1. ASSUME NEW k \in DOMAIN own, q = own[k].to, own[k].from \in c.modifications
        PROVE  \E l \in DOMAIN d.moves : /\ q = d.moves[l].to /\ d.moves[l].from \in c.modifications
                                         /\ d.moves[l].from \notin c.insertions
    BY <2>1 DEF OwnMoves
  <2>2. ASSUME NEW l \in DOMAIN d.moves, q = d.moves[l].to, d.moves[l].from \in c.modifications,
               d.moves[l].from \notin c.insertions
        PROVE  \E k \in DOMAIN own : q = own[k].to /\ own[k].from \in c.modifications
    BY <2>2 DEF OwnMoves
  <2>3. q \in {x.to : x \in {y \in ToSet(own) : y.from \in c.modifications}} <=>
           \E k \in DOMAIN own : q = own[k].to /\ own[k].from \in c.modifications
    BY DEF ToSet
  <2> QED BY <2>1, <2>2, <2>3
<1>5. q \in {To(d.deletions, d.insertions, p) : p \in c.modifications \ d.deletions} <=>
         \E p \in c.modifications \ d.deletions : q = To(d.deletions, d.insertions, p)
  OBVIOUS
<1>6. ASSUME NEW l \in DOMAIN d.moves
      PROVE  d.moves[l].from \in c.insertions \/ ~\E k \in DOMAIN c.moves : c.moves[k].to = d.moves[l].from
  BY <1>1
<1>7. (\E l \in DOMAIN d.moves :
          /\ q = d.moves[l].to /\ d.moves[l].from \in c.modifications
          /\ d.moves[l].from \in c.insertions => \E k \in DOMAIN c.moves : c.moves[k].to = d.moves[l].from)
      <=> (\/ \E l \in DOMAIN d.moves : q = d.moves[l].to /\ Again(c, d, Len(c.moves), l)
           \/ \E l \in DOMAIN d.moves : /\ q = d.moves[l].to /\ d.moves[l].from \in c.modifications
                                        /\ d.moves[l].from \notin c.insertions)
  BY <1>2, <1>6
<1> QED BY <1>3, <1>4, <1>5, <1>7 DEF MarkedAt

(* Two change sets, one after the other, are one change set for both. *)
LEMMA MergeRight ==
    ASSUME NEW b \in Seq(Nat), NEW m \in Seq(Nat), NEW s \in Seq(Nat),
           Distinct(b), Distinct(m), Distinct(s),
           NEW c, Right(b, m, c), NEW d, Right(m, s, d),
           Between(b, m, s),
           b = m => c.deletions = {} /\ c.insertions = {},
           m = s => d.deletions = {} /\ d.insertions = {}
    PROVE  /\ Right(b, s, Merge(c, d))
           /\ b = s => Merge(c, d).deletions = {} /\ Merge(c, d).insertions = {}
           /\ MarksJoin(b, m, s, c, d, Merge(c, d))
<1>1. Applies(b, m, c.deletions, c.insertions) /\ Applies(m, s, d.deletions, d.insertions)
  BY DEF Right
<1>2. CASE IsEmpty(d)
  <2>1. Merge(c, d) = c
    BY <1>2 DEF Merge
  <2>2. m = s
    BY <1>1, <1>2, AppliesNothing DEF IsEmpty
  <2>3. \A x : x \notin Marks(s, d)
    BY <1>2 DEF IsEmpty, Marks
  <2> QED BY <2>1, <2>2, <2>3 DEF MarksJoin
<1>3. CASE ~IsEmpty(d) /\ IsEmpty(c)
  <2>1. Merge(c, d) = d
    BY <1>3 DEF Merge
  <2>2. b = m
    BY <1>1, <1>3, AppliesNothing DEF IsEmpty
  <2>3. \A x : x \notin Marks(m, c)
    BY <1>3 DEF IsEmpty, Marks
  <2> QED BY <2>1, <2>2, <2>3 DEF MarksJoin
<1>4. CASE ~IsEmpty(d) /\ ~IsEmpty(c)
  <2> DEFINE D == c.deletions
             I == c.insertions
             M == c.modifications
             u == UpdatedMoves(c, d)
             ns == u.next.moves
             own == Only(ns, {x \in ToSet(ns) : x.from \notin I})
             t == Before(own, D, I)
             a == u.kept \o t
             E == AllDeleted(D, I, d.deletions)
             J == AllInserted(I, d.deletions, d.insertions)
             Z == [c EXCEPT !.moves = a, !.deletions = E, !.insertions = J]
             e == CleanUpStaleMoves(Z)
             F == {To(d.deletions, d.insertions, p) : p \in M \ d.deletions}
                  \cup (u.next.modifications \cup {x.to : x \in {y \in ToSet(own) : y.from \in M}})
             r == [e EXCEPT !.modifications = F]
  <2>1. Fits(b, m, c) /\ Fits(m, s, d) /\ c \in Changes /\ M \in SUBSET Nat
    BY DEF Right, Fits, Changes
  <2>2. Updated(b, s, c, d, Len(c.moves), u)
    BY <2>1, UpdatedAll
  <2>3. Finite(D) /\ Finite(I)
    BY <1>1, AppliesType
  <2>4. MergeMoves(c, d) = [moves |-> a, marked |-> u.next.modifications
                                      \cup {x.to : x \in {y \in ToSet(own) : y.from \in M}}]
    BY DEF MergeMoves, Before
  <2> HIDE DEF u
  <2>5. OwnMoves(c, d, own)
    BY <2>1, <2>2, OnlyOwn DEF Updated
  <2> HIDE DEF ns, own
  <2>6. /\ t \in MoveSeqs /\ DOMAIN t = DOMAIN own
        /\ \A k \in DOMAIN own : t[k].from = To(I, D, own[k].from) /\ t[k].to = own[k].to
    <3>1. own \in MoveSeqs /\ \A k \in DOMAIN own : own[k].from \notin I
      BY <2>5 DEF OwnMoves
    <3> HIDE DEF D, I
    <3> QED BY <2>3, <3>1, MovesBefore
  <2> HIDE DEF t
  <2>7. a \in MoveSeqs /\ MovesRight(b, s, E, J, a)
    <3>1. KeptMoves(b, s, c, J, Len(c.moves), u.kept)
      BY <2>2 DEF Updated
    <3> QED BY <2>1, <2>5, <2>6, <3>1, JoinedMoves DEF Between
  <2>8. Applies(b, s, E, J)
    BY <1>1, MergeApplies
  <2>9. Finite(E) /\ Finite(J)
    BY <2>8, AppliesType
  <2>10. Merge(c, d) = r
    <3>1. MergedDeletions(c, d) = E
      BY MergedSets
    <3>2. InsertAll(EraseAll(I, d.deletions), d.insertions) = J
      BY DEF InsertAll, ShiftForInsert, EraseAll, AllInserted, To
    <3>3. ShiftForInsert(EraseAll(M, d.deletions), d.insertions)
             = {To(d.deletions, d.insertions, p) : p \in M \ d.deletions}
      BY DEF ShiftForInsert, EraseAll, To
    <3> DEFINE g == MergeMoves(c, d)
               w == u.next.modifications \cup {x.to : x \in {y \in ToSet(own) : y.from \in M}}
    <3>4. g.moves = a /\ g.marked = w
      BY <2>4
    <3> HIDE DEF w, a, E, J
    <3>5. Z = [c EXCEPT !.moves = g.moves, !.deletions = MergedDeletions(c, d),
                        !.insertions = InsertAll(EraseAll(@, d.deletions), d.insertions)]
      BY <2>1, <3>1, <3>2, <3>4 DEF Changes
    <3>6. Merge(c, d) = [e EXCEPT !.modifications = ShiftForInsert(EraseAll(@, d.deletions), d.insertions) \cup g.marked]
      BY <1>4, <3>5 DEF Merge
    <3>7. Fits(b, s, Z) /\ Z.modifications = M
      <4>1. Z \in Changes /\ Z.modifications = M /\ Z.moves = a /\ Z.deletions = E /\ Z.insertions = J
        BY <2>1, <2>7, <2>9 DEF Changes, Finite
      <4> HIDE DEF Z
      <4> QED BY <2>7, <2>8, <4>1 DEF Fits
    <3> HIDE DEF Z, g
    <3>8. e.modifications = M /\ e \in Changes
      BY <3>7, CleanUpRight DEF Fits
    <3> HIDE DEF e
    <3>9. F = {To(d.deletions, d.insertions, p) : p \in M \ d.deletions} \cup w
      BY DEF w
    <3>10. Merge(c, d) = [e EXCEPT !.modifications = F]
      BY <3>3, <3>4, <3>6, <3>8, <3>9
    <3> QED BY <3>10
  <2>11. Fits(b, s, Z) /\ Z.modifications = M
    <3> HIDE DEF a, E, J
    <3>1. Z \in Changes /\ Z.modifications = M /\ Z.moves = a /\ Z.deletions = E /\ Z.insertions = J
      BY <2>1, <2>7, <2>9 DEF Changes, Finite
    <3> HIDE DEF Z
    <3> QED BY <2>7, <2>8, <3>1 DEF Fits
  <2> HIDE DEF Z
  <2>12. Fits(b, s, e) /\ (b = s => e.deletions = {} /\ e.insertions = {})
    BY <2>11, CleanUpRight
  <2> HIDE DEF e
  <2>13. \A q : q \in F <=> MarkedAt(c, d, q)
    <3> SUFFICES ASSUME NEW q PROVE q \in F <=> MarkedAt(c, d, q)
      OBVIOUS
    <3>1. (\/ q \in {To(d.deletions, d.insertions, p) : p \in M \ d.deletions}
           \/ q \in u.next.modifications
           \/ q \in {x.to : x \in {y \in ToSet(own) : y.from \in M}})
          <=> MarkedAt(c, d, q)
      BY <2>1, <2>2, <2>5, MergedPlaces
    <3> QED BY <3>1
  <2> HIDE DEF F
  <2>14. e \in Changes
    BY <2>12 DEF Fits
  <2>15. r.modifications = F /\ r.deletions = e.deletions /\ r.insertions = e.insertions /\ r.moves = e.moves
    BY <2>14 DEF Changes
  <2>16. F \in SUBSET Nat => r \in Changes
    BY <2>14 DEF Changes
  <2> HIDE DEF r
  <2>17. /\ r.modifications \subseteq Indexes(s)
         /\ MarksJoin(b, m, s, c, d, r)
    <3>1. MarksMerged(c, d, r)
      BY <2>13, <2>15 DEF MarksMerged
    <3> HIDE DEF D, I, M, a, E, J
    <3> QED BY <3>1, MergedMarks
  <2>18. F \in SUBSET Nat
    <3>1. Indexes(s) \subseteq Nat
      BY DEF Indexes
    <3> QED BY <2>15, <2>17, <3>1
  <2>19. Right(b, s, r)
    BY <2>12, <2>15, <2>16, <2>17, <2>18 DEF Right, Fits
  <2> QED BY <2>10, <2>12, <2>15, <2>17, <2>19
<1> QED BY <1>2, <1>3, <1>4

-----------------------------------------------------------------------------
(* The invariant *)

LEMMA NothingRight ==
    ASSUME NEW s \in Seq(Nat)
    PROVE  Right(s, s, NoChanges) /\ \A x : x \notin Marks(s, NoChanges)
<1> DEFINE f == [i \in Nat |-> i]
<1>1. Nat \ {} = Nat
  OBVIOUS
<1>2. Matches(f, {}, {})
  BY <1>1 DEF Matches
<1>3. Applies(s, s, {}, {})
  <2>1. \A i \in Nat : f[i] = i
    OBVIOUS
  <2> HIDE DEF f
  <2>2. {} \subseteq Indexes(s)
    OBVIOUS
  <2>3. \A i \in Nat \ {} : (i < Len(s) <=> f[i] < Len(s)) /\ (i < Len(s) => s[i + 1] = s[f[i] + 1])
    BY <1>1, <2>1
  <2> QED BY <1>2, <2>2, <2>3, AppliesBy
<1>4. <<>> \in MoveSeqs /\ DOMAIN <<>> = {}
  BY DEF MoveSeqs
<1>5. NoChanges \in Changes
  BY <1>4 DEF NoChanges, Changes
<1>6. MovesRight(s, s, {}, {}, <<>>)
  BY <1>4 DEF MovesRight
<1>7. /\ NoChanges.deletions = {} /\ NoChanges.insertions = {} /\ NoChanges.modifications = {}
      /\ NoChanges.moves = <<>>
  BY DEF NoChanges
<1> QED BY <1>3, <1>5, <1>6, <1>7 DEF Right, Marks

LEMMA Bounded ==
    ASSUME NEW s \in Seq(Nat)
    PROVE  \E B \in Nat : \A i \in 1 .. Len(s) : s[i] <= B
<1> DEFINE S == {n \in Nat : n <= Len(s) => \E B \in Nat : \A i \in 1 .. n : s[i] <= B}
<1>1. Len(s) \in Nat
  OBVIOUS
<1>2. 0 \in S
  <2>1. \A i \in 1 .. 0 : s[i] <= 0
    OBVIOUS
  <2> QED BY <2>1
<1>3. ASSUME NEW k \in 0 .. Len(s) - 1, k \in S PROVE k + 1 \in S
  <2>1. k \in Nat /\ k + 1 \in Nat /\ k <= Len(s) /\ k + 1 \in 1 .. Len(s)
    BY <1>1
  <2>2. PICK B \in Nat : \A i \in 1 .. k : s[i] <= B
    BY <1>3, <2>1
  <2>3. s[k + 1] \in Nat
    BY <2>1
  <2>4. ASSUME NEW i \in 1 .. k + 1 PROVE s[i] <= B + s[k + 1]
    <3>1. CASE i = k + 1
      BY <2>3, <3>1
    <3>2. CASE i # k + 1
      <4>1. i \in 1 .. k /\ i \in 1 .. Len(s)
        BY <2>1, <3>2
      <4>2. s[i] \in Nat /\ s[i] <= B
        BY <2>2, <4>1
      <4> QED BY <2>3, <4>2
    <3> QED BY <3>1, <3>2
  <2>5. B + s[k + 1] \in Nat
    BY <2>3
  <2>6. \E C \in Nat : \A i \in 1 .. k + 1 : s[i] <= C
    BY <2>4, <2>5
  <2> QED BY <2>1, <2>6
<1>4. \A k \in 0 .. Len(s) : k \in S
  <2> HIDE DEF S
  <2> QED BY <1>1, <1>2, <1>3, Induction
<1>5. Len(s) \in 0 .. Len(s) /\ Len(s) <= Len(s)
  BY <1>1
<1> QED BY <1>4, <1>5

LEMMA LargestNumber ==
    ASSUME NEW S \in SUBSET Nat, 0 \in S, NEW B \in Nat, \A y \in S : y <= B
    PROVE  Max(S) \in S /\ \A y \in S : y <= Max(S)
<1> DEFINE T == {z \in Nat : \A y \in S : y <= z}
<1>1. PICK x \in T : \A z \in T : x <= z
  <2>1. T \in SUBSET Nat /\ T # {}
    OBVIOUS
  <2> HIDE DEF T
  <2> QED BY <2>1, LeastNumber
<1>2. x \in Nat /\ \A y \in S : y <= x
  BY <1>1
<1>3. x \in S
  <2> SUFFICES ASSUME x \notin S PROVE FALSE
    OBVIOUS
  <2>1. x # 0 /\ x - 1 \in Nat
    BY <1>2
  <2>2. \A y \in S : y <= x - 1
    BY <1>2
  <2>3. x - 1 \in T
    BY <2>1, <2>2
  <2>4. x <= x - 1
    BY <1>1, <2>3
  <2> QED BY <1>2, <2>4
<1>4. \E z \in S : \A y \in S : z >= y
  BY <1>2, <1>3
<1>5. Max(S) \in S /\ \A y \in S : Max(S) >= y
  BY <1>4 DEF Max
<1> QED BY <1>5

(* The name of a new slot is not that of another one. *)
LEMMA NewSlot ==
    ASSUME NEW l \in Seq(Nat), NEW s \in Seq(Nat), NEW b \in Seq(Nat)
    PROVE  LET x == Max((UNION {ToSet(q) : q \in {l, s, b}}) \cup {0}) + 1 IN
           x \in Nat /\ ~Has(l, x) /\ ~Has(s, x) /\ ~Has(b, x)
<1> DEFINE S == (UNION {ToSet(q) : q \in {l, s, b}}) \cup {0}
           x == Max(S) + 1
<1>1. PICK B \in Nat : \A i \in 1 .. Len(l) : l[i] <= B
  BY Bounded
<1>2. PICK C \in Nat : \A i \in 1 .. Len(s) : s[i] <= C
  BY Bounded
<1>3. PICK D \in Nat : \A i \in 1 .. Len(b) : b[i] <= D
  BY Bounded
<1>4. /\ \A y \in S : \/ y = 0
                      \/ \E i \in 1 .. Len(l) : y = l[i]
                      \/ \E i \in 1 .. Len(s) : y = s[i]
                      \/ \E i \in 1 .. Len(b) : y = b[i]
      /\ 0 \in S
      /\ \A i \in 1 .. Len(l) : l[i] \in S
      /\ \A i \in 1 .. Len(s) : s[i] \in S
      /\ \A i \in 1 .. Len(b) : b[i] \in S
  <2>1. ASSUME NEW q \in Seq(Nat) PROVE ToSet(q) = {q[i] : i \in 1 .. Len(q)}
    <3>1. DOMAIN q = 1 .. Len(q)
      OBVIOUS
    <3> QED BY <3>1 DEF ToSet
  <2>0. S = (ToSet(l) \cup ToSet(s) \cup ToSet(b)) \cup {0}
    <3>1. {ToSet(q) : q \in {l, s, b}} = {ToSet(l), ToSet(s), ToSet(b)}
      BY Zenon
    <3> DEFINE U == ToSet(l)
               V == ToSet(s)
               W == ToSet(b)
    <3>2. S = (UNION {U, V, W}) \cup {0}
      BY <3>1
    <3> HIDE DEF S, U, V, W
    <3>3. UNION {U, V, W} = U \cup V \cup W
      OBVIOUS
    <3>4. S = (U \cup V \cup W) \cup {0}
      BY <3>2, <3>3
    <3> QED BY <3>4 DEF U, V, W
  <2>2. ToSet(l) \subseteq S /\ ToSet(s) \subseteq S /\ ToSet(b) \subseteq S /\ 0 \in S
    BY <2>0, Zenon
  <2>3. \A y \in S : y = 0 \/ y \in ToSet(l) \/ y \in ToSet(s) \/ y \in ToSet(b)
    BY <2>0, Zenon
  <2> HIDE DEF S
  <2>4. /\ ToSet(l) = {l[i] : i \in 1 .. Len(l)} /\ ToSet(s) = {s[i] : i \in 1 .. Len(s)}
        /\ ToSet(b) = {b[i] : i \in 1 .. Len(b)}
    BY <2>1
  <2>5. \A y \in S : \/ y = 0
                     \/ \E i \in 1 .. Len(l) : y = l[i]
                     \/ \E i \in 1 .. Len(s) : y = s[i]
                     \/ \E i \in 1 .. Len(b) : y = b[i]
    BY <2>3, <2>4
  <2> QED BY <2>2, <2>4, <2>5
<1> HIDE DEF S
<1>5. S \in SUBSET Nat /\ 0 \in S
  <2>1. /\ \A i \in 1 .. Len(l) : l[i] \in Nat
        /\ \A i \in 1 .. Len(s) : s[i] \in Nat
        /\ \A i \in 1 .. Len(b) : b[i] \in Nat
    OBVIOUS
  <2>2. ASSUME NEW y \in S PROVE y \in Nat
    <3>1. CASE y = 0
      BY <3>1
    <3>2. CASE y # 0
      <4>1. \/ \E i \in 1 .. Len(l) : y = l[i]
            \/ \E i \in 1 .. Len(s) : y = s[i]
            \/ \E i \in 1 .. Len(b) : y = b[i]
        BY <1>4, <3>2
      <4> QED BY <2>1, <4>1, Zenon
    <3> QED BY <3>1, <3>2
  <2> QED BY <1>4, <2>2
<1>6. B + C + D \in Nat
  OBVIOUS
<1>7. ASSUME NEW y \in S PROVE y <= B + C + D
  <2>1. y = 0 \/ y <= B \/ y <= C \/ y <= D
    BY <1>1, <1>2, <1>3, <1>4
  <2>2. y \in Nat
    BY <1>5
  <2> QED BY <2>1, <2>2
<1>8. Max(S) \in S /\ \A y \in S : y <= Max(S)
  BY <1>5, <1>6, <1>7, LargestNumber
<1>9. x \in Nat /\ x \notin S
  <2>1. Max(S) \in Nat
    BY <1>5, <1>8
  <2>2. x \in Nat /\ ~(x <= Max(S))
    BY <2>1
  <2> QED BY <1>8, <2>2
<1>10. ASSUME NEW q \in Seq(Nat), \A i \in 1 .. Len(q) : q[i] \in S PROVE ~Has(q, x)
  <2>1. \A j \in Indexes(q) : j + 1 \in 1 .. Len(q)
    <3>1. Len(q) \in Nat
      OBVIOUS
    <3> QED BY <3>1 DEF Indexes
  <2> HIDE DEF x
  <2> QED BY <1>9, <1>10, <2>1 DEF Has
<1>11. x \in Nat /\ ~Has(l, x) /\ ~Has(s, x) /\ ~Has(b, x)
  BY <1>4, <1>9, <1>10
<1> QED BY <1>11 DEF S

(* Of the slots l now, st at the last run and ba at the last call: what was reported and
   what was parsed say how one becomes the next; a slot that was there all the time is
   marked, by one or the other, when it was changed. *)
ListRight(l, st, ba, ch, ac, to, di) ==
    /\ l \in Seq(Nat) /\ st \in Seq(Nat) /\ ba \in Seq(Nat)
    /\ Distinct(l) /\ Distinct(st) /\ Distinct(ba) /\ Len(l) <= MaxLen
    /\ Right(ba, st, ac) /\ Right(st, l, ch) /\ Between(ba, st, l)
    /\ \A x \in Nat : Has(ba, x) /\ Has(l, x) =>
          (x \in di <=> x \in Marks(st, ac) \/ x \in Marks(l, ch) \/ x \in to)
    /\ st = ba => ac.deletions = {} /\ ac.insertions = {}

(* An instruction that makes t of the slots, and adds to the change what it should *)
LEMMA ListStep ==
    ASSUME NEW l, NEW st, NEW ba, NEW ch, NEW ac, NEW to, NEW di,
           ListRight(l, st, ba, ch, ac, to, di),
           NEW t \in Seq(Nat), Distinct(t), Len(t) <= MaxLen,
           NEW e, Right(st, t, e), SameMarks(l, ch, t, e),
           \A y \in Nat : Has(ba, y) /\ Has(t, y) => Has(l, y)
    PROVE  ListRight(t, st, ba, e, ac, to, di)
<1>1. Between(ba, st, t)
  BY DEF Between, ListRight
<1>2. ASSUME NEW x \in Nat, Has(ba, x), Has(t, x)
      PROVE  x \in di <=> x \in Marks(st, ac) \/ x \in Marks(t, e) \/ x \in to
  <2>1. Has(l, x)
    BY <1>2
  <2>2. x \in Marks(t, e) <=> x \in Marks(l, ch)
    BY <1>2, <2>1 DEF SameMarks
  <2>3. x \in di <=> x \in Marks(st, ac) \/ x \in Marks(l, ch) \/ x \in to
    BY <1>2, <2>1 DEF ListRight
  <2> QED BY <2>2, <2>3
<1> QED BY <1>1, <1>2 DEF ListRight

(* A slot is changed: it is marked, or its object will be found to have changed. *)
LEMMA ListMark ==
    ASSUME NEW l, NEW st, NEW ba, NEW ch, NEW ac, NEW to, NEW di,
           ListRight(l, st, ba, ch, ac, to, di), NEW i \in Indexes(l)
    PROVE  /\ ListRight(l, st, ba, Modify(ch, i), ac, to, di \cup {l[i + 1]})
           /\ ListRight(l, st, ba, ch, ac, to \cup {l[i + 1]}, di \cup {l[i + 1]})
<1>1. Right(st, l, Modify(ch, i)) /\ Marks(l, Modify(ch, i)) = Marks(l, ch) \cup {l[i + 1]}
  BY ModifyRight DEF ListRight
<1>2. \A x \in Nat : Has(ba, x) /\ Has(l, x) =>
         (x \in di <=> x \in Marks(st, ac) \/ x \in Marks(l, ch) \/ x \in to)
  BY DEF ListRight
<1>3. \A x \in Nat : Has(ba, x) /\ Has(l, x) =>
         (x \in di \cup {l[i + 1]} <=> x \in Marks(st, ac) \/ x \in Marks(l, Modify(ch, i)) \/ x \in to)
  BY <1>1, <1>2
<1>4. \A x \in Nat : Has(ba, x) /\ Has(l, x) =>
         (x \in di \cup {l[i + 1]} <=> x \in Marks(st, ac) \/ x \in Marks(l, ch) \/ x \in to \cup {l[i + 1]})
  BY <1>2
<1> QED BY <1>1, <1>3, <1>4 DEF ListRight

(* Nothing happened yet *)
LEMMA ListFresh ==
    ASSUME NEW n \in Nat, n <= MaxLen
    PROVE  ListRight(Identity(n), Identity(n), Identity(n), NoChanges, NoChanges, {}, {})
<1> DEFINE s == Identity(n)
<1>1. s \in Seq(Nat) /\ Len(s) = n /\ \A i \in 1 .. n : s[i] = i
  BY DEF Identity
<1> HIDE DEF s
<1>2. Right(s, s, NoChanges) /\ \A x : x \notin Marks(s, NoChanges)
  BY <1>1, NothingRight
<1>3. Distinct(s)
  <2>1. \A i \in Indexes(s) : i \in Int /\ i + 1 \in 1 .. n
    BY <1>1 DEF Indexes
  <2>2. \A i \in Indexes(s) : s[i + 1] = i + 1
    BY <1>1, <2>1
  <2>3. \A i, j \in Int : i + 1 = j + 1 => i = j
    OBVIOUS
  <2> QED BY <2>1, <2>2, <2>3 DEF Distinct
<1>4. NoChanges.deletions = {} /\ NoChanges.insertions = {} /\ Between(s, s, s)
  BY DEF NoChanges, Between
<1>5. ListRight(s, s, s, NoChanges, NoChanges, {}, {})
  BY <1>1, <1>2, <1>3, <1>4 DEF ListRight
<1> QED BY <1>5 DEF s

(* A run, and the handover *)
LEMMA ListHandover ==
    ASSUME NEW l, NEW st, NEW ba, NEW ch, NEW ac, NEW to, NEW di,
           ListRight(l, st, ba, ch, ac, to, di)
    PROVE  ListRight(l, l, ba, NoChanges,
              Merge(ac, [CleanUpStaleMoves(ch) EXCEPT !.modifications = @ \cup {i \in Indexes(l) : l[i + 1] \in to}]),
              {}, di)
<1> DEFINE c == CleanUpStaleMoves(ch)
           T == {i \in Indexes(l) : l[i + 1] \in to}
           r == [c EXCEPT !.modifications = @ \cup T]
           e == Merge(ac, r)
<1>1. /\ l \in Seq(Nat) /\ st \in Seq(Nat) /\ ba \in Seq(Nat) /\ Distinct(l) /\ Distinct(st)
      /\ Distinct(ba) /\ Right(ba, st, ac) /\ Right(st, l, ch) /\ Between(ba, st, l)
      /\ Len(l) <= MaxLen
  BY DEF ListRight
<1>2. Fits(st, l, ch)
  BY <1>1 DEF Right, Fits
<1>3. /\ Fits(st, l, c) /\ c.modifications = ch.modifications
      /\ st = l => c.deletions = {} /\ c.insertions = {}
  BY <1>1, <1>2, CleanUpRight
<1> HIDE DEF c
<1>4. ch.modifications \subseteq Indexes(l) /\ T \subseteq Indexes(l) /\ Indexes(l) \subseteq Nat
  <2>1. Indexes(l) \subseteq Nat
    BY DEF Indexes
  <2> QED BY <1>1, <2>1 DEF Right
<1>5. /\ r \in Changes /\ r.deletions = c.deletions /\ r.insertions = c.insertions
      /\ r.moves = c.moves /\ r.modifications = ch.modifications \cup T
  <2> HIDE DEF T
  <2> QED BY <1>3, <1>4 DEF Fits, Changes
<1> HIDE DEF r
<1>6. Right(st, l, r)
  BY <1>3, <1>4, <1>5 DEF Fits, Right
<1>7. ASSUME NEW x \in Nat, Has(l, x) PROVE x \in Marks(l, r) <=> x \in Marks(l, ch) \/ x \in to
  <2>1. x \in Marks(l, r) <=> x \in Marks(l, ch) \/ \E i \in T : x = l[i + 1]
    BY <1>5 DEF Marks
  <2>2. (\E i \in T : x = l[i + 1]) <=> x \in to
    BY <1>7 DEF Has
  <2> QED BY <2>1, <2>2
<1>8. /\ ba = st => ac.deletions = {} /\ ac.insertions = {}
      /\ st = l => r.deletions = {} /\ r.insertions = {}
  BY <1>3, <1>5 DEF ListRight
<1>9. /\ Right(ba, l, e) /\ MarksJoin(ba, st, l, ac, r, e)
      /\ ba = l => e.deletions = {} /\ e.insertions = {}
  BY <1>1, <1>6, <1>8, MergeRight
<1> HIDE DEF e, T
<1>10. Right(l, l, NoChanges) /\ \A x : x \notin Marks(l, NoChanges)
  BY <1>1, NothingRight
<1>11. ASSUME NEW x \in Nat, Has(ba, x), Has(l, x)
       PROVE  x \in di <=> x \in Marks(l, e) \/ x \in Marks(l, NoChanges) \/ x \in {}
  <2>1. x \in di <=> x \in Marks(st, ac) \/ x \in Marks(l, ch) \/ x \in to
    BY <1>11 DEF ListRight
  <2>2. x \in Marks(l, e) <=> x \in Marks(st, ac) \/ x \in Marks(l, r)
    BY <1>9, <1>11 DEF MarksJoin
  <2>3. x \in Marks(l, r) <=> x \in Marks(l, ch) \/ x \in to
    BY <1>7, <1>11
  <2> QED BY <1>10, <2>1, <2>2, <2>3
<1>12. Between(ba, l, l)
  BY DEF Between
<1>13. ListRight(l, l, ba, NoChanges, e, {}, di)
  BY <1>1, <1>9, <1>10, <1>11, <1>12 DEF ListRight
<1> QED BY <1>13 DEF e, r, T, c

ListInv == attached => ListRight(list, start, base, change, acc, touched, dirty)

LEMMA ListInvInit ==
    ASSUME Init
    PROVE  ListInv
<1>1. PICK n \in 0 .. MaxLen : list = Identity(n) /\ start = list /\ base = list
  BY DEF Init
<1>2. n \in Nat /\ n <= MaxLen
  BY BoundsAssumption
<1>3. touched = {} /\ dirty = {} /\ change = NoChanges /\ acc = NoChanges
  BY DEF Init
<1> QED BY <1>1, <1>2, <1>3, ListFresh DEF ListInv

LEMMA ListInvNext ==
    ASSUME ListInv, [Next]_vars
    PROVE  ListInv'
<1> DEFINE Good == ListRight(list, start, base, change, acc, touched, dirty)
           Kept3 == start' = start /\ base' = base /\ acc' = acc
<1> SUFFICES ASSUME attached' PROVE ListRight(list', start', base', change', acc', touched', dirty')
  BY DEF ListInv
<1>1. ASSUME attached PROVE Good
  BY <1>1 DEF ListInv
<1>2. ASSUME Good PROVE /\ list \in Seq(Nat) /\ start \in Seq(Nat) /\ base \in Seq(Nat)
                        /\ Distinct(list) /\ Right(start, list, change) /\ Len(list) \in Nat
                        /\ Len(list) <= MaxLen
  <2>1. /\ list \in Seq(Nat) /\ start \in Seq(Nat) /\ base \in Seq(Nat)
        /\ Distinct(list) /\ Right(start, list, change) /\ Len(list) <= MaxLen
    BY <1>2 DEF ListRight
  <2> QED BY <2>1
<1> HIDE DEF Good
<1>3. ASSUME Parse PROVE Good /\ Kept3
  BY <1>1, <1>3 DEF Parse
<1>4. ASSUME NEW i \in 0 .. Len(list), LinkListInsert(i)
      PROVE  ListRight(list', start', base', change', acc', touched', dirty')
  <2>1. Good /\ Kept3 /\ Len(list) < MaxLen /\ touched' = touched /\ dirty' = dirty
    BY <1>3, <1>4 DEF LinkListInsert
  <2> DEFINE x == Max((UNION {ToSet(q) : q \in {list, start, base}}) \cup {0}) + 1
             t == InsertAt(list, i + 1, x)
             e == Insert(change, i, 1)
  <2>2. list' = t /\ change' = e
    BY <1>4 DEF LinkListInsert
  <2>3. x \in Nat /\ ~Has(list, x) /\ ~Has(start, x) /\ ~Has(base, x)
    BY <1>2, <2>1, NewSlot
  <2> HIDE DEF x
  <2>4. /\ Right(start, t, e) /\ Distinct(t) /\ SameMarks(list, change, t, e)
        /\ \A y \in Nat : Has(t, y) <=> y = x \/ Has(list, y)
    BY <1>2, <2>1, <2>3, InsertRight
  <2>5. t \in Seq(Nat) /\ Len(t) = Len(list) + 1
    BY <1>2, <2>1, <2>3, InsertAtRows
  <2>6. Len(t) <= MaxLen
    BY <1>2, <2>1, <2>5, BoundsAssumption
  <2> HIDE DEF t, e
  <2>7. \A y \in Nat : Has(base, y) /\ Has(t, y) => Has(list, y)
    BY <2>3, <2>4
  <2>8. ListRight(t, start, base, e, acc, touched, dirty)
    BY <2>1, <2>4, <2>5, <2>6, <2>7, ListStep DEF Good
  <2> QED BY <2>1, <2>2, <2>8
<1>5. ASSUME NEW i \in Indexes(list), LinkListSet(i)
      PROVE  ListRight(list', start', base', change', acc', touched', dirty')
  <2>1. /\ Good /\ Kept3 /\ change' = Modify(change, i) /\ dirty' = dirty \cup {list[i + 1]}
        /\ list' = list /\ touched' = touched
    BY <1>3, <1>5 DEF LinkListSet
  <2>2. ListRight(list, start, base, Modify(change, i), acc, touched, dirty \cup {list[i + 1]})
    BY <2>1, ListMark DEF Good
  <2> QED BY <2>1, <2>2
<1>6. ASSUME NEW i \in Indexes(list), LinkListErase(i)
      PROVE  ListRight(list', start', base', change', acc', touched', dirty')
  <2> DEFINE t == RemoveAt(list, i + 1)
             e == Erase(change, i)
  <2>1. Good /\ Kept3 /\ list' = t /\ change' = e /\ touched' = touched /\ dirty' = dirty
    BY <1>3, <1>6 DEF LinkListErase
  <2>2. /\ Right(start, t, e) /\ Distinct(t) /\ SameMarks(list, change, t, e)
        /\ \A y \in Nat : Has(t, y) => Has(list, y)
    BY <1>2, <2>1, EraseRight
  <2>3. t \in Seq(Nat) /\ Len(t) = Len(list) - 1
    BY <1>2, <2>1, RemoveAtRows
  <2>4. Len(t) <= MaxLen
    BY <1>2, <2>1, <2>3, BoundsAssumption
  <2> HIDE DEF t, e
  <2>5. ListRight(t, start, base, e, acc, touched, dirty)
    BY <2>1, <2>2, <2>3, <2>4, ListStep DEF Good
  <2> QED BY <2>1, <2>5
<1>7. ASSUME NEW i \in Indexes(list), ObjectChanged(i)
      PROVE  ListRight(list', start', base', change', acc', touched', dirty')
  <2>1. /\ Good /\ Kept3 /\ change' = change /\ dirty' = dirty \cup {list[i + 1]}
        /\ list' = list /\ touched' = touched \cup {list[i + 1]}
    BY <1>3, <1>7 DEF ObjectChanged
  <2>2. ListRight(list, start, base, change, acc, touched \cup {list[i + 1]}, dirty \cup {list[i + 1]})
    BY <2>1, ListMark DEF Good
  <2> QED BY <2>1, <2>2
<1>8. ASSUME NEW i \in Indexes(list), NEW j \in Indexes(list), LinkListMove(i, j)
      PROVE  ListRight(list', start', base', change', acc', touched', dirty')
  <2> DEFINE t == InsertAt(RemoveAt(list, i + 1), j + 1, list[i + 1])
             e == Move(change, i, j)
  <2>1. Good /\ Kept3 /\ list' = t /\ change' = e /\ touched' = touched /\ dirty' = dirty
    BY <1>3, <1>8 DEF LinkListMove
  <2>2. /\ Right(start, t, e) /\ Distinct(t) /\ SameMarks(list, change, t, e)
        /\ Len(t) = Len(list) /\ \A y \in Nat : Has(t, y) => Has(list, y)
    BY <1>2, <2>1, MoveRight
  <2>3. t \in Seq(Nat)
    <3> DEFINE r == RemoveAt(list, i + 1)
    <3>1. r \in Seq(Nat) /\ Len(r) = Len(list) - 1
      BY <1>2, <2>1, RemoveAtRows
    <3>2. j \in 0 .. Len(r) /\ list[i + 1] \in Nat
      <4>1. i \in Nat /\ j \in Nat /\ j < Len(list) /\ i + 1 \in 1 .. Len(list)
        BY <1>2, <2>1 DEF Indexes
      <4>2. list[i + 1] \in Nat
        BY <1>2, <2>1, <4>1
      <4> HIDE DEF r
      <4>3. j \in 0 .. Len(r)
        BY <1>2, <2>1, <3>1, <4>1
      <4> QED BY <4>2, <4>3
    <3> HIDE DEF r
    <3>3. InsertAt(r, j + 1, list[i + 1]) \in Seq(Nat)
      BY <3>1, <3>2, InsertAtRows
    <3> QED BY <3>3 DEF r
  <2>4. Len(t) <= MaxLen
    BY <1>2, <2>1, <2>2
  <2> HIDE DEF t, e
  <2>5. ListRight(t, start, base, e, acc, touched, dirty)
    BY <2>1, <2>2, <2>3, <2>4, ListStep DEF Good
  <2> QED BY <2>1, <2>5
<1>9. ASSUME NEW i \in Indexes(list), NEW j \in Indexes(list), LinkListSwap(i, j)
      PROVE  ListRight(list', start', base', change', acc', touched', dirty')
  <2>1. /\ Good /\ Kept3 /\ change' = Modify(Modify(change, i), j)
        /\ dirty' = dirty \cup {list[i + 1], list[j + 1]} /\ list' = list /\ touched' = touched
    BY <1>3, <1>9 DEF LinkListSwap
  <2>2. ListRight(list, start, base, Modify(change, i), acc, touched, dirty \cup {list[i + 1]})
    BY <2>1, ListMark DEF Good
  <2>3. ListRight(list, start, base, Modify(Modify(change, i), j), acc, touched,
                  (dirty \cup {list[i + 1]}) \cup {list[j + 1]})
    BY <2>2, ListMark
  <2>4. dirty' = (dirty \cup {list[i + 1]}) \cup {list[j + 1]}
    BY <2>1
  <2> QED BY <2>1, <2>3, <2>4
<1>10. ASSUME LinkListClear
       PROVE  ListRight(list', start', base', change', acc', touched', dirty')
  <2> DEFINE t == <<>>
             e == Clear(change, Len(list))
  <2>1. Good /\ Kept3 /\ list' = t /\ change' = e /\ touched' = touched /\ dirty' = dirty
    BY <1>3, <1>10 DEF LinkListClear
  <2>2. Len(list) < Npos
    BY <1>2, <2>1, BoundsAssumption, NposAssumption
  <2>3. Right(start, t, e)
    BY <1>2, <2>1, <2>2, ClearRight
  <2>4. t \in Seq(Nat) /\ Len(t) = 0 /\ 0 <= MaxLen
    BY BoundsAssumption
  <2> HIDE DEF t, e
  <2>5. Indexes(t) = {}
    BY <2>4 DEF Indexes
  <2>6. Distinct(t) /\ \A y : ~Has(t, y)
    BY <2>5 DEF Distinct, Has
  <2>7. SameMarks(list, change, t, e)
    BY <2>6 DEF SameMarks
  <2>8. ListRight(t, start, base, e, acc, touched, dirty)
    BY <2>1, <2>3, <2>4, <2>6, <2>7, ListStep DEF Good
  <2> QED BY <2>1, <2>8
<1>11. ~OwnerErased
  BY DEF OwnerErased
<1>12. ASSUME Handover
       PROVE  ListRight(list', start', base', change', acc', touched', dirty')
  <2>1. /\ attached /\ acc' = Merge(acc, Run) /\ change' = NoChanges /\ touched' = {} /\ start' = list
        /\ list' = list /\ base' = base /\ dirty' = dirty
    BY <1>12 DEF Handover
  <2>2. Run = [CleanUpStaleMoves(change) EXCEPT
                  !.modifications = @ \cup {i \in Indexes(list) : list[i + 1] \in touched}]
    BY <2>1 DEF Run
  <2>3. Good
    BY <1>1, <2>1
  <2>4. ListRight(list, list, base, NoChanges, Merge(acc, Run), {}, dirty)
    BY <2>2, <2>3, ListHandover DEF Good
  <2> QED BY <2>1, <2>4
<1>13. ASSUME Deliver
       PROVE  ListRight(list', start', base', change', acc', touched', dirty')
  <2>1. /\ attached /\ list' = Identity(Len(list)) /\ start' = Identity(Len(list))
        /\ base' = Identity(Len(list)) /\ acc' = NoChanges /\ dirty' = {} /\ change' = NoChanges
        /\ touched' = {}
    BY <1>13 DEF Deliver
  <2>2. Len(list) \in Nat /\ Len(list) <= MaxLen
    BY <1>1, <1>2, <2>1
  <2> QED BY <2>1, <2>2, ListFresh
<1>14. CASE UNCHANGED vars
  <2>1. /\ attached /\ list' = list /\ start' = start /\ base' = base /\ change' = change
        /\ acc' = acc /\ touched' = touched /\ dirty' = dirty
    BY <1>14 DEF vars
  <2> QED BY <1>1, <2>1 DEF Good
<1> QED BY <1>4, <1>5, <1>6, <1>7, <1>8, <1>9, <1>10, <1>11, <1>12, <1>13, <1>14 DEF Next

(* What the invariant says of the report *)
LEMMA ListInvReport ==
    ASSUME ListInv
    PROVE  ReportIsRight
<1> SUFFICES ASSUME attached PROVE ReportIsRight
  BY DEF ReportIsRight, ReportApplies, MovesAreMoves, ModificationsAreExact, NothingMovedNothingReported
<1> DEFINE D == acc.deletions
           I == acc.insertions
           M == acc.modifications
<1>1. ListRight(list, start, base, change, acc, touched, dirty)
  BY DEF ListInv
<1>2. /\ start \in Seq(Nat) /\ base \in Seq(Nat) /\ Distinct(start) /\ Right(base, start, acc)
      /\ Applies(base, start, D, I) /\ MovesRight(base, start, D, I, acc.moves)
      /\ M \subseteq Indexes(start) /\ D \subseteq Indexes(base) /\ I \subseteq Indexes(start)
  BY <1>1 DEF ListRight, Right, Applies
<1>3. ReportApplies
  BY <1>2, AppliesKept DEF ReportApplies
<1>4. MovesAreMoves
  BY <1>2 DEF MovesAreMoves, MovesRight, ToSet
<1>5. NothingMovedNothingReported
  BY <1>1 DEF ListRight, NothingMovedNothingReported
<1>6. ModificationsAreExact
  <2> DEFINE stayed == {base[i + 1] : i \in Indexes(base) \ D}
             new == {start[i + 1] : i \in M \ I}
             old == {base[i + 1] : i \in {To(I, D, k) : k \in M \ I}}
  <2> SUFFICES ASSUME change = NoChanges, touched = {}, start = list
               PROVE  /\ {start[i + 1] : i \in Reported.modificationsNew} = dirty \cap stayed
                      /\ {base[i + 1] : i \in Reported.modifications} = dirty \cap stayed
    BY DEF ModificationsAreExact
  <2>1. Reported.modificationsNew = M \ I /\ Reported.modifications = {To(I, D, k) : k \in M \ I}
    BY DEF Reported, Finalize, ShiftForInsert, EraseAll, To
  <2>2. /\ \A j \in Nat : j \in Indexes(start) <=> j < Len(start)
        /\ \A j \in Nat : j \in Indexes(base) <=> j < Len(base)
        /\ Indexes(start) \subseteq Nat /\ Indexes(base) \subseteq Nat
        /\ \A j \in Indexes(start) : start[j + 1] \in Nat
    <3>1. Len(start) \in Nat /\ Len(base) \in Nat
      BY <1>2
    <3>2. \A j \in Indexes(start) : j + 1 \in 1 .. Len(start)
      BY <3>1 DEF Indexes
    <3>3. \A j \in Indexes(start) : start[j + 1] \in Nat
      BY <1>2, <3>2
    <3> QED BY <3>1, <3>3 DEF Indexes
  <2>3. ASSUME NEW k \in Indexes(start) \ I
        PROVE  To(I, D, k) \in Indexes(base) \ D /\ base[To(I, D, k) + 1] = start[k + 1]
    <3>1. \A j \in Nat \ I :
             /\ To(I, D, j) \in Nat \ D
             /\ j < Len(start) <=> To(I, D, j) < Len(base)
             /\ j < Len(start) => start[j + 1] = base[To(I, D, j) + 1]
      BY <1>2, AppliesBack
    <3>2. k \in Nat \ I /\ k < Len(start)
      BY <2>2
    <3> QED BY <2>2, <3>1, <3>2
  <2>4. ASSUME NEW i \in Indexes(base) \ D
        PROVE  \E k \in Indexes(start) \ I : start[k + 1] = base[i + 1]
    <3> DEFINE k == To(D, I, i)
    <3>1. \A j \in Nat \ D :
             /\ To(D, I, j) \in Nat \ I
             /\ j < Len(base) <=> To(D, I, j) < Len(start)
             /\ j < Len(base) => base[j + 1] = start[To(D, I, j) + 1]
      BY <1>2, AppliesBack
    <3>2. i \in Nat \ D /\ i < Len(base)
      BY <2>2
    <3>3. k \in Nat \ I /\ k < Len(start) /\ start[k + 1] = base[i + 1]
      BY <3>1, <3>2
    <3> HIDE DEF k
    <3> QED BY <2>2, <3>3
  <2>5. ASSUME NEW x \in Nat, Has(base, x), Has(start, x) PROVE x \in dirty <=> x \in Marks(start, acc)
    <3>1. x \notin Marks(list, NoChanges)
      BY <1>2, NothingRight
    <3>2. x \in dirty <=> x \in Marks(start, acc) \/ x \in Marks(list, change) \/ x \in touched
      BY <1>1, <2>5 DEF ListRight
    <3> QED BY <3>1, <3>2
  <2> HIDE DEF D, I, M
  <2>6. old = new
    <3>1. \A k \in M \ I : base[To(I, D, k) + 1] = start[k + 1]
      BY <1>2, <2>3
    <3> QED BY <3>1
  <2>7. ASSUME NEW x \in new PROVE x \in dirty \cap stayed
    <3>1. PICK k \in M \ I : x = start[k + 1]
      BY <2>7
    <3>2. k \in Indexes(start) \ I /\ x \in Nat
      BY <1>2, <2>2, <3>1
    <3>3. x \in stayed /\ Has(base, x) /\ Has(start, x)
      BY <2>3, <3>1, <3>2 DEF Has
    <3>4. x \in Marks(start, acc)
      BY <3>1 DEF Marks, M
    <3> QED BY <2>5, <3>2, <3>3, <3>4
  <2>8. ASSUME NEW x \in dirty \cap stayed PROVE x \in new
    <3>1. PICK i \in Indexes(base) \ D : x = base[i + 1]
      BY <2>8
    <3>2. PICK k \in Indexes(start) \ I : start[k + 1] = x
      BY <2>4, <3>1
    <3>3. x \in Nat /\ Has(base, x) /\ Has(start, x)
      BY <2>2, <3>1, <3>2 DEF Has
    <3>4. x \in Marks(start, acc)
      BY <2>5, <2>8, <3>3
    <3>5. PICK j \in M : x = start[j + 1]
      BY <3>4 DEF Marks, M
    <3>6. j = k
      BY <1>2, <3>2, <3>5 DEF Distinct
    <3> QED BY <3>2, <3>5, <3>6
  <2>9. new = dirty \cap stayed
    <3> HIDE DEF new, stayed
    <3> QED BY <2>7, <2>8
  <2> QED BY <2>1, <2>6, <2>9
<1> QED BY <1>3, <1>4, <1>5, <1>6 DEF ReportIsRight

(* Whatever instructions are parsed, however they are spread over runs and merged, the
   report of a list (ListNotifier, CollectionChangeBuilder) is right: its deletions and
   insertions make the new list of the old one, its moves are moves of one slot, its
   modifications are exactly the slots that stayed and changed, and what was moved back
   is not reported. *)
THEOREM ListReportRight == Spec => []ReportIsRight
<1>1. Init => ListInv
  BY ListInvInit
<1>2. ListInv /\ [Next]_vars => ListInv'
  BY ListInvNext
<1>3. ListInv => ReportIsRight
  BY ListInvReport
<1> QED BY <1>1, <1>2, <1>3, PTL DEF Spec
=============================================================================
