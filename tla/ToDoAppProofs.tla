---------------------------- MODULE ToDoAppProofs ----------------------------
(***************************************************************************)
(* The inductive invariant IInv of ToDoApp, for every set of names and     *)
(* every bound, and what follows from it, after what the operators on      *)
(* tables return for every table.                                          *)
(***************************************************************************)
EXTENDS ToDoApp, FiniteSetTheorems, TLAPS

-----------------------------------------------------------------------------
(* What the table operators return, for every table: Obj is the set the rows *)
(* of a table come from *)

\* The rows a query matches are finitely many rows of the table.
LEMMA MatchesFinite ==
    ASSUME NEW Obj, NEW s \in Seq(Obj), NEW l
    PROVE  /\ Matches(s, l) \subseteq 1..Len(s)
           /\ IsFiniteSet(Matches(s, l))
           /\ Cardinality(Matches(s, l)) \in Nat
<1>1. Matches(s, l) \subseteq 1..Len(s) /\ IsFiniteSet(1..Len(s))
  BY FS_Interval DEF Matches
<1>2. IsFiniteSet(Matches(s, l))
  BY <1>1, FS_Subset
<1> QED BY <1>1, <1>2, FS_CardinalityType

\* Ranking the matching rows numbers them from 1 to their count, each number
\* once: every position of the results has a row.
LEMMA RankOnto ==
    ASSUME NEW Obj, NEW s \in Seq(Obj), NEW l,
           NEW p \in 1..Cardinality(Matches(s, l))
    PROVE  \E i \in Matches(s, l) : Rank(s, l, i) = p
<1> DEFINE M == Matches(s, l)
           C == 1..Cardinality(M)
           U(i) == {j \in M : j <= i}
           f == [i \in M |-> Cardinality(U(i))]
<1>1. M \subseteq 1..Len(s) /\ IsFiniteSet(M) /\ Cardinality(M) \in Nat
  BY MatchesFinite
<1>2. ASSUME NEW i \in M
      PROVE  /\ U(i) \in SUBSET M /\ i \in U(i)
             /\ IsFiniteSet(U(i)) /\ Cardinality(U(i)) \in C
  <2>1. U(i) \in SUBSET M /\ i \in U(i)
    BY <1>1
  <2>2. IsFiniteSet(U(i)) /\ Cardinality(U(i)) <= Cardinality(M)
    BY <1>1, <2>1, FS_Subset
  <2>3. Cardinality(U(i)) \in Nat /\ Cardinality(U(i)) # 0
    BY <2>1, <2>2, FS_CardinalityType, FS_EmptySet
  <2> QED BY <1>1, <2>1, <2>2, <2>3
<1>3. ASSUME NEW i \in M, NEW j \in M, i < j
      PROVE  Cardinality(U(i)) # Cardinality(U(j))
  <2>1. U(i) \in SUBSET U(j) /\ j \notin U(i) /\ j \in U(j)
    BY <1>1, <1>3
  <2>2. U(i) # U(j)
    BY <2>1
  <2> QED BY <2>1, <2>2, <1>2, FS_Subset
<1>4. \A i, j \in M : f[i] = f[j] => i = j
  <2> SUFFICES ASSUME NEW i \in M, NEW j \in M, f[i] = f[j], i # j PROVE FALSE
    OBVIOUS
  <2>1. i < j \/ j < i
    BY <1>1
  <2> QED BY <2>1, <1>3
<1>5. f \in Injection(M, C)
  <2>1. f \in [M -> C]
    BY <1>2
  <2> QED BY <2>1, <1>4 DEF Injection, IsInjective
<1>6. IsFiniteSet(C) /\ Cardinality(C) = Cardinality(M)
  BY <1>1, FS_Interval
<1>7. f \in Surjection(M, C)
  BY <1>5, <1>6, FS_Injection
<1>8. PICK i \in M : f[i] = p
  BY <1>7 DEF Surjection
<1> QED BY <1>8 DEF Rank

\* The p-th object of a query is in a matching row.
LEMMA NthMatchType ==
    ASSUME NEW Obj, NEW s \in Seq(Obj), NEW l,
           NEW p \in 1..Cardinality(Matches(s, l))
    PROVE  /\ NthMatch(s, l, p) \in Matches(s, l)
           /\ NthMatch(s, l, p) \in 1..Len(s)
           /\ s[NthMatch(s, l, p)].listId = l
<1>1. NthMatch(s, l, p) \in Matches(s, l)
  BY RankOnto DEF NthMatch
<1> QED BY <1>1 DEF Matches

\* The results of a query are objects of the table, one per matching row, and
\* all of them match.
LEMMA FilterProperties ==
    ASSUME NEW Obj, NEW s \in Seq(Obj), NEW l
    PROVE  /\ Filter(s, l) \in Seq(Obj)
           /\ Len(Filter(s, l)) = Cardinality(Matches(s, l))
           /\ \A p \in 1..Len(Filter(s, l)) :
                 /\ Filter(s, l)[p] = s[NthMatch(s, l, p)]
                 /\ Filter(s, l)[p].listId = l
<1> DEFINE n == Cardinality(Matches(s, l))
<1>1. n \in Nat
  BY MatchesFinite
<1>2. \A p \in 1..n : s[NthMatch(s, l, p)] \in Obj
  BY NthMatchType
<1>3. Filter(s, l) \in Seq(Obj) /\ Len(Filter(s, l)) = n
  BY <1>1, <1>2 DEF Filter
<1>4. \A p \in 1..n : Filter(s, l)[p] = s[NthMatch(s, l, p)]
  BY DEF Filter
<1>5. \A p \in 1..n : s[NthMatch(s, l, p)].listId = l
  BY NthMatchType
<1> QED BY <1>3, <1>4, <1>5

\* Deleting a row leaves a table of its other objects, one row shorter.
LEMMA MoveLastOverProperties ==
    ASSUME NEW Obj, NEW s \in Seq(Obj), NEW i \in 1..Len(s)
    PROVE  /\ MoveLastOver(s, i) \in Seq(Obj)
           /\ Len(MoveLastOver(s, i)) = Len(s) - 1
           /\ \A j \in 1..(Len(s) - 1) :
                 MoveLastOver(s, i)[j] = IF j = i THEN s[Len(s)] ELSE s[j]
BY DEF MoveLastOver

\* Removing a cell leaves the other cells, one row shorter.
LEMMA RemoveRowProperties ==
    ASSUME NEW Obj, NEW s \in Seq(Obj), NEW i \in 1..Len(s)
    PROVE  /\ RemoveRow(s, i) \in Seq(Obj)
           /\ Len(RemoveRow(s, i)) = Len(s) - 1
           /\ \A j \in 1..(Len(s) - 1) :
                 RemoveRow(s, i)[j] = IF j < i THEN s[j] ELSE s[j + 1]
BY DEF RemoveRow

\* Deleting a matching row takes exactly one object out of the results, even
\* though another matching row may be moved.
LEMMA DeleteShrinksMatches ==
    ASSUME NEW Obj, NEW s \in Seq(Obj), NEW l, NEW i \in Matches(s, l)
    PROVE  Cardinality(Matches(MoveLastOver(s, i), l)) = Cardinality(Matches(s, l)) - 1
<1> DEFINE n == Len(s)
           t == MoveLastOver(s, i)
           M == Matches(s, l)
<1>1. n \in Nat /\ i \in 1..n /\ s[i].listId = l /\ IsFiniteSet(M)
  <2>1. IsFiniteSet(M)
    BY MatchesFinite
  <2> QED BY <2>1 DEF Matches
<1>2. Len(t) = n - 1 /\ \A j \in 1..(n - 1) : t[j] = IF j = i THEN s[n] ELSE s[j]
  BY <1>1, MoveLastOverProperties
<1>3. CASE s[n].listId = l
  <2>1. Matches(t, l) = M \ {n}
    BY <1>1, <1>2, <1>3 DEF Matches
  <2>2. n \in M
    BY <1>1, <1>3 DEF Matches
  <2> QED BY <1>1, <2>1, <2>2, FS_RemoveElement
<1>4. CASE s[n].listId # l
  <2>1. Matches(t, l) = M \ {i}
    BY <1>1, <1>2, <1>4 DEF Matches
  <2> QED BY <1>1, <2>1, FS_RemoveElement
<1> QED BY <1>3, <1>4

\* Deleting row i of the database and removing row i of a table view leave
\* the same rows if at most one row is behind row i; and if the objects are
\* distinct, only then.
THEOREM DeleteMatchesTableView ==
    ASSUME NEW Obj, NEW s \in Seq(Obj), NEW i \in 1..Len(s),
           \A j, k \in 1..Len(s) : s[j] = s[k] => j = k
    PROVE  MoveLastOver(s, i) = RemoveRow(s, i) <=> i >= Len(s) - 1
<1> DEFINE n == Len(s)
<1>1. CASE i >= n - 1
  <2>1. \A j \in 1..(n - 1) : MoveLastOver(s, i)[j] = RemoveRow(s, i)[j]
    BY <1>1 DEF MoveLastOver, RemoveRow
  <2> QED BY <1>1, <2>1 DEF MoveLastOver, RemoveRow
<1>2. CASE i < n - 1
  <2>1. i \in 1..(n - 1) /\ i + 1 \in 1..n /\ i + 1 # n /\ n \in 1..n
    BY <1>2
  <2>2. MoveLastOver(s, i)[i] = s[n] /\ RemoveRow(s, i)[i] = s[i + 1]
    BY <2>1 DEF MoveLastOver, RemoveRow
  <2> QED BY <1>2, <2>1, <2>2
<1> QED BY <1>1, <1>2

\* Ranks of matching rows ascend with the rows.
LEMMA RankOrder ==
    ASSUME NEW Obj, NEW s \in Seq(Obj), NEW l, NEW i \in Matches(s, l)
    PROVE  /\ Rank(s, l, i) \in 1..Cardinality(Matches(s, l))
           /\ \A j \in Matches(s, l) : i < j => Rank(s, l, i) < Rank(s, l, j)
<1> DEFINE M == Matches(s, l)
           U(j) == {x \in M : x <= j}
<1>1. M \subseteq 1..Len(s) /\ IsFiniteSet(M) /\ Cardinality(M) \in Nat
  BY MatchesFinite
<1>2. ASSUME NEW j \in M
      PROVE  /\ U(j) \in SUBSET M /\ j \in U(j)
             /\ IsFiniteSet(U(j)) /\ Cardinality(U(j)) \in 1..Cardinality(M)
  <2>1. U(j) \in SUBSET M /\ j \in U(j)
    BY <1>1
  <2>2. IsFiniteSet(U(j)) /\ Cardinality(U(j)) <= Cardinality(M)
    BY <1>1, <2>1, FS_Subset
  <2>3. Cardinality(U(j)) \in Nat /\ Cardinality(U(j)) # 0
    BY <2>1, <2>2, FS_CardinalityType, FS_EmptySet
  <2> QED BY <1>1, <2>1, <2>2, <2>3
<1>3. ASSUME NEW j \in M, i < j PROVE Cardinality(U(i)) < Cardinality(U(j))
  <2>1. U(i) \in SUBSET U(j) /\ j \notin U(i) /\ j \in U(j)
    BY <1>1, <1>3
  <2>2. U(i) # U(j)
    BY <2>1
  <2>3. Cardinality(U(i)) <= Cardinality(U(j)) /\ Cardinality(U(i)) # Cardinality(U(j))
    BY <1>2, <2>1, <2>2, FS_Subset
  <2>4. Cardinality(U(i)) \in Nat /\ Cardinality(U(j)) \in Nat
    <3> HIDE DEF U
    <3>1. /\ Cardinality(U(i)) \in 1..Cardinality(M)
          /\ Cardinality(U(j)) \in 1..Cardinality(M)
      BY <1>2
    <3> QED BY <1>1, <3>1
  <2> QED BY <2>3, <2>4
<1> QED BY <1>2, <1>3 DEF Rank

\* A matching row is the one its rank leads to, and ranks only to it.
LEMMA NthMatchRank ==
    ASSUME NEW Obj, NEW s \in Seq(Obj), NEW l
    PROVE  /\ \A i \in Matches(s, l) : NthMatch(s, l, Rank(s, l, i)) = i
           /\ \A p \in 1..Cardinality(Matches(s, l)) : Rank(s, l, NthMatch(s, l, p)) = p
<1> DEFINE M == Matches(s, l)
<1>1. ASSUME NEW i \in M, NEW j \in M, Rank(s, l, i) = Rank(s, l, j) PROVE i = j
  <2>1. i \in Nat /\ j \in Nat /\ Rank(s, l, i) \in Nat
    BY MatchesFinite, RankOrder
  <2> QED BY <1>1, <2>1, RankOrder
<1>2. ASSUME NEW i \in M PROVE NthMatch(s, l, Rank(s, l, i)) = i
  <2>1. \A j \in M : Rank(s, l, j) = Rank(s, l, i) => j = i
    BY <1>1
  <2> QED BY <2>1 DEF NthMatch
<1>3. ASSUME NEW p \in 1..Cardinality(M) PROVE Rank(s, l, NthMatch(s, l, p)) = p
  <2>1. PICK i \in M : Rank(s, l, i) = p
    BY RankOnto
  <2> QED BY <2>1, <1>2
<1> QED BY <1>2, <1>3

\* Deleting the last object of a query's results, or the one before it, leaves
\* the results a table view shows after removing that row, wherever in the
\* table the objects lie and whatever row is moved.
THEOREM LateDeleteMatchesTableView ==
    ASSUME NEW Obj, NEW s \in Seq(Obj), NEW l, NEW i \in 1..Len(Filter(s, l)),
           i >= Len(Filter(s, l)) - 1
    PROVE  Filter(MoveLastOver(s, NthMatch(s, l, i)), l) = RemoveRow(Filter(s, l), i)
<1> DEFINE n == Cardinality(Matches(s, l))
           k == NthMatch(s, l, i)
           L == Len(s)
           t == MoveLastOver(s, k)
           M == Matches(s, l)
           N == Matches(t, l)
<1>1. /\ n \in Nat /\ Len(Filter(s, l)) = n /\ L \in Nat /\ i \in 1..n /\ i >= n - 1
      /\ M \subseteq 1..L /\ IsFiniteSet(M)
      /\ \A p \in 1..n : Filter(s, l)[p] = s[NthMatch(s, l, p)]
  BY MatchesFinite, FilterProperties
<1>2. k \in M /\ k \in 1..L /\ Rank(s, l, k) = i
  BY <1>1, NthMatchType, NthMatchRank
<1> HIDE DEF k
<1>3. /\ t \in Seq(Obj) /\ Len(t) = L - 1
      /\ \A j \in 1..(L - 1) : t[j] = IF j = k THEN s[L] ELSE s[j]
  BY <1>2, MoveLastOverProperties
<1>4. Cardinality(N) = n - 1 /\ Len(Filter(t, l)) = n - 1 /\ Filter(t, l) \in Seq(Obj)
  BY <1>2, <1>3, DeleteShrinksMatches, FilterProperties
<1>m. /\ \A x : x \in M <=> x \in 1..L /\ s[x].listId = l
      /\ \A x : x \in N <=> x \in 1..(L - 1) /\ t[x].listId = l
  BY <1>3 DEF Matches
<1>n. /\ L \in Nat /\ k \in 1..L /\ s[k].listId = l
      /\ \A x \in 1..(L - 1) : x # k => t[x] = s[x]
      /\ k # L => t[k] = s[L]
  BY <1>1, <1>2, <1>3 DEF Matches
<1>5. ASSUME NEW j \in N, NEW p \in 1..(n - 1), Rank(t, l, j) = p
      PROVE  Filter(t, l)[p] = t[j]
  <2>1. NthMatch(t, l, p) = j
    BY <1>3, <1>5, NthMatchRank
  <2> QED BY <1>3, <1>4, <2>1, FilterProperties
<1>6. ASSUME NEW p \in 1..(n - 1), p < i
      PROVE  Filter(t, l)[p] = Filter(s, l)[p]
  <2> DEFINE j == NthMatch(s, l, p)
  <2>1. j \in M /\ Rank(s, l, j) = p /\ j \in 1..L
    BY <1>1, NthMatchType, NthMatchRank
  <2> HIDE DEF j
  <2>2. j < k
    <3>1. ~(k < j) /\ k # j
      BY <1>1, <1>2, <1>6, <2>1, RankOrder
    <3> QED BY <1>2, <2>1, <3>1
  <2>3. /\ j \in N /\ t[j] = s[j]
        /\ {x \in N : x <= j} = {x \in M : x <= j}
    <3> HIDE DEF t, M, N, L
    <3>1. \A x \in Nat : x <= j => (x \in N <=> x \in M)
      BY <1>m, <1>n, <2>1, <2>2, SMTT(30)
    <3>2. \A x : x \in N \/ x \in M => x \in Nat
      BY <1>m, <1>n
    <3>3. j \in N /\ t[j] = s[j]
      BY <1>m, <1>n, <2>1, <2>2
    <3> QED BY <3>1, <3>2, <3>3
  <2>4. Rank(t, l, j) = p
    BY <2>1, <2>3 DEF Rank
  <2> QED BY <1>1, <1>5, <2>3, <2>4 DEF j
<1>7. ASSUME i = n - 1
      PROVE  Filter(t, l)[i] = Filter(s, l)[n]
  <2> DEFINE m == NthMatch(s, l, n)
  <2>1. m \in M /\ Rank(s, l, m) = n /\ m \in 1..L /\ Filter(s, l)[n] = s[m]
    BY <1>1, NthMatchType, NthMatchRank
  <2> HIDE DEF m
  <2>2. k < m
    <3>1. ~(m < k) /\ k # m
      BY <1>1, <1>2, <1>7, <2>1, RankOrder
    <3> QED BY <1>2, <2>1, <3>1
  <2>3. \A x \in M : x <= m
    <3> SUFFICES ASSUME NEW x \in M, m < x PROVE FALSE
      BY <1>1, <2>1
    <3>1. n < Rank(s, l, x) /\ Rank(s, l, x) \in 1..n
      BY <2>1, RankOrder
    <3> QED BY <1>1, <3>1
  <2>4. CASE s[L].listId = l
    <3>1. L = m
      BY <1>1, <2>1, <2>3, <2>4 DEF Matches
    <3>2. k \in N /\ t[k] = s[m] /\ {x \in N : x <= k} = {x \in M : x <= k}
      <4> HIDE DEF t, M, N, L
      <4>1. \A x \in Nat : x <= k => (x \in N <=> x \in M)
        BY <1>m, <1>n, <2>1, <2>2, <2>4, <3>1
      <4>2. \A x : x \in N \/ x \in M => x \in Nat
        BY <1>m, <1>n
      <4>3. k \in N /\ t[k] = s[m]
        BY <1>m, <1>n, <2>1, <2>2, <2>4, <3>1
      <4> QED BY <4>1, <4>2, <4>3
    <3>3. Rank(t, l, k) = i
      BY <1>2, <3>2 DEF Rank
    <3>4. i \in 1..(n - 1)
      BY <1>1, <1>7
    <3>5. Filter(t, l)[i] = t[k]
      BY <1>5, <3>2, <3>3, <3>4
    <3> QED BY <2>1, <3>2, <3>5
  <2>5. CASE s[L].listId # l
    <3>1. m # L
      BY <2>1, <2>5 DEF Matches
    <3>2. m \in N /\ t[m] = s[m] /\ N = M \ {k}
      <4> HIDE DEF t, M, N, L
      <4>1. m \in N /\ t[m] = s[m]
        BY <1>m, <1>n, <2>1, <2>2, <3>1
      <4>2. \A x : x \in N <=> x \in M /\ x # k
        BY <1>m, <1>n, <2>5, SMTT(60)
      <4> QED BY <4>1, <4>2
    <3>3. {x \in N : x <= m} = N
      BY <2>3, <3>2
    <3>4. Rank(t, l, m) = i
      BY <1>4, <1>7, <3>3 DEF Rank
    <3>5. i \in 1..(n - 1)
      BY <1>1, <1>7
    <3>6. Filter(t, l)[i] = t[m]
      BY <1>5, <3>2, <3>4, <3>5
    <3> QED BY <2>1, <3>2, <3>6
  <2> QED BY <2>4, <2>5
<1>8. \A p \in 1..(n - 1) : Filter(t, l)[p] = RemoveRow(Filter(s, l), i)[p]
  <2> SUFFICES ASSUME NEW p \in 1..(n - 1)
               PROVE  Filter(t, l)[p] = RemoveRow(Filter(s, l), i)[p]
    OBVIOUS
  <2>1. RemoveRow(Filter(s, l), i)[p] = IF p < i THEN Filter(s, l)[p] ELSE Filter(s, l)[p + 1]
    BY <1>1 DEF RemoveRow
  <2>2. CASE p < i
    BY <1>6, <2>1, <2>2
  <2>3. CASE ~(p < i)
    <3>1. p = i /\ i = n - 1 /\ p + 1 = n
      BY <1>1, <2>3
    <3> QED BY <1>7, <2>1, <2>3, <3>1
  <2> QED BY <2>2, <2>3
<1>9. /\ Filter(t, l) = [p \in 1..(n - 1) |-> Filter(t, l)[p]]
      /\ RemoveRow(Filter(s, l), i) = [p \in 1..(n - 1) |-> RemoveRow(Filter(s, l), i)[p]]
  <2>1. Filter(t, l) = [p \in 1..(n - 1) |-> Filter(t, l)[p]]
    BY <1>4 DEF Filter
  <2>2. RemoveRow(Filter(s, l), i) = [p \in 1..(n - 1) |-> RemoveRow(Filter(s, l), i)[p]]
    BY <1>1 DEF RemoveRow
  <2> QED BY <2>1, <2>2
<1> QED BY <1>8, <1>9 DEF k

-----------------------------------------------------------------------------
(* What the write blocks make of a database *)

\* The rows of a database and the ids in them.
LEMMA DBFacts ==
    ASSUME NEW db \in DB
    PROVE  /\ db.lists \in Seq(List) /\ Len(db.lists) \in Nat
           /\ db.items \in Seq(Item) /\ Len(db.items) \in Nat
           /\ \A i \in 1..Len(db.lists) :
                 /\ db.lists[i] \in List /\ db.lists[i].listId \in 1..MaxLists
                 /\ db.lists[i].listId \in Nat /\ db.lists[i].name \in Names
           /\ \A i \in 1..Len(db.items) :
                 /\ db.items[i] \in Item /\ db.items[i].listId \in 1..MaxLists
                 /\ db.items[i].oid \in 1..MaxItems
                 /\ db.items[i].oid \in Nat /\ db.items[i].name \in Names
<1>1. db.lists \in Seq(List) /\ db.items \in Seq(Item)
  BY DEF DB
<1>2. \A i \in 1..Len(db.lists) : db.lists[i] \in List
  BY <1>1
<1>3. \A i \in 1..Len(db.items) : db.items[i] \in Item
  BY <1>1
<1>4. ASSUME NEW i \in 1..Len(db.lists)
      PROVE  /\ db.lists[i].listId \in 1..MaxLists /\ db.lists[i].listId \in Nat
             /\ db.lists[i].name \in Names
  <2>1. db.lists[i] \in List
    BY <1>2
  <2> QED BY <2>1, BoundsAssumption DEF List
<1>5. ASSUME NEW i \in 1..Len(db.items)
      PROVE  /\ db.items[i].listId \in 1..MaxLists /\ db.items[i].oid \in 1..MaxItems
             /\ db.items[i].oid \in Nat /\ db.items[i].name \in Names
  <2>1. db.items[i] \in Item
    BY <1>3
  <2> QED BY <2>1, BoundsAssumption DEF Item
<1>6. Len(db.lists) \in Nat /\ Len(db.items) \in Nat
  BY <1>1
<1> QED BY <1>1, <1>2, <1>3, <1>4, <1>5, <1>6

\* No alert is an alert.
LEMMA NoAlertType == NoAlert \in Alerts
BY BoundsAssumption DEF NoAlert, Alerts

\* Adding a list.
LEMMA AddListDB ==
    ASSUME NEW db \in DB, NEW x \in List
    PROVE  LET d == [db EXCEPT !.lists = AddRow(@, x)]
           IN  /\ d \in DB /\ d # db
               /\ d.items = db.items
               /\ Len(d.lists) = Len(db.lists) + 1
               /\ \A i \in 1..Len(d.lists) :
                     d.lists[i] = IF i <= Len(db.lists) THEN db.lists[i] ELSE x
<1> DEFINE d == [db EXCEPT !.lists = AddRow(@, x)]
<1>1. db.lists \in Seq(List) /\ db.items \in Seq(Item)
  BY DEF DB
<1>2. /\ Append(db.lists, x) \in Seq(List)
      /\ Len(Append(db.lists, x)) = Len(db.lists) + 1
      /\ \A i \in 1..(Len(db.lists) + 1) :
            Append(db.lists, x)[i] = IF i <= Len(db.lists) THEN db.lists[i] ELSE x
  BY <1>1
<1>3. d.lists = Append(db.lists, x) /\ d.items = db.items /\ d \in DB
  BY <1>2 DEF AddRow, DB
<1>4. Len(d.lists) # Len(db.lists)
  BY <1>1, <1>2, <1>3
<1>5. d # db
  BY <1>4
<1> QED BY <1>1, <1>2, <1>3, <1>5

\* Adding an item.
LEMMA AddItemDB ==
    ASSUME NEW db \in DB, NEW x \in Item
    PROVE  LET d == [db EXCEPT !.items = AddRow(@, x)]
           IN  /\ d \in DB /\ d # db
               /\ d.lists = db.lists
               /\ Len(d.items) = Len(db.items) + 1
               /\ \A i \in 1..Len(d.items) :
                     d.items[i] = IF i <= Len(db.items) THEN db.items[i] ELSE x
<1> DEFINE d == [db EXCEPT !.items = AddRow(@, x)]
<1>1. db.lists \in Seq(List) /\ db.items \in Seq(Item)
  BY DEF DB
<1>2. /\ Append(db.items, x) \in Seq(Item)
      /\ Len(Append(db.items, x)) = Len(db.items) + 1
      /\ \A i \in 1..(Len(db.items) + 1) :
            Append(db.items, x)[i] = IF i <= Len(db.items) THEN db.items[i] ELSE x
  BY <1>1
<1>3. d.items = Append(db.items, x) /\ d.lists = db.lists /\ d \in DB
  BY <1>2 DEF AddRow, DB
<1>4. Len(d.items) # Len(db.items)
  BY <1>1, <1>2, <1>3
<1>5. d # db
  BY <1>4
<1> QED BY <1>1, <1>2, <1>3, <1>5

\* Deleting the list in row k.
LEMMA DeleteListDB ==
    ASSUME NEW db \in DB, NEW k \in 1..Len(db.lists)
    PROVE  LET d == [db EXCEPT !.lists = MoveLastOver(@, k)]
           IN  /\ d \in DB /\ d # db
               /\ d.items = db.items
               /\ Len(d.lists) = Len(db.lists) - 1
               /\ \A i \in 1..Len(d.lists) :
                     d.lists[i] = IF i = k THEN db.lists[Len(db.lists)] ELSE db.lists[i]
<1> DEFINE d == [db EXCEPT !.lists = MoveLastOver(@, k)]
<1>1. db.lists \in Seq(List) /\ db.items \in Seq(Item)
  BY DEF DB
<1>2. /\ MoveLastOver(db.lists, k) \in Seq(List)
      /\ Len(MoveLastOver(db.lists, k)) = Len(db.lists) - 1
      /\ \A j \in 1..(Len(db.lists) - 1) :
            MoveLastOver(db.lists, k)[j] =
               IF j = k THEN db.lists[Len(db.lists)] ELSE db.lists[j]
  BY <1>1, MoveLastOverProperties
<1>3. d.lists = MoveLastOver(db.lists, k) /\ d.items = db.items /\ d \in DB
  BY <1>2 DEF DB
<1>4. Len(d.lists) # Len(db.lists)
  BY <1>1, <1>2, <1>3
<1>5. d # db
  BY <1>4
<1> QED BY <1>1, <1>2, <1>3, <1>5

\* Deleting the item in row k.
LEMMA DeleteItemDB ==
    ASSUME NEW db \in DB, NEW k \in 1..Len(db.items)
    PROVE  LET d == [db EXCEPT !.items = MoveLastOver(@, k)]
           IN  /\ d \in DB /\ d # db
               /\ d.lists = db.lists
               /\ d.items = MoveLastOver(db.items, k)
               /\ Len(d.items) = Len(db.items) - 1
               /\ \A i \in 1..Len(d.items) :
                     d.items[i] = IF i = k THEN db.items[Len(db.items)] ELSE db.items[i]
<1> DEFINE d == [db EXCEPT !.items = MoveLastOver(@, k)]
<1>1. db.lists \in Seq(List) /\ db.items \in Seq(Item)
  BY DEF DB
<1>2. /\ MoveLastOver(db.items, k) \in Seq(Item)
      /\ Len(MoveLastOver(db.items, k)) = Len(db.items) - 1
      /\ \A j \in 1..(Len(db.items) - 1) :
            MoveLastOver(db.items, k)[j] =
               IF j = k THEN db.items[Len(db.items)] ELSE db.items[j]
  BY <1>1, MoveLastOverProperties
<1>3. d.items = MoveLastOver(db.items, k) /\ d.lists = db.lists /\ d \in DB
  BY <1>2 DEF DB
<1>4. Len(d.items) # Len(db.items)
  BY <1>1, <1>2, <1>3
<1>5. d # db
  BY <1>4
<1> QED BY <1>1, <1>2, <1>3, <1>5

\* Renaming the list in row k.
LEMMA RenameListDB ==
    ASSUME NEW db \in DB, NEW k \in 1..Len(db.lists), NEW t \in Names,
           t # db.lists[k].name
    PROVE  LET d == [db EXCEPT !.lists[k].name = t]
           IN  /\ d \in DB /\ d # db
               /\ d.items = db.items
               /\ Len(d.lists) = Len(db.lists)
               /\ d.lists[k].name = t
               /\ \A i \in 1..Len(d.lists) : d.lists[i].listId = db.lists[i].listId
<1> DEFINE d == [db EXCEPT !.lists[k].name = t]
           s == db.lists
<1>1. s \in Seq(List) /\ db.items \in Seq(Item) /\ s[k] \in List
  BY DEF DB
<1>2. [s[k] EXCEPT !.name = t] \in List /\ [s[k] EXCEPT !.name = t].listId = s[k].listId
  BY <1>1 DEF List
<1>3. d.lists = [s EXCEPT ![k] = [s[k] EXCEPT !.name = t]] /\ d.items = db.items
  BY DEF DB
<1>4. /\ [s EXCEPT ![k] = [s[k] EXCEPT !.name = t]] \in Seq(List)
      /\ Len([s EXCEPT ![k] = [s[k] EXCEPT !.name = t]]) = Len(s)
  BY <1>1, <1>2
<1>5. d \in DB
  BY <1>1, <1>3, <1>4 DEF DB
<1>6. d.lists[k].name = t
  BY <1>1, <1>3 DEF List
<1>7. \A i \in 1..Len(s) : d.lists[i].listId = s[i].listId
  BY <1>1, <1>2, <1>3
<1>8. d # db
  BY <1>6
<1> QED BY <1>3, <1>4, <1>5, <1>6, <1>7, <1>8

\* Editing the item in row k.
LEMMA EditItemDB ==
    ASSUME NEW db \in DB, NEW k \in 1..Len(db.items), NEW t \in Names,
           t # db.items[k].name
    PROVE  LET d == [db EXCEPT !.items[k].name = t]
           IN  /\ d \in DB /\ d # db
               /\ d.lists = db.lists
               /\ Len(d.items) = Len(db.items)
               /\ \A i \in 1..Len(d.items) :
                     /\ d.items[i].oid = db.items[i].oid
                     /\ d.items[i].listId = db.items[i].listId
<1> DEFINE d == [db EXCEPT !.items[k].name = t]
           s == db.items
<1>1. s \in Seq(Item) /\ db.lists \in Seq(List) /\ s[k] \in Item
  BY DEF DB
<1>2. /\ [s[k] EXCEPT !.name = t] \in Item
      /\ [s[k] EXCEPT !.name = t].listId = s[k].listId
      /\ [s[k] EXCEPT !.name = t].oid = s[k].oid
  BY <1>1 DEF Item
<1>3. d.items = [s EXCEPT ![k] = [s[k] EXCEPT !.name = t]] /\ d.lists = db.lists
  BY DEF DB
<1>4. /\ [s EXCEPT ![k] = [s[k] EXCEPT !.name = t]] \in Seq(Item)
      /\ Len([s EXCEPT ![k] = [s[k] EXCEPT !.name = t]]) = Len(s)
  BY <1>1, <1>2
<1>5. d \in DB
  BY <1>1, <1>3, <1>4 DEF DB
<1>6. d.items[k].name = t
  BY <1>1, <1>3 DEF Item
<1>7. \A i \in 1..Len(s) : d.items[i].oid = s[i].oid /\ d.items[i].listId = s[i].listId
  BY <1>1, <1>2, <1>3
<1>8. d # db
  BY <1>6
<1> QED BY <1>3, <1>4, <1>5, <1>7, <1>8

-----------------------------------------------------------------------------
(* Tables stay tables *)

\* A fresh table and a reloaded one.
LEMMA FreshTableType ==
    ASSUME NEW Obj
    PROVE  FreshTable \in Tables(Obj) /\ Len(FreshTable.rows) = 0
BY DEF Tables, FreshTable

LEMMA ReloadType ==
    ASSUME NEW Obj, NEW table \in Tables(Obj), NEW s \in Seq(Obj)
    PROVE  ReloadData(table, s) \in Tables(Obj) /\ ReloadData(table, s).rows = s
BY DEF Tables, ReloadData

\* The operators of the Edit/Done button and of editing mode keep the type
\* and the rows of a table.
LEMMA TableTypes ==
    ASSUME NEW Obj, NEW table \in Tables(Obj)
    PROVE  /\ EditDoneTapped(table) \in Tables(Obj) /\ EditDoneTapped(table).rows = table.rows
           /\ EndEditing(table) \in Tables(Obj) /\ EndEditing(table).rows = table.rows
           /\ Swiped(table) \in Tables(Obj) /\ Swiped(table).rows = table.rows
           /\ SwipeEnded(table) \in Tables(Obj) /\ SwipeEnded(table).rows = table.rows
           /\ [table EXCEPT !.enabled = TRUE] \in Tables(Obj)
           /\ [table EXCEPT !.enabled = TRUE].rows = table.rows
<1>1. EditDoneTapped(table) \in Tables(Obj) /\ EditDoneTapped(table).rows = table.rows
  BY DEF Tables, EditDoneTapped
<1>2. EndEditing(table) \in Tables(Obj) /\ EndEditing(table).rows = table.rows
  BY DEF Tables, EndEditing
<1>3. /\ Swiped(table) \in Tables(Obj) /\ Swiped(table).rows = table.rows
      /\ SwipeEnded(table) \in Tables(Obj) /\ SwipeEnded(table).rows = table.rows
  BY DEF Tables, Swiped, SwipeEnded
<1>4. /\ [table EXCEPT !.enabled = TRUE] \in Tables(Obj)
      /\ [table EXCEPT !.enabled = TRUE].rows = table.rows
  BY DEF Tables
<1> QED BY <1>1, <1>2, <1>3, <1>4

LEMMA EnableType ==
    ASSUME NEW Obj, NEW table \in Tables(Obj), NEW n
    PROVE  EnableIfAny(table, n) \in Tables(Obj) /\ EnableIfAny(table, n).rows = table.rows
BY DEF Tables, EnableIfAny

LEMMA DisableType ==
    ASSUME NEW Obj, NEW table \in Tables(Obj), NEW n
    PROVE  DisableIfNone(table, n) \in Tables(Obj) /\ DisableIfNone(table, n).rows = table.rows
BY DEF Tables, DisableIfNone

\* So do those that change a row.
LEMMA TableRowTypes ==
    ASSUME NEW Obj, NEW table \in Tables(Obj), NEW s \in Seq(Obj),
           NEW i \in 1..Len(table.rows)
    PROVE  /\ i \in 1..Len(s) =>
                 /\ RedrawRow(table, s, i) \in Tables(Obj)
                 /\ Len(RedrawRow(table, s, i).rows) = Len(table.rows)
           /\ DeleteRows(table, i) \in Tables(Obj)
           /\ Len(DeleteRows(table, i).rows) = Len(table.rows) - 1
<1>1. table.rows \in Seq(Obj)
  BY DEF Tables
<1>2. RemoveRow(table.rows, i) \in Seq(Obj) /\ Len(RemoveRow(table.rows, i)) = Len(table.rows) - 1
  BY <1>1, RemoveRowProperties
<1>3. DeleteRows(table, i) \in Tables(Obj) /\ DeleteRows(table, i).rows = RemoveRow(table.rows, i)
  BY <1>2 DEF Tables, DeleteRows
<1>4. ASSUME i \in 1..Len(s)
      PROVE  /\ RedrawRow(table, s, i) \in Tables(Obj)
             /\ Len(RedrawRow(table, s, i).rows) = Len(table.rows)
  <2>1. s[i] \in Obj
    BY <1>4
  <2>2. /\ [table.rows EXCEPT ![i] = s[i]] \in Seq(Obj)
        /\ Len([table.rows EXCEPT ![i] = s[i]]) = Len(table.rows)
    BY <1>1, <2>1
  <2> QED BY <2>2 DEF Tables, RedrawRow
<1> QED BY <1>2, <1>3, <1>4

-----------------------------------------------------------------------------
(* Two kinds of step *)

\* A step that writes nothing: it may change how a table or the name field
\* look, close an alert, print, or crash in a nested write.
QuietStep ==
    /\ UNCHANGED <<realm, inWrite, current, durable, nav, toDoList, toDoListItems>>
    /\ UNCHANGED <<nextItem, toDoLists, nextList>>
    /\ listsTable' \in Tables(List) /\ Len(listsTable'.rows) = Len(listsTable.rows)
    /\ itemsTable' \in Tables(Item) /\ Len(itemsTable'.rows) = Len(itemsTable.rows)
    /\ nameField' \in [text : Names \cup {Empty}, editing : BOOLEAN]
    /\ nav \notin {"items", "popping"} => UNCHANGED <<itemsTable, nameField>>
    /\ alert' \in {alert, NoAlert}
    /\ log' \subseteq {"success", "failure", "noRealm"}
    /\ proc' = proc \/ (proc' = "nestedWrite" /\ inWrite)

\* Such a step preserves the invariant.
LEMMA QuietInv == ASSUME IInv, QuietStep PROVE IInv'
<1> USE DEF QuietStep
<1>1. TypeOK'
  <2>1. alert' \in Alerts
    BY NoAlertType DEF IInv, TypeOK, ShellTypeOK
  <2>2. ShellTypeOK'
    BY <2>1 DEF IInv, TypeOK, ShellTypeOK, Faults
  <2> QED BY <2>2 DEF IInv, TypeOK, ItemsTypeOK, ListsTypeOK
<1>2. RowCountsMatch'
  BY DEF IInv, RowCountsMatch, ItemResults
<1>3. ScreensCoherent'
  BY DEF IInv, TypeOK, ShellTypeOK, Screens, ScreensCoherent, NoAlert
<1>4. OpenListStored'
  BY DEF IInv, OpenListStored, ListStored
<1>5. EditHitsCapturedItem'
  BY DEF IInv, EditHitsCapturedItem, ItemResults, NoAlert
<1>6. StoredOnce' /\ ReadsAreDurable' /\ OnlyNestedWrites'
  BY DEF IInv, StoredOnce, UniqueIds, ReadsAreDurable, OnlyNestedWrites
<1> QED BY <1>1, <1>2, <1>3, <1>4, <1>5, <1>6 DEF IInv

\* A write that changes something keeps both databases well formed and the
\* file apart from what is read exactly if its commit fails.
LEMMA WriteInv ==
    ASSUME IInv, ~inWrite, NEW commits \in BOOLEAN,
           current' \in DB, current' # current, UniqueIds(current)',
           durable' = IF commits THEN current' ELSE durable,
           inWrite' = ~commits,
           nextList' \in Nat, nextList' >= nextList,
           nextItem' \in Nat, nextItem' >= nextItem
    PROVE  durable' \in DB /\ inWrite' \in BOOLEAN /\ StoredOnce' /\ ReadsAreDurable'
<1>1. current = durable /\ durable \in DB /\ UniqueIds(durable)
  BY DEF IInv, ReadsAreDurable, TypeOK, ShellTypeOK, StoredOnce
<1>2. /\ nextList \in Nat /\ nextItem \in Nat
      /\ \A i \in 1..Len(durable.lists) : durable.lists[i].listId \in Nat
      /\ \A i \in 1..Len(durable.items) : durable.items[i].oid \in Nat
  BY <1>1, DBFacts, BoundsAssumption DEF IInv, TypeOK, ItemsTypeOK, ListsTypeOK
<1>3. UniqueIds(durable)'
  <2>1. CASE commits
    BY <2>1 DEF UniqueIds
  <2>2. CASE ~commits
    <3>1. durable' = durable
      BY <2>2
    <3> QED BY <1>1, <1>2, <3>1 DEF UniqueIds
  <2> QED BY <2>1, <2>2
<1>4. ReadsAreDurable' /\ durable' \in DB
  BY <1>1 DEF ReadsAreDurable
<1> QED BY <1>3, <1>4 DEF StoredOnce

-----------------------------------------------------------------------------
(* Every step preserves the invariant: the root screen *)

\* Opening the alert for a new list.
LEMMA AddListTappedInv == ASSUME IInv, AddListTapped PROVE IInv'
<1> USE DEF AddListTapped, storeVars, shellVars, listsVars, itemsVars, screenVars, Facing
<1>1. TypeOK'
  BY DEF IInv, TypeOK, ShellTypeOK, ItemsTypeOK, ListsTypeOK, Alerts, NoAlert
<1>2. RowCountsMatch'
  BY DEF IInv, RowCountsMatch, ItemResults
<1>3. ScreensCoherent' /\ OpenListStored' /\ EditHitsCapturedItem'
  BY DEF IInv, ScreensCoherent, OpenListStored, ListStored, EditHitsCapturedItem, NoAlert
<1>4. StoredOnce' /\ ReadsAreDurable' /\ OnlyNestedWrites'
  BY DEF IInv, StoredOnce, UniqueIds, ReadsAreDurable, OnlyNestedWrites
<1> QED BY <1>1, <1>2, <1>3, <1>4 DEF IInv

\* Edit/Done and swipes on the root screen.
LEMMA ListsModeInv ==
    ASSUME IInv, ListsEditDoneTapped \/ SwipeList \/ SwipeListEnds
    PROVE  IInv'
<1>1. listsTable \in Tables(List) /\ itemsTable \in Tables(Item)
  BY DEF IInv, TypeOK, ListsTypeOK, ItemsTypeOK
<1>2. listsTable' \in Tables(List) /\ listsTable'.rows = listsTable.rows
  BY <1>1, TableTypes DEF ListsEditDoneTapped, SwipeList, SwipeListEnds
<1>3. QuietStep
  BY <1>1, <1>2
  DEF QuietStep, ListsEditDoneTapped, SwipeList, SwipeListEnds, storeVars, shellVars,
      itemsVars, screenVars, IInv, TypeOK, ItemsTypeOK, ShellTypeOK
<1> QED BY <1>3, QuietInv

\* The root screen appears.
LEMMA ListsViewDidAppearInv ==
    ASSUME IInv, NEW opens \in BOOLEAN, ListsViewDidAppear(opens)
    PROVE  IInv'
<1> USE DEF ListsViewDidAppear
<1>1. /\ current.lists \in Seq(List) /\ listsTable \in Tables(List)
      /\ realm \in BOOLEAN /\ toDoLists \in BOOLEAN
      /\ Len(listsTable.rows) = IF toDoLists THEN Len(current.lists) ELSE 0
  BY DEF IInv, TypeOK, ShellTypeOK, ListsTypeOK, DB, RowCountsMatch
<1>2. /\ listsTable' \in Tables(List)
      /\ Len(listsTable'.rows) = IF toDoLists' THEN Len(current.lists) ELSE 0
  <2>1. CASE GetRealm(opens)
    <3>1. listsTable' = EnableIfAny(ReloadData(listsTable, current.lists), Len(current.lists))
      BY <2>1 DEF AppearedTable
    <3>2. /\ ReloadData(listsTable, current.lists) \in Tables(List)
          /\ ReloadData(listsTable, current.lists).rows = current.lists
      BY <1>1, ReloadType
    <3>3. listsTable' \in Tables(List) /\ listsTable'.rows = current.lists
      BY <1>1, <3>1, <3>2, EnableType
    <3> QED BY <2>1, <3>3
  <2>2. CASE ~GetRealm(opens)
    <3>1. listsTable' = IF toDoLists THEN EnableIfAny(listsTable, Len(current.lists))
                                     ELSE listsTable
      BY <2>2 DEF AppearedTable
    <3>2. listsTable' \in Tables(List) /\ listsTable'.rows = listsTable.rows
      BY <1>1, <3>1, EnableType
    <3>3. toDoLists' = toDoLists
      BY <1>1, <2>2 DEF GetRealm
    <3> QED BY <1>1, <3>2, <3>3
  <2> QED BY <2>1, <2>2
<1>3. realm' \in BOOLEAN /\ toDoLists' \in BOOLEAN
  BY <1>1 DEF GetRealm
<1>4. TypeOK'
  <2>1. ShellTypeOK'
    BY <1>3 DEF IInv, TypeOK, ShellTypeOK, Screens
  <2>2. ItemsTypeOK'
    <3>1. FreshTable \in Tables(Item)
      BY FreshTableType
    <3>2. NoNameField \in [text : Names \cup {Empty}, editing : BOOLEAN] /\ NoList \in 0..MaxLists
      BY BoundsAssumption DEF NoNameField, NoList
    <3> QED BY <3>1, <3>2 DEF IInv, TypeOK, ItemsTypeOK
  <2>3. ListsTypeOK'
    BY <1>2, <1>3 DEF IInv, TypeOK, ListsTypeOK
  <2> QED BY <2>1, <2>2, <2>3 DEF TypeOK
<1>5. RowCountsMatch'
  BY <1>2 DEF RowCountsMatch, FreshTable
<1>6. ScreensCoherent' /\ OpenListStored' /\ EditHitsCapturedItem'
  BY DEF IInv, ScreensCoherent, OpenListStored, EditHitsCapturedItem, NoNameField, Appearing
<1>7. StoredOnce' /\ ReadsAreDurable' /\ OnlyNestedWrites'
  BY DEF IInv, StoredOnce, UniqueIds, ReadsAreDurable, OnlyNestedWrites
<1> QED BY <1>4, <1>5, <1>6, <1>7 DEF IInv

\* Selecting a list, which never meets a fault.
LEMMA SelectListInv ==
    ASSUME IInv, NEW i \in 1..MaxLists, SelectList(i)
    PROVE  IInv'
<1> USE DEF SelectList, Facing, storeVars, listsVars
<1>1. /\ current.lists \in Seq(List) /\ listsTable.rows \in Seq(List)
      /\ toDoLists \in BOOLEAN
  BY DEF IInv, TypeOK, ShellTypeOK, ListsTypeOK, DB, Tables
<1>2. i \in 1..Len(current.lists) /\ toDoLists
  BY <1>1 DEF IInv, RowCountsMatch
<1>3. RowFault(toDoLists, Len(current.lists), i) = "none"
  BY <1>1, <1>2 DEF RowFault
<1>4. current.lists[i] \in List /\ toDoList' = current.lists[i].listId /\ nav' = "pushing"
  BY <1>1, <1>2, <1>3
<1>5. UNCHANGED proc /\ log' = {}
  BY <1>3
<1> HIDE DEF SelectList
<1>u. /\ UNCHANGED <<realm, inWrite, current, durable, alert, toDoLists, listsTable, nextList>>
      /\ UNCHANGED <<toDoListItems, itemsTable, nameField, nextItem>>
      /\ nav = "lists" /\ alert = NoAlert
  BY DEF SelectList
<1>6. TypeOK'
  BY <1>4, <1>5, <1>u, BoundsAssumption
  DEF IInv, TypeOK, ShellTypeOK, ItemsTypeOK, ListsTypeOK, Screens, List
<1>7. RowCountsMatch'
  BY <1>u DEF IInv, RowCountsMatch, ScreensCoherent
<1>8. OpenListStored'
  BY <1>2, <1>4, <1>u DEF OpenListStored, ListStored
<1>9. ScreensCoherent' /\ EditHitsCapturedItem'
  BY <1>4, <1>u DEF IInv, ScreensCoherent, EditHitsCapturedItem, NoAlert
<1>10. StoredOnce' /\ ReadsAreDurable' /\ OnlyNestedWrites'
  BY <1>5, <1>u DEF IInv, StoredOnce, UniqueIds, ReadsAreDurable, OnlyNestedWrites
<1> QED BY <1>6, <1>7, <1>8, <1>9, <1>10 DEF IInv

\* Drawing a row again, which never meets a fault either.
LEMMA RedrawListRowInv ==
    ASSUME IInv, NEW i \in 1..MaxLists, RedrawListRow(i)
    PROVE  IInv'
<1> USE DEF storeVars, itemsVars, screenVars
<1>1. /\ current.lists \in Seq(List) /\ listsTable.rows \in Seq(List)
      /\ toDoLists \in BOOLEAN /\ listsTable \in Tables(List)
  BY DEF IInv, TypeOK, ShellTypeOK, ListsTypeOK, DB, Tables
<1>2. i \in 1..Len(current.lists) /\ i \in 1..Len(listsTable.rows) /\ toDoLists
  BY <1>1 DEF IInv, RowCountsMatch, RedrawListRow
<1>3. RowFault(toDoLists, Len(current.lists), i) = "none"
  BY <1>1, <1>2 DEF RowFault
<1>4. listsTable' = RedrawRow(listsTable, current.lists, i) /\ UNCHANGED proc
  BY <1>3 DEF RedrawListRow
<1>5. listsTable' \in Tables(List) /\ Len(listsTable'.rows) = Len(listsTable.rows)
  BY <1>1, <1>2, <1>4, TableRowTypes
<1>6. QuietStep
  BY <1>4, <1>5 DEF QuietStep, RedrawListRow, IInv, TypeOK, ShellTypeOK, ItemsTypeOK
<1> QED BY <1>6, QuietInv

\* Confirming the alert for a new list.
LEMMA AddListConfirmedInv ==
    ASSUME IInv, NEW t \in Texts, NEW opens \in BOOLEAN, NEW commits \in BOOLEAN,
           AddListConfirmed(t, opens, commits)
    PROVE  IInv'
<1> USE DEF storeVars, itemsVars, screenVars, listsVars
<1>1. /\ current \in DB /\ durable \in DB
      /\ listsTable \in Tables(List) /\ itemsTable \in Tables(Item)
      /\ nav = "lists" /\ nextList \in 1..MaxLists /\ nextItem \in 1..(MaxItems + 1)
      /\ proc = "running" /\ alert' = NoAlert
      /\ UNCHANGED <<nav, toDoList, toDoListItems, itemsTable, nameField, nextItem>>
  BY BoundsAssumption DEF AddListConfirmed, AlertReady, IInv, TypeOK, ShellTypeOK,
     ItemsTypeOK, ListsTypeOK, ScreensCoherent
<1>2. CASE UNCHANGED <<realm, inWrite, current, durable, toDoLists, listsTable, nextList>>
  <2>1. QuietStep
    BY <1>1, <1>2 DEF AddListConfirmed, AlertReady, Crash, QuietStep, IInv, TypeOK, ShellTypeOK, ItemsTypeOK
  <2> QED BY <2>1, QuietInv
<1>3. CASE /\ Accepts(t) /\ ~inWrite /\ realm' = TRUE
           /\ Write([current EXCEPT !.lists = AddRow(@, [listId |-> NewListId, name |-> t])],
                    commits)
           /\ nextList' = nextList + 1
           /\ toDoLists' = TRUE
           /\ listsTable' = [ReloadData(listsTable, current'.lists) EXCEPT !.enabled = TRUE]
           /\ log' = {"success"}
           /\ UNCHANGED proc
  <2> DEFINE x == [listId |-> nextList, name |-> t]
  <2>1. x \in List
    BY <1>1, <1>3 DEF List, Texts, Accepts
  <2>2. /\ current' = [current EXCEPT !.lists = AddRow(@, x)]
        /\ durable' = IF commits THEN current' ELSE durable
        /\ inWrite' = ~commits
    BY <1>3 DEF Write, NewListId
  <2>3. /\ current' \in DB /\ current' # current
        /\ current'.items = current.items
        /\ Len(current'.lists) = Len(current.lists) + 1
        /\ \A i \in 1..Len(current'.lists) :
              current'.lists[i] = IF i <= Len(current.lists) THEN current.lists[i] ELSE x
    BY <1>1, <2>1, <2>2, AddListDB
  <2>4. UniqueIds(current)'
    <3>1. UniqueIds(current)
      BY DEF IInv, StoredOnce
    <3>2. /\ Len(current.lists) \in Nat /\ nextList \in Nat
          /\ \A i \in 1..Len(current.lists) : current.lists[i].listId \in Nat
      <4>1. nextList \in Nat
        BY <1>1, BoundsAssumption
      <4> QED BY <1>1, <4>1, DBFacts
    <3>3. /\ \A i \in 1..Len(current.lists) : current'.lists[i].listId < nextList
          /\ current'.lists[Len(current.lists) + 1].listId = nextList
      <4>1. \A i \in 1..Len(current.lists) : current.lists[i].listId < nextList
        BY <3>1 DEF UniqueIds
      <4>2. \A i \in 1..Len(current.lists) : current'.lists[i] = current.lists[i]
        BY <2>3, <3>2
      <4>3. current'.lists[Len(current.lists) + 1] = x
        BY <2>3, <3>2
      <4> QED BY <4>1, <4>2, <4>3
    <3>4. \A i, j \in 1..Len(current'.lists) :
             current'.lists[i].listId = current'.lists[j].listId => i = j
      <4>1. SUFFICES ASSUME NEW i \in 1..Len(current'.lists), NEW j \in 1..Len(current'.lists),
                            current'.lists[i].listId = current'.lists[j].listId
                     PROVE  i = j
        OBVIOUS
      <4>2. CASE i <= Len(current.lists) /\ j <= Len(current.lists)
        <5>1. i \in 1..Len(current.lists) /\ j \in 1..Len(current.lists)
          BY <3>2, <4>2
        <5>2. current.lists[i].listId = current.lists[j].listId
          BY <2>3, <4>1, <4>2
        <5> QED BY <3>1, <5>1, <5>2 DEF UniqueIds
      <4>3. CASE ~(i <= Len(current.lists) /\ j <= Len(current.lists))
        BY <2>3, <3>2, <3>3, <4>1, <4>3
      <4> QED BY <4>2, <4>3
    <3>5. \A i \in 1..Len(current'.lists) : current'.lists[i].listId < nextList'
      BY <1>3, <2>3, <3>2, <3>3
    <3> QED BY <1>1, <2>3, <3>1, <3>4, <3>5 DEF UniqueIds
  <2>5. durable' \in DB /\ inWrite' \in BOOLEAN /\ StoredOnce' /\ ReadsAreDurable'
    <3>1. nextList' \in Nat /\ nextList' >= nextList /\ nextItem' \in Nat /\ nextItem' >= nextItem
      BY <1>1, <1>3, BoundsAssumption
    <3> QED BY <1>3, <2>2, <2>3, <2>4, <3>1, WriteInv
  <2>6. listsTable' \in Tables(List) /\ listsTable'.rows = current'.lists
    <3>1. current'.lists \in Seq(List)
      BY <2>3 DEF DB
    <3>2. /\ ReloadData(listsTable, current'.lists) \in Tables(List)
          /\ ReloadData(listsTable, current'.lists).rows = current'.lists
      BY <1>1, <3>1, ReloadType
    <3> QED BY <1>3, <3>2, TableTypes
  <2>7. TypeOK'
    <3>1. ShellTypeOK'
      BY <1>1, <1>3, <2>3, <2>5, NoAlertType DEF IInv, TypeOK, ShellTypeOK
    <3>2. ItemsTypeOK'
      BY <1>1 DEF IInv, TypeOK, ItemsTypeOK
    <3>3. ListsTypeOK'
      BY <1>1, <1>3, <2>6, BoundsAssumption DEF ListsTypeOK
    <3> QED BY <3>1, <3>2, <3>3 DEF TypeOK
  <2>8. RowCountsMatch'
    BY <1>1, <1>3, <2>3, <2>6 DEF IInv, RowCountsMatch, ItemResults
  <2>9. ScreensCoherent' /\ OpenListStored' /\ EditHitsCapturedItem' /\ OnlyNestedWrites'
    BY <1>1, <1>3 DEF IInv, ScreensCoherent, OpenListStored, EditHitsCapturedItem, OnlyNestedWrites, NoAlert
  <2> QED BY <2>5, <2>7, <2>8, <2>9 DEF IInv
<1> QED BY <1>2, <1>3 DEF AddListConfirmed

\* Deleting a list.
LEMMA CommitDeleteListInv ==
    ASSUME IInv, NEW i \in 1..MaxLists, NEW opens \in BOOLEAN, NEW commits \in BOOLEAN,
           CommitDeleteList(i, opens, commits)
    PROVE  IInv'
<1> USE DEF storeVars, itemsVars, screenVars
<1>1. /\ current \in DB /\ durable \in DB /\ realm \in BOOLEAN
      /\ listsTable \in Tables(List) /\ itemsTable \in Tables(Item)
      /\ listsTable.rows \in Seq(List) /\ toDoLists \in BOOLEAN
      /\ nextList \in 1..(MaxLists + 1) /\ nextItem \in 1..(MaxItems + 1)
  BY DEF IInv, TypeOK, ShellTypeOK, ItemsTypeOK, ListsTypeOK, Tables
<1>u. /\ nav = "lists" /\ alert = NoAlert /\ proc = "running"
      /\ UNCHANGED <<nav, alert, toDoLists, nextList>>
      /\ UNCHANGED <<toDoList, toDoListItems, itemsTable, nameField, nextItem>>
  BY DEF CommitDeleteList, Facing
<1>2. /\ i \in 1..Len(current.lists) /\ i \in 1..Len(listsTable.rows)
      /\ toDoLists /\ Len(listsTable.rows) = Len(current.lists)
  BY <1>1 DEF IInv, RowCountsMatch, CommitDeleteList
<1>3. DeleteFault(toDoLists, Len(current.lists), i, Len(listsTable.rows)) = WriteFault
  BY <1>2 DEF DeleteFault, RowFault, WriteFault
<1>4. CASE UNCHANGED <<realm, inWrite, current, durable>> /\ (UNCHANGED listsTable \/
           listsTable' = EndEditing(listsTable))
  <2>1. listsTable' \in Tables(List) /\ Len(listsTable'.rows) = Len(listsTable.rows)
    <3>1. EndEditing(listsTable) \in Tables(List) /\ EndEditing(listsTable).rows = listsTable.rows
      BY <1>1, TableTypes
    <3>2. CASE UNCHANGED listsTable
      BY <1>1, <3>2
    <3>3. CASE listsTable' = EndEditing(listsTable)
      BY <3>1, <3>3
    <3> QED BY <1>4, <3>2, <3>3
  <2>2. QuietStep
    <3>1. /\ proc' = proc \/ (proc' = "nestedWrite" /\ inWrite)
          /\ log' \subseteq {"success", "failure", "noRealm"}
      BY <1>3, <1>4 DEF CommitDeleteList, Crash, WriteFault
    <3> QED BY <1>1, <1>4, <1>u, <2>1, <3>1 DEF QuietStep, IInv, TypeOK, ItemsTypeOK
  <2> QED BY <2>2, QuietInv
<1>5. CASE /\ ~inWrite /\ realm' = TRUE
           /\ Write([current EXCEPT !.lists = MoveLastOver(@, i)], commits)
           /\ listsTable' = DisableIfNone(EndEditing(DeleteRows(listsTable, i)),
                                          Len(current'.lists))
           /\ log' = {"success"}
           /\ UNCHANGED proc
  <2>2. /\ current' = [current EXCEPT !.lists = MoveLastOver(@, i)]
        /\ durable' = IF commits THEN current' ELSE durable
        /\ inWrite' = ~commits
    BY <1>5 DEF Write
  <2>3. /\ current' \in DB /\ current' # current
        /\ current'.items = current.items
        /\ Len(current'.lists) = Len(current.lists) - 1
        /\ \A j \in 1..Len(current'.lists) :
              current'.lists[j] = IF j = i THEN current.lists[Len(current.lists)]
                                           ELSE current.lists[j]
    BY <1>1, <1>2, <2>2, DeleteListDB
  <2>4. UniqueIds(current)'
    <3> DEFINE n == Len(current.lists)
    <3>1. UniqueIds(current)
      BY DEF IInv, StoredOnce
    <3>2. n \in Nat /\ i \in 1..n
      BY <1>1, <1>2, DBFacts
    <3>3. \A j, k \in 1..(n - 1) :
             current'.lists[j].listId = current'.lists[k].listId => j = k
      <4>1. SUFFICES ASSUME NEW j \in 1..(n - 1), NEW k \in 1..(n - 1),
                            current'.lists[j].listId = current'.lists[k].listId
                     PROVE  j = k
        OBVIOUS
      <4> DEFINE old(p) == IF p = i THEN n ELSE p
      <4>2. /\ old(j) \in 1..n /\ old(k) \in 1..n
            /\ current'.lists[j] = current.lists[old(j)]
            /\ current'.lists[k] = current.lists[old(k)]
        BY <2>3, <3>2
      <4>3. old(j) = old(k)
        <5> HIDE DEF old
        <5> QED BY <3>1, <4>1, <4>2 DEF UniqueIds
      <4> QED BY <3>2, <4>3
    <3>4. \A j \in 1..(n - 1) : current'.lists[j].listId < nextList
      BY <2>3, <3>1, <3>2, SMTT(60) DEF UniqueIds
    <3> QED BY <1>u, <2>3, <3>1, <3>3, <3>4 DEF UniqueIds
  <2>5. durable' \in DB /\ inWrite' \in BOOLEAN /\ StoredOnce' /\ ReadsAreDurable'
    <3>1. nextList' \in Nat /\ nextList' >= nextList /\ nextItem' \in Nat /\ nextItem' >= nextItem
      BY <1>1, <1>u, BoundsAssumption
    <3> QED BY <1>5, <2>2, <2>3, <2>4, <3>1, WriteInv
  <2>6. listsTable' \in Tables(List) /\ Len(listsTable'.rows) = Len(current'.lists)
    <3>1. /\ DeleteRows(listsTable, i) \in Tables(List)
          /\ Len(DeleteRows(listsTable, i).rows) = Len(listsTable.rows) - 1
      BY <1>1, <1>2, TableRowTypes
    <3>2. /\ EndEditing(DeleteRows(listsTable, i)) \in Tables(List)
          /\ EndEditing(DeleteRows(listsTable, i)).rows = DeleteRows(listsTable, i).rows
      BY <3>1, TableTypes
    <3>3. listsTable' \in Tables(List) /\ listsTable'.rows = DeleteRows(listsTable, i).rows
      BY <1>5, <3>2, DisableType
    <3> QED BY <1>2, <2>3, <3>1, <3>3
  <2>7. TypeOK'
    <3>1. ShellTypeOK'
      BY <1>u, <1>5, <2>3, <2>5 DEF IInv, TypeOK, ShellTypeOK
    <3>2. ItemsTypeOK' /\ ListsTypeOK'
      BY <1>u, <2>6 DEF IInv, TypeOK, ItemsTypeOK, ListsTypeOK
    <3> QED BY <3>1, <3>2 DEF TypeOK
  <2>8. RowCountsMatch'
    BY <1>u, <1>2, <2>3, <2>6 DEF IInv, RowCountsMatch, ItemResults
  <2>9. ScreensCoherent' /\ OpenListStored' /\ EditHitsCapturedItem' /\ OnlyNestedWrites'
    BY <1>u, <1>5 DEF IInv, ScreensCoherent, OpenListStored, EditHitsCapturedItem, OnlyNestedWrites, NoAlert
  <2> QED BY <2>5, <2>7, <2>8, <2>9 DEF IInv
<1> QED BY <1>3, <1>4, <1>5 DEF CommitDeleteList, WriteFault

-----------------------------------------------------------------------------
(* Every step preserves the invariant: the items screen *)

\* Opening the alert for a new item.
LEMMA AddItemTappedInv ==
    ASSUME IInv, AddItemTapped, UNCHANGED listsVars PROVE IInv'
<1> USE DEF AddItemTapped, storeVars, shellVars, listsVars, screenVars, Facing
<1>1. TypeOK'
  <2>1. [NoAlert EXCEPT !.kind = "addItem"] \in Alerts
    BY BoundsAssumption DEF NoAlert, Alerts
  <2> QED BY <2>1 DEF IInv, TypeOK, ShellTypeOK, ItemsTypeOK, ListsTypeOK
<1>2. RowCountsMatch'
  BY DEF IInv, RowCountsMatch, ItemResults
<1>3. ScreensCoherent' /\ OpenListStored' /\ EditHitsCapturedItem'
  BY DEF IInv, ScreensCoherent, OpenListStored, ListStored, EditHitsCapturedItem, NoAlert
<1>4. StoredOnce' /\ ReadsAreDurable' /\ OnlyNestedWrites'
  BY DEF IInv, StoredOnce, UniqueIds, ReadsAreDurable, OnlyNestedWrites
<1> QED BY <1>1, <1>2, <1>3, <1>4 DEF IInv

\* Edit/Done and swipes on the items screen, and a tap on its name field.
LEMMA ItemsModeInv ==
    ASSUME IInv, UNCHANGED listsVars,
           ItemsEditDoneTapped \/ SwipeItem \/ SwipeItemEnds \/ NameFieldTapped
    PROVE  IInv'
<1>1. listsTable \in Tables(List) /\ itemsTable \in Tables(Item)
  BY DEF IInv, TypeOK, ListsTypeOK, ItemsTypeOK
<1>2. itemsTable' \in Tables(Item) /\ itemsTable'.rows = itemsTable.rows
  BY <1>1, TableTypes DEF ItemsEditDoneTapped, SwipeItem, SwipeItemEnds, NameFieldTapped
<1>3. nameField' \in [text : Names \cup {Empty}, editing : BOOLEAN]
  BY DEF ItemsEditDoneTapped, SwipeItem, SwipeItemEnds, NameFieldTapped, IInv, TypeOK, ItemsTypeOK
<1>4. QuietStep
  BY <1>1, <1>2, <1>3
  DEF QuietStep, ItemsEditDoneTapped, SwipeItem, SwipeItemEnds, NameFieldTapped, Facing,
      storeVars, shellVars, listsVars, IInv, TypeOK, ShellTypeOK
<1> QED BY <1>4, QuietInv

\* Leaving the items screen.
LEMMA BackTappedInv ==
    ASSUME IInv, BackTapped, UNCHANGED listsVars PROVE IInv'
<1> USE DEF BackTapped, storeVars, shellVars, listsVars, screenVars, Facing
<1>1. TypeOK'
  BY DEF IInv, TypeOK, ShellTypeOK, ItemsTypeOK, ListsTypeOK, Screens
<1>2. RowCountsMatch'
  BY DEF IInv, RowCountsMatch, ItemResults
<1>3. ScreensCoherent' /\ OpenListStored' /\ EditHitsCapturedItem'
  BY DEF IInv, ScreensCoherent, OpenListStored, ListStored, EditHitsCapturedItem, NoAlert
<1>4. StoredOnce' /\ ReadsAreDurable' /\ OnlyNestedWrites'
  BY DEF IInv, StoredOnce, UniqueIds, ReadsAreDurable, OnlyNestedWrites
<1> QED BY <1>1, <1>2, <1>3, <1>4 DEF IInv

\* The results of the items screen and the rows of the database behind them.
LEMMA ItemResultsFacts ==
    ASSUME IInv
    PROVE  /\ ItemResults(current) \in Seq(Item)
           /\ Len(ItemResults(current)) \in Nat
           /\ Len(ItemResults(current)) = Cardinality(Matches(current.items, toDoList))
           /\ \A p \in 1..Len(ItemResults(current)) :
                 /\ ItemSlot(p) \in Matches(current.items, toDoList)
                 /\ ItemSlot(p) \in 1..Len(current.items)
                 /\ ItemResults(current)[p] = current.items[ItemSlot(p)]
<1>1. current.items \in Seq(Item)
  BY DBFacts DEF IInv, TypeOK, ShellTypeOK
<1>2. /\ ItemResults(current) \in Seq(Item)
      /\ Len(ItemResults(current)) = Cardinality(Matches(current.items, toDoList))
      /\ \A p \in 1..Len(ItemResults(current)) :
            ItemResults(current)[p] = current.items[ItemSlot(p)]
  BY <1>1, FilterProperties DEF ItemResults, ItemSlot
<1>3. \A p \in 1..Cardinality(Matches(current.items, toDoList)) :
         /\ ItemSlot(p) \in Matches(current.items, toDoList)
         /\ ItemSlot(p) \in 1..Len(current.items)
  BY <1>1, NthMatchType DEF ItemSlot
<1> QED BY <1>2, <1>3

\* The stored list the items screen is open on.
LEMMA OpenListFacts ==
    ASSUME IInv, ListStored
    PROVE  /\ ListSlot \in 1..Len(current.lists)
           /\ current.lists[ListSlot].listId = toDoList
           /\ toDoList \in 1..MaxLists
           /\ ListName \in Names
<1>1. ListSlot \in 1..Len(current.lists) /\ current.lists[ListSlot].listId = toDoList
  BY DEF ListStored, ListSlot
<1>2. current \in DB
  BY DEF IInv, TypeOK, ShellTypeOK
<1> QED BY <1>1, <1>2, DBFacts DEF ListName

\* The items screen comes up.
LEMMA ItemsViewDidLoadInv ==
    ASSUME IInv, NEW opens \in BOOLEAN, ItemsViewDidLoad(opens), UNCHANGED listsVars
    PROVE  IInv'
<1>1. ListStored
  BY DEF IInv, OpenListStored, ItemsViewDidLoad
<1>2. /\ proc = "running" /\ nav = "pushing" /\ nav' = "items" /\ log' = {}
      /\ nameField' = [text |-> ListName, editing |-> FALSE]
      /\ realm' = GetRealm(opens) /\ toDoListItems' = GetRealm(opens)
      /\ itemsTable' = IF GetRealm(opens)
                       THEN EnableIfAny(ReloadData(FreshTable, ItemResults(current)),
                                        Len(ItemResults(current)))
                       ELSE FreshTable
      /\ UNCHANGED <<proc, toDoList, inWrite, current, durable, alert, nextItem>>
      /\ UNCHANGED <<toDoLists, listsTable, nextList>>
  BY <1>1 DEF ItemsViewDidLoad, listsVars
<1>3. GetRealm(opens) \in BOOLEAN
  BY DEF GetRealm
<1>4. /\ itemsTable' \in Tables(Item)
      /\ Len(itemsTable'.rows) = IF GetRealm(opens) THEN Len(ItemResults(current)) ELSE 0
  <2>1. FreshTable \in Tables(Item) /\ Len(FreshTable.rows) = 0
    BY FreshTableType
  <2>2. ItemResults(current) \in Seq(Item)
    BY ItemResultsFacts
  <2>3. /\ ReloadData(FreshTable, ItemResults(current)) \in Tables(Item)
        /\ ReloadData(FreshTable, ItemResults(current)).rows = ItemResults(current)
    BY <2>1, <2>2, ReloadType
  <2>4. /\ EnableIfAny(ReloadData(FreshTable, ItemResults(current)), Len(ItemResults(current)))
              \in Tables(Item)
        /\ EnableIfAny(ReloadData(FreshTable, ItemResults(current)), Len(ItemResults(current))).rows
              = ItemResults(current)
    BY <2>3, EnableType
  <2> QED BY <1>2, <2>1, <2>4
<1>5. TypeOK'
  <2>1. ShellTypeOK' /\ ListsTypeOK'
    BY <1>2, <1>3 DEF IInv, TypeOK, ShellTypeOK, ListsTypeOK, Screens
  <2>2. nameField' \in [text : Names \cup {Empty}, editing : BOOLEAN]
    BY <1>1, <1>2, OpenListFacts
  <2>3. ItemsTypeOK'
    BY <1>2, <1>3, <1>4, <2>2 DEF IInv, TypeOK, ItemsTypeOK
  <2> QED BY <2>1, <2>3 DEF TypeOK
<1>6. RowCountsMatch'
  BY <1>2, <1>4 DEF IInv, RowCountsMatch, ItemResults
<1>7. ScreensCoherent' /\ OpenListStored' /\ EditHitsCapturedItem'
  BY <1>1, <1>2 DEF IInv, ScreensCoherent, OpenListStored, ListStored, EditHitsCapturedItem
<1>8. StoredOnce' /\ ReadsAreDurable' /\ OnlyNestedWrites'
  BY <1>2 DEF IInv, StoredOnce, UniqueIds, ReadsAreDurable, OnlyNestedWrites
<1> QED BY <1>5, <1>6, <1>7, <1>8 DEF IInv

\* A row that is shown has an object behind it.
LEMMA ShownItemRow ==
    ASSUME IInv, NEW i \in DOMAIN itemsTable.rows
    PROVE  /\ toDoListItems /\ i \in 1..Len(itemsTable.rows)
           /\ Len(itemsTable.rows) = Len(ItemResults(current))
           /\ i \in 1..Len(ItemResults(current))
           /\ RowFault(toDoListItems, Len(ItemResults(current)), i) = "none"
<1>1. itemsTable.rows \in Seq(Item) /\ toDoListItems \in BOOLEAN
  BY DEF IInv, TypeOK, ItemsTypeOK, Tables
<1>2. i \in 1..Len(itemsTable.rows) /\ Len(itemsTable.rows) \in Nat
  BY <1>1
<1>3. toDoListItems /\ Len(itemsTable.rows) = Len(ItemResults(current))
  BY <1>1, <1>2 DEF IInv, RowCountsMatch
<1> QED BY <1>2, <1>3 DEF RowFault

\* Selecting an item: the alert's index leads to its object.
LEMMA SelectItemInv ==
    ASSUME IInv, NEW i \in 1..MaxItems, SelectItem(i), UNCHANGED listsVars
    PROVE  IInv'
<1> USE DEF storeVars, screenVars, listsVars
<1>1. /\ toDoListItems /\ i \in 1..Len(ItemResults(current))
      /\ RowFault(toDoListItems, Len(ItemResults(current)), i) = "none"
  BY ShownItemRow DEF SelectItem
<1>2. /\ alert' = [kind |-> "editItem", row |-> i, item |-> ItemResults(current)[i].oid]
      /\ nav = "items" /\ log' = {}
      /\ UNCHANGED <<realm, inWrite, current, durable, nav, proc, nextItem>>
      /\ UNCHANGED <<toDoList, toDoListItems, itemsTable, nameField>>
      /\ UNCHANGED <<toDoLists, listsTable, nextList>>
  BY <1>1 DEF SelectItem, Captured, Facing
<1>3. alert' \in Alerts
  <2>1. ItemResults(current)[i].oid \in 1..MaxItems
    <3>1. ItemResults(current)[i] = current.items[ItemSlot(i)] /\ ItemSlot(i) \in 1..Len(current.items)
      BY <1>1, ItemResultsFacts
    <3>2. current \in DB
      BY DEF IInv, TypeOK, ShellTypeOK
    <3> QED BY <3>1, <3>2, DBFacts
  <2> QED BY <1>2, <2>1, BoundsAssumption DEF Alerts
<1>4. TypeOK'
  BY <1>2, <1>3 DEF IInv, TypeOK, ShellTypeOK, ItemsTypeOK, ListsTypeOK
<1>5. RowCountsMatch'
  BY <1>2 DEF IInv, RowCountsMatch, ItemResults
<1>6. ScreensCoherent' /\ OpenListStored'
  BY <1>1, <1>2 DEF IInv, ScreensCoherent, OpenListStored, ListStored
<1>7. EditHitsCapturedItem'
  BY <1>1, <1>2 DEF EditHitsCapturedItem, ItemResults
<1>8. StoredOnce' /\ ReadsAreDurable' /\ OnlyNestedWrites'
  BY <1>2 DEF IInv, StoredOnce, UniqueIds, ReadsAreDurable, OnlyNestedWrites
<1> QED BY <1>4, <1>5, <1>6, <1>7, <1>8 DEF IInv

\* Drawing a row of the items screen again.
LEMMA RedrawItemRowInv ==
    ASSUME IInv, NEW i \in 1..MaxItems, RedrawItemRow(i), UNCHANGED listsVars
    PROVE  IInv'
<1> USE DEF storeVars, listsVars
<1>1. /\ i \in 1..Len(itemsTable.rows) /\ i \in 1..Len(ItemResults(current))
      /\ RowFault(toDoListItems, Len(ItemResults(current)), i) = "none"
  BY ShownItemRow DEF RedrawItemRow
<1>2. itemsTable' = RedrawRow(itemsTable, ItemResults(current), i) /\ UNCHANGED proc
  BY <1>1 DEF RedrawItemRow
<1>3. itemsTable \in Tables(Item) /\ listsTable \in Tables(List)
  BY DEF IInv, TypeOK, ItemsTypeOK, ListsTypeOK
<1>4. itemsTable' \in Tables(Item) /\ Len(itemsTable'.rows) = Len(itemsTable.rows)
  BY <1>1, <1>2, <1>3, ItemResultsFacts, TableRowTypes
<1>5. QuietStep
  BY <1>2, <1>3, <1>4 DEF QuietStep, RedrawItemRow, IInv, TypeOK, ShellTypeOK, ItemsTypeOK
<1> QED BY <1>5, QuietInv

\* The edit of the name field ends: the text is taken back, or stored.
LEMMA TextFieldDidEndEditingInv ==
    ASSUME IInv, NEW t \in Texts, NEW opens \in BOOLEAN, NEW commits \in BOOLEAN,
           TextFieldDidEndEditing(t, opens, commits), UNCHANGED listsVars
    PROVE  IInv'
<1> USE DEF storeVars, listsVars
<1>1. /\ current \in DB /\ durable \in DB /\ inWrite \in BOOLEAN
      /\ listsTable \in Tables(List) /\ itemsTable \in Tables(Item)
      /\ nextList \in 1..(MaxLists + 1) /\ nextItem \in 1..(MaxItems + 1)
      /\ nameField \in [text : Names \cup {Empty}, editing : BOOLEAN]
      /\ proc = "running" /\ nav \in {"items", "popping"}
      /\ UNCHANGED <<nav, alert, toDoList, toDoListItems, itemsTable, nextItem>>
      /\ UNCHANGED <<toDoLists, listsTable, nextList>>
  BY DEF TextFieldDidEndEditing, FieldEnds, IInv, TypeOK, ShellTypeOK, ItemsTypeOK,
     ListsTypeOK, ScreensCoherent, Screens
<1>2. ListStored
  BY <1>1 DEF IInv, OpenListStored
<1>3. /\ ListSlot \in 1..Len(current.lists)
      /\ current.lists[ListSlot].listId = toDoList
      /\ ListName \in Names
  BY <1>2, OpenListFacts
<1>4. CASE /\ UNCHANGED <<realm, inWrite, current, durable>>
           /\ nameField' \in [text : Names \cup {Empty}, editing : BOOLEAN]
           /\ log' \subseteq {"success", "failure", "noRealm"}
           /\ proc' = proc \/ (proc' = "nestedWrite" /\ inWrite)
  <2>1. QuietStep
    BY <1>1, <1>4 DEF QuietStep
  <2> QED BY <2>1, QuietInv
<1>5. CASE /\ ~inWrite /\ realm' = TRUE
           /\ Accepts(t) /\ t # ListName
           /\ Write([current EXCEPT !.lists[ListSlot].name = t], commits)
           /\ nameField' = [text |-> current'.lists[ListSlot].name, editing |-> FALSE]
           /\ log' = {"success"}
           /\ UNCHANGED proc
  <2>1. t \in Names /\ t # current.lists[ListSlot].name
    BY <1>5 DEF Texts, Accepts, ListName
  <2>2. /\ current' = [current EXCEPT !.lists[ListSlot].name = t]
        /\ durable' = IF commits THEN current' ELSE durable
        /\ inWrite' = ~commits
    BY <1>5 DEF Write
  <2>3. /\ current' \in DB /\ current' # current
        /\ current'.items = current.items
        /\ Len(current'.lists) = Len(current.lists)
        /\ current'.lists[ListSlot].name = t
        /\ \A i \in 1..Len(current'.lists) : current'.lists[i].listId = current.lists[i].listId
    <3> HIDE DEF ListSlot
    <3> QED BY <1>1, <1>3, <2>1, <2>2, RenameListDB
  <2>4. UniqueIds(current)'
    <3>1. UniqueIds(current)
      BY DEF IInv, StoredOnce
    <3> QED BY <1>1, <2>3, <3>1 DEF UniqueIds
  <2>5. durable' \in DB /\ inWrite' \in BOOLEAN /\ StoredOnce' /\ ReadsAreDurable'
    <3>1. nextList' \in Nat /\ nextList' >= nextList /\ nextItem' \in Nat /\ nextItem' >= nextItem
      BY <1>1, BoundsAssumption
    <3> QED BY <1>5, <2>2, <2>3, <2>4, <3>1, WriteInv
  <2>6. TypeOK'
    <3>1. ShellTypeOK'
      BY <1>1, <1>5, <2>3, <2>5 DEF IInv, TypeOK, ShellTypeOK
    <3>2. nameField' \in [text : Names \cup {Empty}, editing : BOOLEAN]
      BY <1>5, <2>1, <2>3
    <3>3. ItemsTypeOK' /\ ListsTypeOK'
      BY <1>1, <3>2 DEF IInv, TypeOK, ItemsTypeOK, ListsTypeOK
    <3> QED BY <3>1, <3>3 DEF TypeOK
  <2>7. RowCountsMatch' /\ EditHitsCapturedItem'
    BY <1>1, <2>3 DEF IInv, RowCountsMatch, EditHitsCapturedItem, ItemResults
  <2>8. ScreensCoherent' /\ OnlyNestedWrites'
    BY <1>1, <1>5 DEF IInv, ScreensCoherent, OnlyNestedWrites
  <2>9. OpenListStored'
    BY <1>1, <1>3, <2>3 DEF OpenListStored, ListStored
  <2> QED BY <2>5, <2>6, <2>7, <2>8, <2>9 DEF IInv
<1>6. \/ /\ nameField' = [text |-> RevertedText(t), editing |-> FALSE]
         /\ log' \subseteq {"success", "failure", "noRealm"}
         /\ UNCHANGED <<realm, inWrite, current, durable, proc>>
      \/ /\ log' = {} /\ proc' = "nestedWrite" /\ inWrite
         /\ UNCHANGED <<realm, inWrite, current, durable, nameField>>
      \/ /\ ~inWrite /\ realm' = TRUE
         /\ Accepts(t) /\ t # ListName
         /\ Write([current EXCEPT !.lists[ListSlot].name = t], commits)
         /\ nameField' = [text |-> current'.lists[ListSlot].name, editing |-> FALSE]
         /\ log' = {"success"}
         /\ UNCHANGED proc
  BY <1>1, <1>2 DEF TextFieldDidEndEditing, WriteFault, Crash
<1>7. [text |-> RevertedText(t), editing |-> FALSE]
         \in [text : Names \cup {Empty}, editing : BOOLEAN]
  BY <1>3 DEF RevertedText
<1> QED BY <1>1, <1>4, <1>5, <1>6, <1>7

\* Adding an item.
LEMMA AddItemConfirmedInv ==
    ASSUME IInv, NEW t \in Texts, NEW opens \in BOOLEAN, NEW commits \in BOOLEAN,
           AddItemConfirmed(t, opens, commits), UNCHANGED listsVars
    PROVE  IInv'
<1> USE DEF storeVars, listsVars, screenVars
<1>1. /\ current \in DB /\ durable \in DB
      /\ listsTable \in Tables(List) /\ itemsTable \in Tables(Item)
      /\ nav = "items" /\ nextItem \in 1..MaxItems /\ nextList \in 1..(MaxLists + 1)
      /\ nameField \in [text : Names \cup {Empty}, editing : BOOLEAN]
      /\ proc = "running" /\ alert' = NoAlert
      /\ UNCHANGED <<nav, toDoLists, listsTable, nextList>>
  BY BoundsAssumption DEF AddItemConfirmed, AlertReady, IInv, TypeOK, ShellTypeOK,
     ItemsTypeOK, ListsTypeOK, ScreensCoherent
<1>2. ListStored /\ toDoList \in 1..MaxLists
  <2>1. ListStored
    BY <1>1 DEF IInv, OpenListStored
  <2> QED BY <2>1, OpenListFacts
<1>3. CASE UNCHANGED <<realm, inWrite, current, durable, toDoList, toDoListItems,
                       itemsTable, nameField, nextItem>>
  <2>1. QuietStep
    BY <1>1, <1>3 DEF AddItemConfirmed, AlertReady, ItemsReturn, ItemsCrash, Crash, QuietStep, IInv, TypeOK, ShellTypeOK
  <2> QED BY <2>1, QuietInv
<1>4. CASE /\ Accepts(t) /\ ~inWrite /\ realm' = TRUE
           /\ Write([current EXCEPT !.items =
                       AddRow(@, [oid |-> nextItem, listId |-> toDoList, name |-> t])],
                    commits)
           /\ nextItem' = nextItem + 1
           /\ toDoListItems' = TRUE
           /\ itemsTable' = [ReloadData(itemsTable, Filter(current'.items, toDoList))
                               EXCEPT !.enabled = TRUE]
           /\ log' = {"success"}
           /\ UNCHANGED <<proc, toDoList, nameField>>
  <2> DEFINE x == [oid |-> nextItem, listId |-> toDoList, name |-> t]
  <2>1. x \in Item
    BY <1>1, <1>2, <1>4 DEF Item, Texts, Accepts
  <2>2. /\ current' = [current EXCEPT !.items = AddRow(@, x)]
        /\ durable' = IF commits THEN current' ELSE durable
        /\ inWrite' = ~commits
    BY <1>4 DEF Write
  <2>3. /\ current' \in DB /\ current' # current
        /\ current'.lists = current.lists
        /\ Len(current'.items) = Len(current.items) + 1
        /\ \A i \in 1..Len(current'.items) :
              current'.items[i] = IF i <= Len(current.items) THEN current.items[i] ELSE x
    BY <1>1, <2>1, <2>2, AddItemDB
  <2>4. UniqueIds(current)'
    <3>1. UniqueIds(current)
      BY DEF IInv, StoredOnce
    <3>2. /\ Len(current.items) \in Nat /\ nextItem \in Nat
          /\ \A i \in 1..Len(current.items) : current.items[i].oid \in Nat
      <4>1. nextItem \in Nat
        BY <1>1, BoundsAssumption
      <4> QED BY <1>1, <4>1, DBFacts
    <3>3. /\ \A i \in 1..Len(current.items) : current'.items[i].oid < nextItem
          /\ current'.items[Len(current.items) + 1].oid = nextItem
      <4>1. \A i \in 1..Len(current.items) : current.items[i].oid < nextItem
        BY <3>1 DEF UniqueIds
      <4>2. \A i \in 1..Len(current.items) : current'.items[i] = current.items[i]
        BY <2>3, <3>2
      <4>3. current'.items[Len(current.items) + 1] = x
        BY <2>3, <3>2
      <4> QED BY <4>1, <4>2, <4>3
    <3>4. \A i, j \in 1..Len(current'.items) :
             current'.items[i].oid = current'.items[j].oid => i = j
      <4>1. SUFFICES ASSUME NEW i \in 1..Len(current'.items), NEW j \in 1..Len(current'.items),
                            current'.items[i].oid = current'.items[j].oid
                     PROVE  i = j
        OBVIOUS
      <4>2. CASE i <= Len(current.items) /\ j <= Len(current.items)
        <5>1. i \in 1..Len(current.items) /\ j \in 1..Len(current.items)
          BY <3>2, <4>2
        <5>2. current.items[i].oid = current.items[j].oid
          BY <2>3, <4>1, <4>2
        <5> QED BY <3>1, <5>1, <5>2 DEF UniqueIds
      <4>3. CASE ~(i <= Len(current.items) /\ j <= Len(current.items))
        BY <2>3, <3>2, <3>3, <4>1, <4>3
      <4> QED BY <4>2, <4>3
    <3>5. \A i \in 1..Len(current'.items) : current'.items[i].oid < nextItem'
      BY <1>4, <2>3, <3>2, <3>3
    <3> QED BY <1>1, <2>3, <3>1, <3>4, <3>5 DEF UniqueIds
  <2>5. durable' \in DB /\ inWrite' \in BOOLEAN /\ StoredOnce' /\ ReadsAreDurable'
    <3>1. nextList' \in Nat /\ nextList' >= nextList /\ nextItem' \in Nat /\ nextItem' >= nextItem
      BY <1>1, <1>4, BoundsAssumption
    <3> QED BY <1>4, <2>2, <2>3, <2>4, <3>1, WriteInv
  <2>6. itemsTable' \in Tables(Item) /\ itemsTable'.rows = Filter(current'.items, toDoList)
    <3>1. Filter(current'.items, toDoList) \in Seq(Item)
      <4>1. current'.items \in Seq(Item)
        BY <2>3 DEF DB
      <4> QED BY <4>1, FilterProperties
    <3>2. /\ ReloadData(itemsTable, Filter(current'.items, toDoList)) \in Tables(Item)
          /\ ReloadData(itemsTable, Filter(current'.items, toDoList)).rows
               = Filter(current'.items, toDoList)
      BY <1>1, <3>1, ReloadType
    <3> QED BY <1>4, <3>2, TableTypes
  <2>7. TypeOK'
    <3>1. ShellTypeOK'
      BY <1>1, <1>4, <2>3, <2>5, NoAlertType DEF IInv, TypeOK, ShellTypeOK
    <3>2. ListsTypeOK'
      BY <1>1 DEF IInv, TypeOK, ListsTypeOK
    <3>3. ItemsTypeOK'
      BY <1>1, <1>4, <2>6, BoundsAssumption DEF IInv, TypeOK, ItemsTypeOK
    <3> QED BY <3>1, <3>2, <3>3 DEF TypeOK
  <2>8. RowCountsMatch'
    BY <1>1, <1>4, <2>3, <2>6 DEF IInv, RowCountsMatch, ItemResults
  <2>9. ScreensCoherent' /\ OpenListStored' /\ EditHitsCapturedItem' /\ OnlyNestedWrites'
    BY <1>1, <1>2, <1>4, <2>3 DEF IInv, ScreensCoherent, OpenListStored, ListStored, EditHitsCapturedItem, OnlyNestedWrites, NoAlert
  <2> QED BY <2>5, <2>7, <2>8, <2>9 DEF IInv
<1> QED BY <1>3, <1>4 DEF AddItemConfirmed, ItemsReturn, ItemsCrash

\* The object the edit alert captured is stored, in the row of the database
\* that the captured index leads to.
LEMMA CapturedFacts ==
    ASSUME IInv, alert.kind = "editItem"
    PROVE  /\ ItemSlot(alert.row) \in 1..Len(current.items)
           /\ CapturedStored
           /\ CapturedName = current.items[ItemSlot(alert.row)].name
           /\ EditFault = WriteFault
<1> DEFINE k == ItemSlot(alert.row)
<1>1. /\ alert.row \in 1..Len(ItemResults(current))
      /\ ItemResults(current)[alert.row].oid = alert.item
  BY DEF IInv, EditHitsCapturedItem
<1>2. k \in 1..Len(current.items) /\ current.items[k].oid = alert.item
  BY <1>1, ItemResultsFacts
<1>3. CapturedStored
  BY <1>2 DEF CapturedStored
<1>4. CapturedName = current.items[k].name
  <2> HIDE DEF k
  <2>1. \A j \in 1..Len(current.items) : current.items[j].oid = alert.item => j = k
    BY <1>2 DEF IInv, StoredOnce, UniqueIds
  <2>2. (CHOOSE j \in 1..Len(current.items) : current.items[j].oid = alert.item) = k
    BY <1>2, <2>1
  <2> QED BY <2>2 DEF CapturedName
<1>5. ~(alert.row > Len(ItemResults(current)))
  BY <1>1, ItemResultsFacts
<1>6. RowFault(toDoListItems, Len(ItemResults(current)), alert.row) = "none"
  BY <1>5 DEF IInv, ScreensCoherent, RowFault
<1> QED BY <1>2, <1>3, <1>4, <1>6 DEF EditFault, WriteFault

\* Editing an item.
LEMMA EditItemConfirmedInv ==
    ASSUME IInv, NEW t \in Texts, NEW opens \in BOOLEAN, NEW commits \in BOOLEAN,
           EditItemConfirmed(t, opens, commits), UNCHANGED listsVars
    PROVE  IInv'
<1> USE DEF storeVars, listsVars, screenVars
<1> DEFINE k == ItemSlot(alert.row)
<1>1. /\ current \in DB /\ durable \in DB
      /\ listsTable \in Tables(List) /\ itemsTable \in Tables(Item)
      /\ nav = "items" /\ nextItem \in 1..(MaxItems + 1) /\ nextList \in 1..(MaxLists + 1)
      /\ nameField \in [text : Names \cup {Empty}, editing : BOOLEAN]
      /\ alert.kind = "editItem" /\ toDoListItems
      /\ proc = "running" /\ alert' = NoAlert
      /\ UNCHANGED <<nav, toDoLists, listsTable, nextList>>
  BY DEF EditItemConfirmed, AlertReady, IInv, TypeOK, ShellTypeOK,
     ItemsTypeOK, ListsTypeOK, ScreensCoherent
<1>2. /\ k \in 1..Len(current.items) /\ CapturedStored
      /\ CapturedName = current.items[k].name
      /\ EditFault = WriteFault
  BY <1>1, CapturedFacts
<1>3. CASE UNCHANGED <<realm, inWrite, current, durable, toDoList, toDoListItems,
                       itemsTable, nameField, nextItem>>
  <2>1. /\ proc' = proc \/ (proc' = "nestedWrite" /\ inWrite)
        /\ log' \subseteq {"success", "failure", "noRealm"}
    BY <1>2 DEF EditItemConfirmed, ItemsReturn, ItemsCrash, Crash, WriteFault
  <2>2. QuietStep
    BY <1>1, <1>3, <2>1 DEF QuietStep
  <2> QED BY <2>2, QuietInv
<1>4. CASE /\ ~EditReturns(t, opens) /\ EditFault = "none"
           /\ realm' = TRUE
           /\ Write([current EXCEPT !.items[ItemSlot(alert.row)].name = t], commits)
           /\ itemsTable' = ReloadData(itemsTable, Filter(current'.items, toDoList))
           /\ log' = {"success", "failure"}
           /\ UNCHANGED <<proc, toDoList, toDoListItems, nameField, nextItem>>
  <2>1. t \in Names /\ t # current.items[k].name /\ ~inWrite
    BY <1>2, <1>4 DEF EditReturns, Texts, Accepts, WriteFault
  <2>2. /\ current' = [current EXCEPT !.items[k].name = t]
        /\ durable' = IF commits THEN current' ELSE durable
        /\ inWrite' = ~commits
    BY <1>4 DEF Write
  <2> HIDE DEF k
  <2>3. /\ current' \in DB /\ current' # current
        /\ current'.lists = current.lists
        /\ Len(current'.items) = Len(current.items)
        /\ \A i \in 1..Len(current'.items) : current'.items[i].oid = current.items[i].oid
    <3> DEFINE d == [current EXCEPT !.items[k].name = t]
    <3>1. current \in DB /\ k \in 1..Len(current.items) /\ t \in Names /\ t # current.items[k].name
      BY <1>1, <1>2, <2>1
    <3>2. /\ d \in DB /\ d # current
          /\ d.lists = current.lists
          /\ Len(d.items) = Len(current.items)
          /\ \A i \in 1..Len(d.items) :
                /\ d.items[i].oid = current.items[i].oid
                /\ d.items[i].listId = current.items[i].listId
      BY <3>1, EditItemDB
    <3> QED BY <2>2, <3>2
  <2>4. UniqueIds(current)'
    <3>1. UniqueIds(current)
      BY DEF IInv, StoredOnce
    <3>2. /\ \A i, j \in 1..Len(current'.items) :
                current'.items[i].oid = current'.items[j].oid => i = j
          /\ \A i \in 1..Len(current'.items) : current'.items[i].oid < nextItem
      <4> USE <3>1 DEF UniqueIds
      <4>1. \A i, j \in 1..Len(current.items) :
               current.items[i].oid = current.items[j].oid => i = j
        OBVIOUS
      <4>2. \A i \in 1..Len(current.items) : current.items[i].oid < nextItem
        OBVIOUS
      <4> QED BY <2>3, <4>1, <4>2
    <3> QED BY <1>1, <1>4, <2>3, <3>1, <3>2 DEF UniqueIds
  <2>5. durable' \in DB /\ inWrite' \in BOOLEAN /\ StoredOnce' /\ ReadsAreDurable'
    <3>1. nextList' \in Nat /\ nextList' >= nextList /\ nextItem' \in Nat /\ nextItem' >= nextItem
      BY <1>1, <1>4, BoundsAssumption
    <3> QED BY <2>1, <2>2, <2>3, <2>4, <3>1, WriteInv
  <2>6. itemsTable' \in Tables(Item) /\ itemsTable'.rows = Filter(current'.items, toDoList)
    <3>1. current'.items \in Seq(Item)
      BY <2>3 DEF DB
    <3>2. Filter(current'.items, toDoList) \in Seq(Item)
      BY <3>1, FilterProperties
    <3> QED BY <1>1, <1>4, <3>2, ReloadType
  <2>7. TypeOK'
    <3>1. ShellTypeOK'
      BY <1>1, <1>4, <2>3, <2>5, NoAlertType DEF IInv, TypeOK, ShellTypeOK
    <3>2. ItemsTypeOK' /\ ListsTypeOK'
      BY <1>1, <1>4, <2>6 DEF IInv, TypeOK, ItemsTypeOK, ListsTypeOK
    <3> QED BY <3>1, <3>2 DEF TypeOK
  <2>8. RowCountsMatch'
    BY <1>1, <1>4, <2>3, <2>6 DEF IInv, RowCountsMatch, ItemResults
  <2>9. ScreensCoherent' /\ OpenListStored' /\ EditHitsCapturedItem' /\ OnlyNestedWrites'
    BY <1>1, <1>4, <2>3 DEF IInv, ScreensCoherent, OpenListStored, ListStored,
       EditHitsCapturedItem, OnlyNestedWrites, NoAlert
  <2> QED BY <2>5, <2>7, <2>8, <2>9 DEF IInv
<1> QED BY <1>3, <1>4 DEF EditItemConfirmed, ItemsReturn, ItemsCrash

\* Deleting an item, whose row of the database another item may take.
LEMMA CommitDeleteItemInv ==
    ASSUME IInv, NEW i \in 1..MaxItems, NEW opens \in BOOLEAN, NEW commits \in BOOLEAN,
           CommitDeleteItem(i, opens, commits), UNCHANGED listsVars
    PROVE  IInv'
<1> USE DEF storeVars, listsVars
<1> DEFINE k == ItemSlot(i)
<1>1. /\ current \in DB /\ durable \in DB /\ current.items \in Seq(Item)
      /\ listsTable \in Tables(List) /\ itemsTable \in Tables(Item)
      /\ nextList \in 1..(MaxLists + 1) /\ nextItem \in 1..(MaxItems + 1)
      /\ nameField \in [text : Names \cup {Empty}, editing : BOOLEAN]
  BY DBFacts DEF IInv, TypeOK, ShellTypeOK, ItemsTypeOK, ListsTypeOK
<1>u. /\ nav = "items" /\ alert = NoAlert /\ proc = "running"
      /\ UNCHANGED <<nav, alert, toDoList, toDoListItems, nameField, nextItem>>
      /\ UNCHANGED <<toDoLists, listsTable, nextList>>
  BY DEF CommitDeleteItem, Facing
<1>2. /\ toDoListItems /\ i \in 1..Len(itemsTable.rows)
      /\ Len(itemsTable.rows) = Len(ItemResults(current))
      /\ i \in 1..Len(ItemResults(current))
      /\ RowFault(toDoListItems, Len(ItemResults(current)), i) = "none"
  BY ShownItemRow DEF CommitDeleteItem
<1>3. DeleteFault(toDoListItems, Len(ItemResults(current)), i, Len(itemsTable.rows)) = WriteFault
  BY <1>2 DEF DeleteFault, WriteFault
<1>4. /\ k \in Matches(current.items, toDoList) /\ k \in 1..Len(current.items)
      /\ Len(ItemResults(current)) = Cardinality(Matches(current.items, toDoList))
  BY <1>2, ItemResultsFacts
<1>5. CASE UNCHANGED <<realm, inWrite, current, durable>> /\ (UNCHANGED itemsTable \/
           itemsTable' = EndEditing(itemsTable))
  <2>1. itemsTable' \in Tables(Item) /\ Len(itemsTable'.rows) = Len(itemsTable.rows)
    <3>1. EndEditing(itemsTable) \in Tables(Item) /\ EndEditing(itemsTable).rows = itemsTable.rows
      BY <1>1, TableTypes
    <3>2. CASE UNCHANGED itemsTable
      BY <1>1, <3>2
    <3>3. CASE itemsTable' = EndEditing(itemsTable)
      BY <3>1, <3>3
    <3> QED BY <1>5, <3>2, <3>3
  <2>2. QuietStep
    <3>1. /\ proc' = proc \/ (proc' = "nestedWrite" /\ inWrite)
          /\ log' \subseteq {"success", "failure", "noRealm"}
      BY <1>3, <1>5 DEF CommitDeleteItem, Crash, WriteFault
    <3> QED BY <1>1, <1>5, <1>u, <2>1, <3>1 DEF QuietStep
  <2> QED BY <2>2, QuietInv
<1>6. CASE /\ ~inWrite /\ realm' = TRUE
           /\ Write([current EXCEPT !.items = MoveLastOver(@, ItemSlot(i))], commits)
           /\ itemsTable' = DisableIfNone(EndEditing(DeleteRows(itemsTable, i)),
                                          Len(Filter(current'.items, toDoList)))
           /\ log' = {"success"}
           /\ UNCHANGED proc
  <2>2. /\ current' = [current EXCEPT !.items = MoveLastOver(@, k)]
        /\ durable' = IF commits THEN current' ELSE durable
        /\ inWrite' = ~commits
    BY <1>6 DEF Write
  <2> HIDE DEF k
  <2>3. /\ current' \in DB /\ current' # current
        /\ current'.lists = current.lists
        /\ current'.items = MoveLastOver(current.items, k)
        /\ Len(current'.items) = Len(current.items) - 1
        /\ \A j \in 1..Len(current'.items) :
              current'.items[j] = IF j = k THEN current.items[Len(current.items)]
                                           ELSE current.items[j]
    BY <1>1, <1>4, <2>2, DeleteItemDB
  <2>4. UniqueIds(current)'
    <3> DEFINE n == Len(current.items)
    <3>1. UniqueIds(current)
      BY DEF IInv, StoredOnce
    <3>2. n \in Nat /\ k \in 1..n
      BY <1>1, <1>4, DBFacts
    <3>3. \A j, m \in 1..(n - 1) :
             current'.items[j].oid = current'.items[m].oid => j = m
      <4>1. SUFFICES ASSUME NEW j \in 1..(n - 1), NEW m \in 1..(n - 1),
                            current'.items[j].oid = current'.items[m].oid
                     PROVE  j = m
        OBVIOUS
      <4> DEFINE old(p) == IF p = k THEN n ELSE p
      <4>2. /\ old(j) \in 1..n /\ old(m) \in 1..n
            /\ current'.items[j] = current.items[old(j)]
            /\ current'.items[m] = current.items[old(m)]
        BY <2>3, <3>2
      <4>3. old(j) = old(m)
        <5> HIDE DEF old
        <5> QED BY <3>1, <4>1, <4>2 DEF UniqueIds
      <4> QED BY <3>2, <4>3
    <3>4. \A j \in 1..(n - 1) : current'.items[j].oid < nextItem
      BY <2>3, <3>1, <3>2 DEF UniqueIds
    <3> QED BY <1>u, <2>3, <3>1, <3>3, <3>4 DEF UniqueIds
  <2>5. durable' \in DB /\ inWrite' \in BOOLEAN /\ StoredOnce' /\ ReadsAreDurable'
    <3>1. nextList' \in Nat /\ nextList' >= nextList /\ nextItem' \in Nat /\ nextItem' >= nextItem
      BY <1>1, <1>u, BoundsAssumption
    <3> QED BY <1>6, <2>2, <2>3, <2>4, <3>1, WriteInv
  <2>6. /\ itemsTable' \in Tables(Item)
        /\ Len(itemsTable'.rows) = Len(Filter(current'.items, toDoList))
    <3>1. /\ DeleteRows(itemsTable, i) \in Tables(Item)
          /\ Len(DeleteRows(itemsTable, i).rows) = Len(itemsTable.rows) - 1
      BY <1>1, <1>2, TableRowTypes
    <3>2. /\ EndEditing(DeleteRows(itemsTable, i)) \in Tables(Item)
          /\ EndEditing(DeleteRows(itemsTable, i)).rows = DeleteRows(itemsTable, i).rows
      BY <3>1, TableTypes
    <3>3. itemsTable' \in Tables(Item) /\ itemsTable'.rows = DeleteRows(itemsTable, i).rows
      BY <1>6, <3>2, DisableType
    <3>4. Cardinality(Matches(current'.items, toDoList))
             = Cardinality(Matches(current.items, toDoList)) - 1
      BY <1>1, <1>4, <2>3, DeleteShrinksMatches
    <3>5. Len(Filter(current'.items, toDoList)) = Cardinality(Matches(current'.items, toDoList))
      <4>1. current'.items \in Seq(Item)
        BY <2>3 DEF DB
      <4> QED BY <4>1, FilterProperties
    <3> QED BY <1>2, <1>4, <3>1, <3>3, <3>4, <3>5
  <2>7. TypeOK'
    <3>1. ShellTypeOK'
      BY <1>u, <1>6, <2>3, <2>5 DEF IInv, TypeOK, ShellTypeOK
    <3>2. ItemsTypeOK' /\ ListsTypeOK'
      BY <1>u, <2>6 DEF IInv, TypeOK, ItemsTypeOK, ListsTypeOK
    <3> QED BY <3>1, <3>2 DEF TypeOK
  <2>8. RowCountsMatch'
    BY <1>u, <1>2, <2>3, <2>6 DEF IInv, RowCountsMatch, ItemResults
  <2>9. ScreensCoherent' /\ OpenListStored' /\ EditHitsCapturedItem' /\ OnlyNestedWrites'
    BY <1>u, <1>6, <2>3 DEF IInv, ScreensCoherent, OpenListStored, ListStored,
       EditHitsCapturedItem, OnlyNestedWrites, NoAlert
  <2> QED BY <2>5, <2>7, <2>8, <2>9 DEF IInv
<1> QED BY <1>3, <1>5, <1>6 DEF CommitDeleteItem, WriteFault

-----------------------------------------------------------------------------
(* The invariant *)

\* Cancelling an alert.
LEMMA CancelAlertInv == ASSUME IInv, CancelAlert PROVE IInv'
<1>1. QuietStep
  BY DEF CancelAlert, AlertCancelled, QuietStep, storeVars, listsVars, itemsVars,
     screenVars, IInv, TypeOK, ItemsTypeOK, ListsTypeOK
<1> QED BY <1>1, QuietInv

\* A state without screens over the file as it is.
Launched ==
    /\ durable \in DB /\ UniqueIds(durable)
    /\ nextList \in 1..(MaxLists + 1) /\ nextItem \in 1..(MaxItems + 1)
    /\ realm = FALSE /\ inWrite = FALSE /\ current = durable
    /\ nav = "launching" /\ proc = "running" /\ alert = NoAlert /\ log = {}
    /\ toDoLists = FALSE /\ listsTable = FreshTable
    /\ toDoList = NoList /\ toDoListItems = FALSE
    /\ itemsTable = FreshTable /\ nameField = NoNameField

\* Such a state satisfies the invariant, now and after a step.
LEMMA LaunchInv == Launched => IInv
<1> SUFFICES ASSUME Launched PROVE IInv
  OBVIOUS
<1> USE DEF Launched
<1>1. /\ listsTable \in Tables(List) /\ itemsTable \in Tables(Item)
      /\ Len(listsTable.rows) = 0 /\ Len(itemsTable.rows) = 0
  BY FreshTableType
<1>2. ShellTypeOK
  BY NoAlertType DEF ShellTypeOK, Screens
<1>3. ItemsTypeOK /\ ListsTypeOK
  <2>1. toDoList \in 0..MaxLists
    BY BoundsAssumption DEF NoList
  <2>2. nameField \in [text : Names \cup {Empty}, editing : BOOLEAN]
    BY DEF NoNameField
  <2> QED BY <1>1, <2>1, <2>2 DEF ItemsTypeOK, ListsTypeOK
<1>4. RowCountsMatch
  BY <1>1 DEF RowCountsMatch
<1>5. ScreensCoherent /\ OpenListStored /\ EditHitsCapturedItem
  BY DEF ScreensCoherent, OpenListStored, EditHitsCapturedItem, NoAlert, NoNameField
<1>6. StoredOnce /\ ReadsAreDurable /\ OnlyNestedWrites
  BY DEF StoredOnce, ReadsAreDurable, OnlyNestedWrites
<1> QED BY <1>2, <1>3, <1>4, <1>5, <1>6 DEF IInv, TypeOK

LEMMA LaunchInvNext == Launched' => IInv'
BY LaunchInv, PTL

\* The initial states satisfy the invariant.
LEMMA InitInv == Init => IInv
<1> SUFFICES ASSUME Init PROVE IInv
  OBVIOUS
<1>1. durable \in DB /\ Len(durable.lists) = 0 /\ Len(durable.items) = 0
  BY DEF Init, DB
<1>2. UniqueIds(durable)
  BY <1>1 DEF UniqueIds
<1>3. nextList \in 1..(MaxLists + 1) /\ nextItem \in 1..(MaxItems + 1)
  BY BoundsAssumption DEF Init
<1> QED BY <1>1, <1>2, <1>3, LaunchInv DEF Init, Launched

\* A relaunch rebuilds the invariant from the file alone.
LEMMA RelaunchInv == ASSUME IInv, Relaunch PROVE IInv'
<1>1. /\ (durable \in DB)' /\ UniqueIds(durable)'
      /\ (nextList \in 1..(MaxLists + 1))' /\ (nextItem \in 1..(MaxItems + 1))'
  BY DEF Relaunch, IInv, TypeOK, ShellTypeOK, ItemsTypeOK, ListsTypeOK, StoredOnce, UniqueIds
<1>2. Launched'
  BY <1>1 DEF Relaunch, Launched, UniqueIds
<1> QED BY <1>2, LaunchInvNext

\* Every step preserves the invariant.
LEMMA NextInv == IInv /\ [Next]_vars => IInv'
<1> SUFFICES ASSUME IInv, [Next]_vars PROVE IInv'
  OBVIOUS
<1>1. CASE ListsNext
  <2>1. CASE AddListTapped
    BY <2>1, AddListTappedInv
  <2>2. CASE ListsEditDoneTapped \/ SwipeList \/ SwipeListEnds
    BY <2>2, ListsModeInv
  <2>3. CASE \E opens \in BOOLEAN : ListsViewDidAppear(opens)
    BY <2>3, ListsViewDidAppearInv
  <2>4. CASE \E t \in Texts, opens, commits \in BOOLEAN : AddListConfirmed(t, opens, commits)
    BY <2>4, AddListConfirmedInv
  <2>5. CASE \E i \in 1..MaxLists : SelectList(i) \/ RedrawListRow(i)
    BY <2>5, SelectListInv, RedrawListRowInv
  <2>6. CASE \E i \in 1..MaxLists, opens, commits \in BOOLEAN :
                CommitDeleteList(i, opens, commits)
    BY <2>6, CommitDeleteListInv
  <2> QED BY <1>1, <2>1, <2>2, <2>3, <2>4, <2>5, <2>6 DEF ListsNext
<1>2. CASE ItemsNext /\ UNCHANGED listsVars
  <2>1. CASE AddItemTapped
    BY <1>2, <2>1, AddItemTappedInv
  <2>2. CASE ItemsEditDoneTapped \/ SwipeItem \/ SwipeItemEnds \/ NameFieldTapped
    BY <1>2, <2>2, ItemsModeInv
  <2>3. CASE BackTapped
    BY <1>2, <2>3, BackTappedInv
  <2>4. CASE \E opens \in BOOLEAN : ItemsViewDidLoad(opens)
    BY <1>2, <2>4, ItemsViewDidLoadInv
  <2>5. CASE \E t \in Texts, opens, commits \in BOOLEAN :
                \/ AddItemConfirmed(t, opens, commits)
                \/ EditItemConfirmed(t, opens, commits)
                \/ TextFieldDidEndEditing(t, opens, commits)
    BY <1>2, <2>5, AddItemConfirmedInv, EditItemConfirmedInv, TextFieldDidEndEditingInv
  <2>6. CASE \E i \in 1..MaxItems : SelectItem(i) \/ RedrawItemRow(i)
    BY <1>2, <2>6, SelectItemInv, RedrawItemRowInv
  <2>7. CASE \E i \in 1..MaxItems, opens, commits \in BOOLEAN :
                CommitDeleteItem(i, opens, commits)
    BY <1>2, <2>7, CommitDeleteItemInv
  <2> QED BY <1>2, <2>1, <2>2, <2>3, <2>4, <2>5, <2>6, <2>7 DEF ItemsNext
<1>3. CASE CancelAlert
  BY <1>3, CancelAlertInv
<1>4. CASE Relaunch
  BY <1>4, RelaunchInv
<1>5. CASE UNCHANGED vars
  <2>1. QuietStep
    BY <1>5 DEF QuietStep, vars, storeVars, shellVars, listsVars, itemsVars, screenVars,
       IInv, TypeOK, ShellTypeOK, ItemsTypeOK, ListsTypeOK
  <2> QED BY <2>1, QuietInv
<1> QED BY <1>1, <1>2, <1>3, <1>4, <1>5 DEF Next

\* IInv is an invariant of the app, whatever is typed, tapped, refused by the
\* file, killed or launched again.
THEOREM Invariance == Spec => []IInv
BY InitInv, NextInv, PTL DEF Spec

-----------------------------------------------------------------------------
(* What follows from it *)

\* The handlers keep every variable in its type: no blank name is stored, no
\* id is used that was not handed out.
THEOREM TypeCorrect == Spec => []TypeOK
<1>1. IInv => TypeOK
  BY DEF IInv
<1> QED BY <1>1, Invariance, PTL

\* The table views always have as many rows as their data sources, so
\* deleteRows never raises and no row leads past the end of the Results.
THEOREM RowsAlwaysMatch == Spec => []RowCountsMatch
<1>1. IInv => RowCountsMatch
  BY DEF IInv
<1> QED BY <1>1, Invariance, PTL

\* Of the faults a handler could meet (a nil Results, an index past its end, a
\* row count UIKit refuses, a deleted object, a nested write) only the nested
\* write happens, and only with a transaction pending that is not in the file.
THEOREM OnlyNestedWriteCrashes == Spec => []CrashOnlyAfterLostCommit
<1>1. IInv => CrashOnlyAfterLostCommit
  BY DEF IInv, OnlyNestedWrites, ReadsAreDurable, CrashOnlyAfterLostCommit
<1> QED BY <1>1, Invariance, PTL

\* What the screens read is the file exactly while no failed transaction is
\* pending.
THEOREM ReadsMatchFile == Spec => []ReadsAreDurable
<1>1. IInv => ReadsAreDurable
  BY DEF IInv
<1> QED BY <1>1, Invariance, PTL

\* "Edit" writes to the item whose name the alert showed.
THEOREM EditHitsItsItem == Spec => []EditHitsCapturedItem
<1>1. IInv => EditHitsCapturedItem
  BY DEF IInv
<1> QED BY <1>1, Invariance, PTL

(***************************************************************************)
(* What the two screens show: the Edit/Done buttons, the rows, the name    *)
(* field, and how rows can come to disagree with the data; and that the    *)
(* app implements ToDoData.  The proofs first say which shapes a step can  *)
(* have, as far as one table is concerned, and then argue by shape.        *)
(***************************************************************************)
-----------------------------------------------------------------------------
(* The shapes of a step *)

\* Changes of editing mode, which keep the rows: the Edit/Done button, a
\* swipe, its end, and the end of a commit handler without a Realm.
ModeStep(old, new) ==
    \/ old.enabled /\ new = EditDoneTapped(old)
    \/ old.rows # << >> /\ new = Swiped(old)
    \/ SwipeIsOpen(old) /\ new = SwipeEnded(old)
    \/ new = EndEditing(old)

ListsIdle ==
    /\ UNCHANGED listsTable
    /\ nav' = "lists" => nav = "lists" /\ UNCHANGED <<current, toDoLists>>
ListsFresh == listsTable' = FreshTable /\ nav' # "lists"
ListsAppear ==
    /\ UNCHANGED current
    /\ toDoLists' = (toDoLists \/ realm')
    /\ realm => realm'
    /\ listsTable' = IF realm' THEN EnableIfAny(ReloadData(listsTable, current.lists),
                                                Len(current.lists))
                     ELSE IF toDoLists THEN EnableIfAny(listsTable, Len(current.lists))
                     ELSE listsTable
ListsMode == nav = "lists" /\ UNCHANGED current /\ ModeStep(listsTable, listsTable')
ListsRedraw ==
    /\ nav = "lists" /\ UNCHANGED current
    /\ \E i \in 1..Len(listsTable.rows) :
          /\ i \in 1..Len(current.lists)
          /\ listsTable' = RedrawRow(listsTable, current.lists, i)
ListsAdd ==
    /\ listsTable' = [ReloadData(listsTable, current'.lists) EXCEPT !.enabled = TRUE]
    /\ Len(current'.lists) = Len(current.lists) + 1
ListsDelete ==
    /\ nav = "lists"
    /\ Len(listsTable.rows) = Len(current.lists)
    /\ \E i \in 1..Len(listsTable.rows) :
          /\ current'.lists = MoveLastOver(current.lists, i)
          /\ listsTable' = DisableIfNone(EndEditing(DeleteRows(listsTable, i)),
                                         Len(current'.lists))

ListsShape ==
    \/ ListsIdle \/ ListsFresh \/ ListsAppear \/ ListsMode \/ ListsRedraw
    \/ ListsAdd \/ ListsDelete

\* Every step has one of the shapes for the table of lists.
LEMMA ListsShapes == ASSUME IInv, [Next]_vars PROVE ListsShape
<1> USE DEF storeVars, shellVars, listsVars, itemsVars, screenVars
<1>0. /\ current \in DB /\ current.lists \in Seq(List) /\ listsTable.rows \in Seq(List)
      /\ toDoLists \in BOOLEAN /\ realm \in BOOLEAN
      /\ Len(listsTable.rows) = IF toDoLists THEN Len(current.lists) ELSE 0
  BY DEF IInv, TypeOK, ShellTypeOK, ListsTypeOK, DB, Tables, RowCountsMatch
<1>1. ASSUME AddListTapped PROVE ListsIdle
  BY <1>1 DEF AddListTapped, ListsIdle, Facing
<1>2. ASSUME ListsEditDoneTapped \/ SwipeList \/ SwipeListEnds PROVE ListsMode
  BY <1>2 DEF ListsEditDoneTapped, SwipeList, SwipeListEnds, Facing, ListsMode, ModeStep
<1>3. ASSUME NEW opens \in BOOLEAN, ListsViewDidAppear(opens) PROVE ListsAppear
  BY <1>0, <1>3 DEF ListsViewDidAppear, AppearedTable, GetRealm, ListsAppear
<1>4. ASSUME NEW t \in Texts, NEW opens \in BOOLEAN, NEW commits \in BOOLEAN,
             AddListConfirmed(t, opens, commits)
      PROVE  ListsIdle \/ ListsAdd
  <2>1. CASE UNCHANGED <<storeVars, listsVars>>
    <3>1. nav = "lists"
      BY <1>4 DEF AddListConfirmed, AlertReady, IInv, ScreensCoherent
    <3> QED BY <2>1, <3>1 DEF ListsIdle
  <2>2. CASE /\ Write([current EXCEPT !.lists = AddRow(@, [listId |-> NewListId, name |-> t])],
                      commits)
             /\ listsTable' = [ReloadData(listsTable, current'.lists) EXCEPT !.enabled = TRUE]
    <3>1. current'.lists = Append(current.lists, [listId |-> NewListId, name |-> t])
      BY <1>0, <2>2 DEF Write, AddRow, DB
    <3>2. Len(current'.lists) = Len(current.lists) + 1
      BY <1>0, <3>1
    <3> QED BY <2>2, <3>2 DEF ListsAdd
  <2> QED BY <1>4, <2>1, <2>2 DEF AddListConfirmed
<1>5. ASSUME NEW i \in 1..MaxLists, SelectList(i) PROVE ListsIdle
  BY <1>5 DEF SelectList, Facing, ListsIdle
<1>6. ASSUME NEW i \in 1..MaxLists, RedrawListRow(i) PROVE ListsRedraw
  <2>1. i \in 1..Len(listsTable.rows) /\ i \in 1..Len(current.lists) /\ toDoLists
    BY <1>0, <1>6 DEF RedrawListRow
  <2>2. RowFault(toDoLists, Len(current.lists), i) = "none"
    BY <1>0, <2>1 DEF RowFault
  <2> QED BY <1>6, <2>1, <2>2 DEF RedrawListRow, ListsRedraw
<1>7. ASSUME NEW i \in 1..MaxLists, NEW opens \in BOOLEAN, NEW commits \in BOOLEAN,
             CommitDeleteList(i, opens, commits)
      PROVE  ListsIdle \/ ListsMode \/ ListsDelete
  <2>1. /\ i \in 1..Len(listsTable.rows) /\ nav = "lists"
        /\ Len(listsTable.rows) = Len(current.lists)
        /\ UNCHANGED <<nav, toDoLists>>
    BY <1>0, <1>7 DEF CommitDeleteList, Facing
  <2>2. CASE UNCHANGED <<storeVars, listsTable>>
    BY <2>1, <2>2 DEF ListsIdle
  <2>3. CASE UNCHANGED storeVars /\ listsTable' = EndEditing(listsTable)
    BY <2>1, <2>3 DEF ListsMode, ModeStep
  <2>4. CASE /\ Write([current EXCEPT !.lists = MoveLastOver(@, i)], commits)
             /\ listsTable' = DisableIfNone(EndEditing(DeleteRows(listsTable, i)),
                                            Len(current'.lists))
    <3>1. current'.lists = MoveLastOver(current.lists, i)
      BY <1>0, <2>4 DEF Write, DB
    <3> QED BY <2>1, <2>4, <3>1 DEF ListsDelete
  <2> QED BY <1>7, <2>2, <2>3, <2>4 DEF CommitDeleteList
<1>8. ASSUME ItemsNext, UNCHANGED listsVars PROVE ListsIdle
  <2>1. nav' # "lists"
    <3>1. ASSUME NEW t \in Texts, NEW opens \in BOOLEAN, NEW commits \in BOOLEAN,
                 \/ AddItemConfirmed(t, opens, commits)
                 \/ EditItemConfirmed(t, opens, commits)
                 \/ TextFieldDidEndEditing(t, opens, commits)
          PROVE  nav' # "lists"
      BY <3>1 DEF AddItemConfirmed, EditItemConfirmed, TextFieldDidEndEditing, AlertReady,
         FieldEnds, IInv, ScreensCoherent
    <3>2. ASSUME NEW i \in 1..MaxItems, SelectItem(i) \/ RedrawItemRow(i)
          PROVE  nav' # "lists"
      BY <3>2 DEF SelectItem, RedrawItemRow, Facing
    <3>3. ASSUME NEW i \in 1..MaxItems, NEW opens \in BOOLEAN, NEW commits \in BOOLEAN,
                 CommitDeleteItem(i, opens, commits)
          PROVE  nav' # "lists"
      BY <3>3 DEF CommitDeleteItem, Facing
    <3>4. ASSUME NEW opens \in BOOLEAN, ItemsViewDidLoad(opens) PROVE nav' # "lists"
      BY <3>4 DEF ItemsViewDidLoad
    <3>5. ASSUME \/ AddItemTapped \/ ItemsEditDoneTapped \/ SwipeItem \/ SwipeItemEnds
                 \/ NameFieldTapped \/ BackTapped
          PROVE  nav' # "lists"
      BY <3>5 DEF AddItemTapped, ItemsEditDoneTapped, SwipeItem, SwipeItemEnds,
         NameFieldTapped, BackTapped, Facing
    <3> QED BY <1>8, <3>1, <3>2, <3>3, <3>4, <3>5 DEF ItemsNext
  <2> QED BY <1>8, <2>1 DEF ListsIdle
<1>9. ASSUME CancelAlert \/ UNCHANGED vars PROVE ListsIdle
  BY <1>9 DEF CancelAlert, AlertCancelled, vars, ListsIdle
<1>10. ASSUME Relaunch PROVE ListsFresh
  BY <1>10 DEF Relaunch, ListsFresh
<1> QED
  BY <1>1, <1>2, <1>3, <1>4, <1>5, <1>6, <1>7, <1>8, <1>9, <1>10
  DEF Next, ListsNext, ListsShape

ItemsIdle ==
    /\ UNCHANGED <<itemsTable, toDoList>> /\ current'.items = current.items
    /\ nav' = "items" => nav = "items"
ItemsFresh ==
    itemsTable' = FreshTable /\ nav' \in {"launching", "lists", "pushing"}
ItemsLoad ==
    /\ UNCHANGED <<current, toDoList>>
    /\ nav = "pushing"
    /\ realm => realm'
    /\ itemsTable' = IF realm' THEN EnableIfAny(ReloadData(FreshTable, ItemResults(current)),
                                                Len(ItemResults(current)))
                               ELSE FreshTable
ItemsMode ==
    /\ nav = "items" /\ UNCHANGED <<current, toDoList>>
    /\ ModeStep(itemsTable, itemsTable')
ItemsRedraw ==
    /\ nav = "items" /\ UNCHANGED <<current, toDoList>>
    /\ \E i \in 1..Len(itemsTable.rows) :
          /\ i \in 1..Len(ItemResults(current))
          /\ itemsTable' = RedrawRow(itemsTable, ItemResults(current), i)
ItemsAdd ==
    /\ nav = "items" /\ UNCHANGED toDoList
    /\ itemsTable' = [ReloadData(itemsTable, Filter(current'.items, toDoList))
                        EXCEPT !.enabled = TRUE]
    /\ Len(Filter(current'.items, toDoList)) > 0
ItemsEdit ==
    /\ nav = "items" /\ UNCHANGED toDoList
    /\ itemsTable' = ReloadData(itemsTable, Filter(current'.items, toDoList))
    /\ Len(itemsTable.rows) > 0
    /\ Len(Filter(current'.items, toDoList)) > 0
ItemsDelete ==
    /\ nav = "items" /\ UNCHANGED toDoList
    /\ Len(itemsTable.rows) = Len(ItemResults(current))
    /\ \E i \in 1..Len(itemsTable.rows) :
          /\ current'.items = MoveLastOver(current.items, ItemSlot(i))
          /\ itemsTable' = DisableIfNone(EndEditing(DeleteRows(itemsTable, i)),
                                         Len(Filter(current'.items, toDoList)))

ItemsShape ==
    \/ ItemsIdle \/ ItemsFresh \/ ItemsLoad \/ ItemsMode \/ ItemsRedraw
    \/ ItemsAdd \/ ItemsEdit \/ ItemsDelete

\* A query with a matching row has a result.
LEMMA SomeMatch ==
    ASSUME NEW Obj, NEW s \in Seq(Obj), NEW l, NEW k \in 1..Len(s), s[k].listId = l
    PROVE  Len(Filter(s, l)) > 0
<1>1. k \in Matches(s, l) /\ IsFiniteSet(Matches(s, l)) /\ Cardinality(Matches(s, l)) \in Nat
  BY MatchesFinite DEF Matches
<1>2. Cardinality(Matches(s, l)) # 0
  BY <1>1, FS_EmptySet
<1> QED BY <1>1, <1>2, FilterProperties

\* Every step has one of the shapes for the table of items.
LEMMA ItemsShapes == ASSUME IInv, [Next]_vars PROVE ItemsShape
<1> USE DEF storeVars, shellVars, listsVars, itemsVars, screenVars
<1>0. /\ current \in DB /\ current.items \in Seq(Item) /\ itemsTable.rows \in Seq(Item)
      /\ toDoListItems \in BOOLEAN /\ realm \in BOOLEAN
      /\ nav \in Screens
  BY DEF IInv, TypeOK, ShellTypeOK, ItemsTypeOK, DB, Tables
<1>1. ASSUME AddListTapped \/ ListsEditDoneTapped \/ SwipeList \/ SwipeListEnds
      PROVE  ItemsIdle
  BY <1>1 DEF AddListTapped, ListsEditDoneTapped, SwipeList, SwipeListEnds, ItemsIdle
<1>2. ASSUME NEW opens \in BOOLEAN, ListsViewDidAppear(opens) PROVE ItemsFresh
  BY <1>2 DEF ListsViewDidAppear, ItemsFresh
<1>3. ASSUME NEW t \in Texts, NEW opens \in BOOLEAN, NEW commits \in BOOLEAN,
             AddListConfirmed(t, opens, commits)
      PROVE  ItemsIdle
  BY <1>0, <1>3 DEF AddListConfirmed, Write, DB, ItemsIdle
<1>4. ASSUME NEW i \in 1..MaxLists, SelectList(i) PROVE ItemsIdle \/ ItemsFresh
  <2>1. itemsTable = FreshTable
    BY <1>4 DEF SelectList, Facing, IInv, ScreensCoherent
  <2> QED BY <1>4, <2>1 DEF SelectList, Facing, ItemsIdle, ItemsFresh
<1>5. ASSUME NEW i \in 1..MaxLists, RedrawListRow(i) PROVE ItemsIdle
  BY <1>5 DEF RedrawListRow, ItemsIdle
<1>6. ASSUME NEW i \in 1..MaxLists, NEW opens \in BOOLEAN, NEW commits \in BOOLEAN,
             CommitDeleteList(i, opens, commits)
      PROVE  ItemsIdle
  BY <1>0, <1>6 DEF CommitDeleteList, Write, DB, ItemsIdle
<1>7. ASSUME AddItemTapped \/ NameFieldTapped \/ BackTapped PROVE ItemsIdle
  BY <1>7 DEF AddItemTapped, NameFieldTapped, BackTapped, Facing, ItemsIdle
<1>8. ASSUME ItemsEditDoneTapped \/ SwipeItem \/ SwipeItemEnds PROVE ItemsMode
  BY <1>8 DEF ItemsEditDoneTapped, SwipeItem, SwipeItemEnds, Facing, ItemsMode, ModeStep
<1>9. ASSUME NEW opens \in BOOLEAN, ItemsViewDidLoad(opens) PROVE ItemsLoad
  <2>1. ListStored
    BY <1>9 DEF ItemsViewDidLoad, IInv, OpenListStored
  <2> QED BY <1>0, <1>9, <2>1 DEF ItemsViewDidLoad, GetRealm, ItemsLoad
<1>10. ASSUME NEW t \in Texts, NEW opens \in BOOLEAN, NEW commits \in BOOLEAN,
              AddItemConfirmed(t, opens, commits)
       PROVE  ItemsIdle \/ ItemsAdd
  <2>1. nav = "items" /\ nav' = nav
    BY <1>10 DEF AddItemConfirmed, AlertReady, IInv, ScreensCoherent
  <2>2. CASE UNCHANGED <<current, itemsTable, toDoList>>
    BY <2>1, <2>2 DEF ItemsIdle
  <2>3. CASE /\ current' = [current EXCEPT !.items =
                       AddRow(@, [oid |-> nextItem, listId |-> toDoList, name |-> t])]
             /\ itemsTable' = [ReloadData(itemsTable, Filter(current'.items, toDoList))
                                 EXCEPT !.enabled = TRUE]
             /\ UNCHANGED toDoList
    <3> DEFINE x == [oid |-> nextItem, listId |-> toDoList, name |-> t]
               n == Len(current.items) + 1
    <3>1. current'.items = Append(current.items, x)
      BY <1>0, <2>3 DEF AddRow, DB
    <3>2. /\ current'.items \in Seq(Item \cup {x}) /\ n \in 1..Len(current'.items)
          /\ current'.items[n] = x
      <4> HIDE DEF x
      <4>1. current.items \in Seq(Item \cup {x})
        BY <1>0
      <4> QED BY <3>1, <4>1
    <3>3. current'.items[n].listId = toDoList
      BY <3>2
    <3>4. Len(Filter(current'.items, toDoList)) > 0
      <4> HIDE DEF x, n
      <4> QED BY <3>2, <3>3, SomeMatch
    <3> QED BY <2>1, <2>3, <3>4 DEF ItemsAdd
  <2> QED BY <1>10, <2>2, <2>3 DEF AddItemConfirmed, ItemsReturn, ItemsCrash, Write
<1>11. ASSUME NEW t \in Texts, NEW opens \in BOOLEAN, NEW commits \in BOOLEAN,
              EditItemConfirmed(t, opens, commits)
       PROVE  ItemsIdle \/ ItemsEdit
  <2>1. nav = "items" /\ nav' = nav /\ alert.kind = "editItem" /\ toDoListItems
    BY <1>11 DEF EditItemConfirmed, AlertReady, IInv, ScreensCoherent
  <2>2. CASE UNCHANGED <<current, itemsTable, toDoList>>
    BY <2>1, <2>2 DEF ItemsIdle
  <2>3. CASE /\ current' = [current EXCEPT !.items[ItemSlot(alert.row)].name = t]
             /\ itemsTable' = ReloadData(itemsTable, Filter(current'.items, toDoList))
             /\ UNCHANGED toDoList
             /\ ~EditReturns(t, opens)
    <3> DEFINE k == ItemSlot(alert.row)
    <3>1. /\ alert.row \in 1..Len(ItemResults(current))
          /\ k \in 1..Len(current.items) /\ current.items[k].listId = toDoList
          /\ CapturedStored /\ CapturedName = current.items[k].name
      BY <2>1, CapturedFacts, ItemResultsFacts
      DEF IInv, EditHitsCapturedItem, Matches
    <3>2. Len(itemsTable.rows) > 0
      BY <2>1, <3>1, ItemResultsFacts DEF IInv, RowCountsMatch
    <3>3. t \in Names /\ t # current.items[k].name
      BY <2>3, <3>1 DEF EditReturns, Texts, Accepts
    <3> HIDE DEF k
    <3>4. /\ current' \in DB /\ Len(current'.items) = Len(current.items)
          /\ \A i \in 1..Len(current'.items) : current'.items[i].listId = current.items[i].listId
      <4>1. current' = [current EXCEPT !.items[k].name = t]
        BY <2>3 DEF k
      <4> QED BY <1>0, <3>1, <3>3, <4>1, EditItemDB
    <3>5. Len(Filter(current'.items, toDoList)) > 0
      <4>1. current'.items \in Seq(Item) /\ k \in 1..Len(current'.items)
            /\ current'.items[k].listId = toDoList
        BY <3>1, <3>4 DEF DB
      <4> QED BY <4>1, SomeMatch
    <3> QED BY <2>1, <2>3, <3>2, <3>5 DEF ItemsEdit
  <2> QED BY <1>11, <2>2, <2>3 DEF EditItemConfirmed, ItemsReturn, ItemsCrash, Write
<1>12. ASSUME NEW t \in Texts, NEW opens \in BOOLEAN, NEW commits \in BOOLEAN,
              TextFieldDidEndEditing(t, opens, commits)
       PROVE  ItemsIdle
  BY <1>0, <1>12 DEF TextFieldDidEndEditing, Write, DB, ItemsIdle
<1>13. ASSUME NEW i \in 1..MaxItems, SelectItem(i) PROVE ItemsIdle
  BY <1>13 DEF SelectItem, ItemsIdle
<1>14. ASSUME NEW i \in 1..MaxItems, RedrawItemRow(i) PROVE ItemsRedraw
  <2>1. /\ i \in 1..Len(itemsTable.rows) /\ i \in 1..Len(ItemResults(current))
        /\ RowFault(toDoListItems, Len(ItemResults(current)), i) = "none"
    BY <1>14, ShownItemRow DEF RedrawItemRow
  <2> QED BY <1>14, <2>1 DEF RedrawItemRow, ItemsRedraw
<1>15. ASSUME NEW i \in 1..MaxItems, NEW opens \in BOOLEAN, NEW commits \in BOOLEAN,
              CommitDeleteItem(i, opens, commits)
       PROVE  ItemsIdle \/ ItemsMode \/ ItemsDelete
  <2>1. /\ i \in 1..Len(itemsTable.rows) /\ nav = "items" /\ UNCHANGED <<nav, toDoList>>
        /\ Len(itemsTable.rows) = Len(ItemResults(current))
    BY <1>15, ShownItemRow DEF CommitDeleteItem, Facing
  <2>2. CASE UNCHANGED <<storeVars, itemsTable>>
    BY <2>1, <2>2 DEF ItemsIdle
  <2>3. CASE UNCHANGED storeVars /\ itemsTable' = EndEditing(itemsTable)
    BY <2>1, <2>3 DEF ItemsMode, ModeStep
  <2>4. CASE /\ Write([current EXCEPT !.items = MoveLastOver(@, ItemSlot(i))], commits)
             /\ itemsTable' = DisableIfNone(EndEditing(DeleteRows(itemsTable, i)),
                                            Len(Filter(current'.items, toDoList)))
    <3>1. current'.items = MoveLastOver(current.items, ItemSlot(i))
      BY <1>0, <2>4 DEF Write, DB
    <3> QED BY <2>1, <2>4, <3>1 DEF ItemsDelete
  <2> QED BY <1>15, <2>2, <2>3, <2>4 DEF CommitDeleteItem
<1>16. ASSUME CancelAlert \/ UNCHANGED vars PROVE ItemsIdle
  BY <1>16 DEF CancelAlert, AlertCancelled, vars, ItemsIdle
<1>17. ASSUME Relaunch PROVE ItemsFresh
  BY <1>17 DEF Relaunch, ItemsFresh
<1>18. ListsNext => ItemsShape
  BY <1>1, <1>2, <1>3, <1>4, <1>5, <1>6 DEF ListsNext, ItemsShape
<1>19. ItemsNext => ItemsShape
  BY <1>7, <1>8, <1>9, <1>10, <1>11, <1>12, <1>13, <1>14, <1>15 DEF ItemsNext, ItemsShape
<1> QED BY <1>16, <1>17, <1>18, <1>19 DEF Next, ItemsShape

-----------------------------------------------------------------------------
(* The Edit/Done buttons *)

\* A sequence is empty when its length is zero.
LEMMA EmptyIff ==
    ASSUME NEW S, NEW s \in Seq(S)
    PROVE  s = << >> <=> Len(s) = 0
OBVIOUS

\* Operators on a table that keep its button coherent.
LEMMA ModeKeepsButton ==
    ASSUME NEW Obj, NEW old \in Tables(Obj), NEW new, ModeStep(old, new), ButtonCoherent(old)
    PROVE  ButtonCoherent(new) /\ new.rows = old.rows
BY DEF ModeStep, ButtonCoherent, Tables, EditDoneTapped, Swiped, SwipeEnded, SwipeIsOpen,
   EndEditing

LEMMA RedrawKeepsButton ==
    ASSUME NEW Obj, NEW table \in Tables(Obj), NEW s \in Seq(Obj),
           NEW i \in 1..Len(table.rows), i \in 1..Len(s), ButtonCoherent(table)
    PROVE  ButtonCoherent(RedrawRow(table, s, i))
<1>1. table.rows \in Seq(Obj) /\ RedrawRow(table, s, i).rows \in Seq(Obj)
      /\ Len(RedrawRow(table, s, i).rows) = Len(table.rows)
  BY TableRowTypes DEF Tables
<1>2. table.rows # << >> /\ RedrawRow(table, s, i).rows # << >>
  BY <1>1, EmptyIff
<1>3. /\ RedrawRow(table, s, i).editing = table.editing
      /\ RedrawRow(table, s, i).title = table.title
      /\ RedrawRow(table, s, i).enabled = table.enabled
  BY DEF RedrawRow, Tables
<1> QED BY <1>2, <1>3 DEF ButtonCoherent

LEMMA DeleteKeepsButton ==
    ASSUME NEW Obj, NEW table \in Tables(Obj), NEW i \in 1..Len(table.rows),
           NEW n, n = Len(table.rows) - 1, ButtonCoherent(table)
    PROVE  ButtonCoherent(DisableIfNone(EndEditing(DeleteRows(table, i)), n))
<1> DEFINE new == DisableIfNone(EndEditing(DeleteRows(table, i)), n)
<1>1. table.rows \in Seq(Obj) /\ RemoveRow(table.rows, i) \in Seq(Obj)
      /\ Len(RemoveRow(table.rows, i)) = n
  BY RemoveRowProperties DEF Tables
<1>2. /\ new.rows = RemoveRow(table.rows, i) /\ new.editing = FALSE /\ new.title = "Edit"
      /\ new.enabled = (table.enabled /\ n # 0)
  BY DEF DisableIfNone, EndEditing, DeleteRows, Tables
<1>3. table.enabled
  BY <1>1, EmptyIff DEF ButtonCoherent
<1>4. new.rows # << >> <=> n # 0
  BY <1>1, <1>2, EmptyIff
<1> QED BY <1>2, <1>3, <1>4 DEF ButtonCoherent

\* Reloading a table whose button says at most what the results say.
LEMMA ReloadKeepsButton ==
    ASSUME NEW Obj, NEW table \in Tables(Obj), NEW s \in Seq(Obj), ButtonCoherent(table)
    PROVE  /\ (table.enabled => Len(s) > 0)
              => ButtonCoherent(EnableIfAny(ReloadData(table, s), Len(s)))
           /\ Len(s) > 0 => ButtonCoherent([ReloadData(table, s) EXCEPT !.enabled = TRUE])
           /\ table.enabled /\ Len(s) > 0 => ButtonCoherent(ReloadData(table, s))
<1>1. Len(s) \in Nat /\ (s # << >> <=> Len(s) > 0)
  BY EmptyIff
<1>2. (table.enabled => Len(s) > 0) => ButtonCoherent(EnableIfAny(ReloadData(table, s), Len(s)))
  BY <1>1 DEF ButtonCoherent, EnableIfAny, ReloadData, Tables
<1>3. /\ Len(s) > 0 => ButtonCoherent([ReloadData(table, s) EXCEPT !.enabled = TRUE])
      /\ table.enabled /\ Len(s) > 0 => ButtonCoherent(ReloadData(table, s))
  BY <1>1 DEF ButtonCoherent, ReloadData, Tables
<1> QED BY <1>2, <1>3

LEMMA FreshButton == ButtonCoherent(FreshTable)
BY DEF ButtonCoherent, FreshTable

\* The button of the root screen.
LEMMA ListsButtonInv ==
    ASSUME IInv, [Next]_vars, ButtonCoherent(listsTable)
    PROVE  ButtonCoherent(listsTable')
<1>1. IInv' /\ ListsShape
  BY NextInv, ListsShapes
<1>2. /\ listsTable \in Tables(List) /\ listsTable.rows \in Seq(List)
      /\ current.lists \in Seq(List) /\ current'.lists \in Seq(List)
      /\ toDoLists \in BOOLEAN
      /\ Len(listsTable.rows) = IF toDoLists THEN Len(current.lists) ELSE 0
  BY <1>1 DEF IInv, TypeOK, ShellTypeOK, ListsTypeOK, DB, Tables, RowCountsMatch
<1>3. listsTable.enabled => toDoLists /\ Len(listsTable.rows) > 0
  BY <1>2, EmptyIff DEF ButtonCoherent
<1>4. CASE ListsIdle \/ ListsFresh
  BY <1>4, FreshButton DEF ListsIdle, ListsFresh
<1>5. CASE ListsAppear
  <2>1. CASE realm'
    <3>1. listsTable.enabled => Len(current.lists) > 0
      BY <1>2, <1>3
    <3> QED BY <1>2, <1>5, <2>1, <3>1, ReloadKeepsButton DEF ListsAppear
  <2>2. CASE ~realm' /\ toDoLists
    <3>1. listsTable.rows # << >> <=> Len(current.lists) > 0
      BY <1>2, <2>2, EmptyIff
    <3>2. listsTable' = EnableIfAny(listsTable, Len(current.lists))
      BY <1>5, <2>2 DEF ListsAppear
    <3> QED BY <1>2, <3>1, <3>2 DEF ButtonCoherent, EnableIfAny, Tables
  <2>3. CASE ~realm' /\ ~toDoLists
    BY <1>5, <2>3 DEF ListsAppear
  <2> QED BY <2>1, <2>2, <2>3
<1>6. CASE ListsMode
  BY <1>2, <1>6, ModeKeepsButton DEF ListsMode
<1>7. CASE ListsRedraw
  BY <1>2, <1>7, RedrawKeepsButton DEF ListsRedraw
<1>8. CASE ListsAdd
  <2>1. Len(current'.lists) > 0
    BY <1>2, <1>8 DEF ListsAdd
  <2> QED BY <1>2, <1>8, <2>1, ReloadKeepsButton DEF ListsAdd
<1>9. CASE ListsDelete
  <2>1. PICK i \in 1..Len(listsTable.rows) :
           /\ current'.lists = MoveLastOver(current.lists, i)
           /\ listsTable' = DisableIfNone(EndEditing(DeleteRows(listsTable, i)),
                                          Len(current'.lists))
    BY <1>9 DEF ListsDelete
  <2>2. Len(current'.lists) = Len(listsTable.rows) - 1
    BY <1>2, <1>9, <2>1, MoveLastOverProperties DEF ListsDelete
  <2> QED BY <1>2, <2>1, <2>2, DeleteKeepsButton
<1> QED BY <1>1, <1>4, <1>5, <1>6, <1>7, <1>8, <1>9 DEF ListsShape

\* The button of the items screen.
LEMMA ItemsButtonInv ==
    ASSUME IInv, [Next]_vars, ButtonCoherent(itemsTable)
    PROVE  ButtonCoherent(itemsTable')
<1>1. IInv' /\ ItemsShape
  BY NextInv, ItemsShapes
<1>2. /\ itemsTable \in Tables(Item) /\ itemsTable.rows \in Seq(Item)
      /\ current.items \in Seq(Item) /\ current'.items \in Seq(Item)
      /\ ItemResults(current) \in Seq(Item)
      /\ Filter(current'.items, toDoList) \in Seq(Item)
  <2>1. current.items \in Seq(Item) /\ current'.items \in Seq(Item) /\ itemsTable \in Tables(Item)
    BY <1>1 DEF IInv, TypeOK, ShellTypeOK, ItemsTypeOK, DB
  <2> QED BY <2>1, FilterProperties DEF ItemResults, Tables
<1>3. itemsTable.enabled <=> Len(itemsTable.rows) > 0
  BY <1>2, EmptyIff DEF ButtonCoherent
<1>4. CASE ItemsIdle \/ ItemsFresh
  BY <1>4, FreshButton DEF ItemsIdle, ItemsFresh
<1>5. CASE ItemsLoad
  <2>1. FreshTable \in Tables(Item) /\ ~FreshTable.enabled
    BY FreshTableType DEF FreshTable
  <2> QED BY <1>2, <1>5, <2>1, FreshButton, ReloadKeepsButton DEF ItemsLoad
<1>6. CASE ItemsMode
  BY <1>2, <1>6, ModeKeepsButton DEF ItemsMode
<1>7. CASE ItemsRedraw
  BY <1>2, <1>7, RedrawKeepsButton DEF ItemsRedraw
<1>8. CASE ItemsAdd
  BY <1>2, <1>8, ReloadKeepsButton DEF ItemsAdd
<1>9. CASE ItemsEdit
  BY <1>2, <1>3, <1>9, ReloadKeepsButton DEF ItemsEdit
<1>10. CASE ItemsDelete
  <2>1. PICK i \in 1..Len(itemsTable.rows) :
           /\ current'.items = MoveLastOver(current.items, ItemSlot(i))
           /\ itemsTable' = DisableIfNone(EndEditing(DeleteRows(itemsTable, i)),
                                          Len(Filter(current'.items, toDoList)))
    BY <1>10 DEF ItemsDelete
  <2>2. /\ ItemSlot(i) \in Matches(current.items, toDoList)
        /\ Len(itemsTable.rows) = Cardinality(Matches(current.items, toDoList))
    BY <1>10, ItemResultsFacts DEF ItemsDelete
  <2>3. Len(Filter(current'.items, toDoList)) = Len(itemsTable.rows) - 1
    <3>1. Len(Filter(current'.items, toDoList)) = Cardinality(Matches(current'.items, toDoList))
      BY <1>2, FilterProperties
    <3> QED BY <1>2, <2>1, <2>2, <3>1, DeleteShrinksMatches
  <2> QED BY <1>2, <2>1, <2>3, DeleteKeepsButton
<1> QED BY <1>1, <1>4, <1>5, <1>6, <1>7, <1>8, <1>9, <1>10 DEF ItemsShape

\* "Done" is shown only while a table is in editing mode, and the button of a
\* table is enabled exactly while it has rows, through swipes, additions,
\* failed writes and deletions of the last row.
THEOREM ButtonsCoherent == Spec => []EditButtonCoherent
<1>1. Init => EditButtonCoherent
  BY FreshButton DEF Init, EditButtonCoherent
<1>2. IInv /\ EditButtonCoherent /\ [Next]_vars => EditButtonCoherent'
  BY ListsButtonInv, ItemsButtonInv DEF EditButtonCoherent
<1> QED BY <1>1, <1>2, Invariance, PTL DEF Spec

-----------------------------------------------------------------------------
(* The items screen shows its list *)

OwnItems == \A i \in DOMAIN itemsTable.rows : itemsTable.rows[i].listId = toDoList

LEMMA OwnItemsInv == ASSUME IInv, [Next]_vars, OwnItems PROVE OwnItems'
<1>1. IInv' /\ ItemsShape
  BY NextInv, ItemsShapes
<1>2. /\ itemsTable \in Tables(Item) /\ itemsTable.rows \in Seq(Item)
      /\ current.items \in Seq(Item) /\ current'.items \in Seq(Item)
  BY <1>1 DEF IInv, TypeOK, ShellTypeOK, ItemsTypeOK, DB, Tables
<1>3. /\ ItemResults(current) \in Seq(Item)
      /\ \A i \in 1..Len(ItemResults(current)) : ItemResults(current)[i].listId = toDoList
  BY <1>2, FilterProperties DEF ItemResults
<1>4. /\ Filter(current'.items, toDoList) \in Seq(Item)
      /\ \A i \in 1..Len(Filter(current'.items, toDoList)) :
            Filter(current'.items, toDoList)[i].listId = toDoList
  BY <1>2, FilterProperties
<1>5. CASE ItemsIdle
  BY <1>5 DEF ItemsIdle, OwnItems
<1>6. ASSUME itemsTable' = FreshTable PROVE OwnItems'
  BY <1>6 DEF FreshTable, OwnItems
<1>7. ASSUME NEW s \in Seq(Item), itemsTable'.rows = s, toDoList' = toDoList,
             \A i \in 1..Len(s) : s[i].listId = toDoList
      PROVE  OwnItems'
  BY <1>7 DEF OwnItems
<1>8. CASE ItemsLoad
  <2>1. CASE realm'
    <3>1. itemsTable'.rows = ItemResults(current)
      BY <1>8, <2>1 DEF ItemsLoad, EnableIfAny, ReloadData, FreshTable
    <3> QED BY <1>3, <1>7, <1>8, <3>1 DEF ItemsLoad
  <2>2. CASE ~realm'
    BY <1>6, <1>8, <2>2 DEF ItemsLoad
  <2> QED BY <2>1, <2>2
<1>9. CASE ItemsMode
  <2>1. itemsTable'.rows = itemsTable.rows
    BY <1>2, <1>9 DEF ItemsMode, ModeStep, Tables, EditDoneTapped, Swiped, SwipeEnded, EndEditing
  <2> QED BY <1>9, <2>1 DEF ItemsMode, OwnItems
<1>10. CASE ItemsRedraw
  <2>1. PICK i \in 1..Len(itemsTable.rows) :
           /\ i \in 1..Len(ItemResults(current))
           /\ itemsTable' = RedrawRow(itemsTable, ItemResults(current), i)
    BY <1>10 DEF ItemsRedraw
  <2>2. itemsTable'.rows = [itemsTable.rows EXCEPT ![i] = ItemResults(current)[i]]
    BY <1>2, <2>1 DEF RedrawRow, Tables
  <2> QED BY <1>2, <1>3, <1>10, <2>1, <2>2 DEF ItemsRedraw, OwnItems
<1>11. CASE ItemsAdd \/ ItemsEdit
  <2>1. itemsTable'.rows = Filter(current'.items, toDoList) /\ toDoList' = toDoList
    BY <1>2, <1>11 DEF ItemsAdd, ItemsEdit, ReloadData, Tables
  <2> QED BY <1>4, <1>7, <2>1
<1>12. CASE ItemsDelete
  <2>1. PICK i \in 1..Len(itemsTable.rows) :
           itemsTable' = DisableIfNone(EndEditing(DeleteRows(itemsTable, i)),
                                       Len(Filter(current'.items, toDoList)))
    BY <1>12 DEF ItemsDelete
  <2>2. itemsTable'.rows = RemoveRow(itemsTable.rows, i)
    BY <1>2, <2>1 DEF DisableIfNone, EndEditing, DeleteRows, Tables
  <2>3. /\ RemoveRow(itemsTable.rows, i) \in Seq(Item)
        /\ \A j \in 1..Len(RemoveRow(itemsTable.rows, i)) :
              RemoveRow(itemsTable.rows, i)[j].listId = toDoList
    <3>1. /\ RemoveRow(itemsTable.rows, i) \in Seq(Item)
          /\ Len(RemoveRow(itemsTable.rows, i)) = Len(itemsTable.rows) - 1
          /\ \A j \in 1..(Len(itemsTable.rows) - 1) :
                RemoveRow(itemsTable.rows, i)[j] =
                   IF j < i THEN itemsTable.rows[j] ELSE itemsTable.rows[j + 1]
      BY <1>2, RemoveRowProperties
    <3>2. \A j \in 1..Len(itemsTable.rows) : itemsTable.rows[j].listId = toDoList
      BY <1>2 DEF OwnItems
    <3> QED BY <1>2, <3>1, <3>2, SMTT(60)
  <2> QED BY <1>7, <1>12, <2>2, <2>3 DEF ItemsDelete
<1> QED
  BY <1>1, <1>5, <1>6, <1>8, <1>9, <1>10, <1>11, <1>12 DEF ItemsShape, ItemsFresh

\* The items screen is never open on a list that is not stored, and none of
\* its rows shows an item of another list, not even one a deleted list left.
THEOREM OnlyOwnItems == Spec => []ShowsOwnItems
<1>1. Init => OwnItems
  BY DEF Init, OwnItems, FreshTable
<1>2. IInv /\ OwnItems /\ [Next]_vars => OwnItems'
  BY OwnItemsInv
<1>3. IInv /\ OwnItems => ShowsOwnItems
  BY DEF IInv, OwnItems, ShowsOwnItems
<1> QED BY <1>1, <1>2, <1>3, Invariance, PTL DEF Spec

-----------------------------------------------------------------------------
(* The name field *)

\* The open list is at one place: a row that holds it is ListSlot.
LEMMA SlotUnique ==
    ASSUME IInv, NEW k \in 1..Len(current.lists), current.lists[k].listId = toDoList
    PROVE  ListSlot = k /\ ListName = current.lists[k].name
<1>1. \A j \in 1..Len(current.lists) : current.lists[j].listId = toDoList => j = k
  BY DEF IInv, StoredOnce, UniqueIds
<1>2. ListSlot = k
  BY <1>1 DEF ListSlot
<1> QED BY <1>2 DEF ListName

LEMMA SlotUniqueNext ==
    ASSUME IInv', NEW k \in 1..Len(current'.lists), current'.lists[k].listId = toDoList'
    PROVE  ListName' = current'.lists[k].name
<1>1. \A j \in 1..Len(current'.lists) : current'.lists[j].listId = toDoList' => j = k
  BY DEF IInv, StoredOnce, UniqueIds
<1>2. ListSlot' = k
  BY <1>1 DEF ListSlot
<1> QED BY <1>2 DEF ListName

\* What a step leaves the name field with.
LEMMA NameFieldInv ==
    ASSUME IInv, [Next]_vars, NameFieldShowsStored
    PROVE  NameFieldShowsStored'
<1> USE DEF storeVars, shellVars, listsVars, itemsVars, screenVars
<1>0. /\ current \in DB /\ nav \in Screens /\ IInv'
      /\ nameField \in [text : Names \cup {Empty}, editing : BOOLEAN]
  BY NextInv DEF IInv, TypeOK, ShellTypeOK, ItemsTypeOK
<1>a. ASSUME nav' \notin {"items", "popping"} PROVE NameFieldShowsStored'
  BY <1>a DEF NameFieldShowsStored
<1>b. ASSUME nav \in {"items", "popping"}, UNCHANGED <<nameField, toDoList>>,
             current'.lists = current.lists
      PROVE  NameFieldShowsStored'
  BY <1>b DEF NameFieldShowsStored, ListName, ListSlot
<1>1. ASSUME ListsNext PROVE nav' \notin {"items", "popping"}
  <2>1. ASSUME NEW t \in Texts, NEW opens \in BOOLEAN, NEW commits \in BOOLEAN,
               AddListConfirmed(t, opens, commits)
        PROVE  nav' \notin {"items", "popping"}
    BY <2>1 DEF AddListConfirmed, AlertReady, IInv, ScreensCoherent
  <2>2. ASSUME NEW opens \in BOOLEAN, ListsViewDidAppear(opens)
        PROVE  nav' \notin {"items", "popping"}
    BY <2>2 DEF ListsViewDidAppear
  <2>3. ASSUME NEW i \in 1..MaxLists, SelectList(i) \/ RedrawListRow(i)
        PROVE  nav' \notin {"items", "popping"}
    BY <2>3 DEF SelectList, RedrawListRow, Facing
  <2>4. ASSUME NEW i \in 1..MaxLists, NEW opens \in BOOLEAN, NEW commits \in BOOLEAN,
               CommitDeleteList(i, opens, commits)
        PROVE  nav' \notin {"items", "popping"}
    BY <2>4 DEF CommitDeleteList, Facing
  <2>5. ASSUME AddListTapped \/ ListsEditDoneTapped \/ SwipeList \/ SwipeListEnds
        PROVE  nav' \notin {"items", "popping"}
    BY <2>5 DEF AddListTapped, ListsEditDoneTapped, SwipeList, SwipeListEnds, Facing
  <2> QED BY <1>1, <2>1, <2>2, <2>3, <2>4, <2>5 DEF ListsNext
<1>2. ASSUME \/ AddItemTapped \/ ItemsEditDoneTapped \/ SwipeItem \/ SwipeItemEnds
             \/ BackTapped
      PROVE  NameFieldShowsStored'
  BY <1>b, <1>2 DEF AddItemTapped, ItemsEditDoneTapped, SwipeItem, SwipeItemEnds,
     BackTapped, Facing
<1>3. ASSUME NameFieldTapped PROVE NameFieldShowsStored'
  BY <1>0, <1>3 DEF NameFieldTapped, NameFieldShowsStored
<1>4. ASSUME NEW opens \in BOOLEAN, ItemsViewDidLoad(opens) PROVE NameFieldShowsStored'
  <2>1. nameField' = [text |-> ListName, editing |-> FALSE] /\ UNCHANGED <<current, toDoList>>
    BY <1>4 DEF ItemsViewDidLoad, IInv, OpenListStored
  <2> QED BY <2>1 DEF NameFieldShowsStored, ListName, ListSlot
<1>5. ASSUME NEW t \in Texts, NEW opens \in BOOLEAN, NEW commits \in BOOLEAN,
             AddItemConfirmed(t, opens, commits) \/ EditItemConfirmed(t, opens, commits)
      PROVE  NameFieldShowsStored'
  <2>1. nav = "items" /\ UNCHANGED <<nameField, toDoList>>
    BY <1>5 DEF AddItemConfirmed, EditItemConfirmed, AlertReady, IInv, ScreensCoherent,
       ItemsReturn, ItemsCrash
  <2>2. current'.lists = current.lists
    BY <1>0, <1>5 DEF AddItemConfirmed, EditItemConfirmed, ItemsReturn, ItemsCrash, Write, DB
  <2> QED BY <1>b, <2>1, <2>2
<1>6. ASSUME NEW t \in Texts, NEW opens \in BOOLEAN, NEW commits \in BOOLEAN,
             TextFieldDidEndEditing(t, opens, commits), UNCHANGED listsVars
      PROVE  NameFieldShowsStored'
  <2>1. nameField.editing /\ nav \in {"items", "popping"} /\ UNCHANGED <<nav, toDoList>>
    BY <1>0, <1>6 DEF TextFieldDidEndEditing, FieldEnds, IInv, ScreensCoherent, Screens
  <2>2. ListStored
    BY <2>1 DEF IInv, OpenListStored
  <2>3. /\ ListSlot \in 1..Len(current.lists) /\ current.lists[ListSlot].listId = toDoList
        /\ ListName \in Names
    BY <2>2, OpenListFacts
  <2>4. CASE nameField' = [text |-> RevertedText(t), editing |-> FALSE] /\ UNCHANGED current
    BY <2>1, <2>4 DEF RevertedText, NameFieldShowsStored, ListName, ListSlot
  <2>5. CASE UNCHANGED <<nameField, current>>
    BY <1>b, <2>1, <2>5
  <2>6. CASE /\ current' = [current EXCEPT !.lists[ListSlot].name = t]
             /\ nameField' = [text |-> current'.lists[ListSlot].name, editing |-> FALSE]
             /\ Accepts(t) /\ t # ListName
    <3> DEFINE k == ListSlot
    <3>1. k \in 1..Len(current.lists) /\ current.lists[k].listId = toDoList
          /\ t \in Names /\ t # current.lists[k].name
      BY <2>3, <2>6 DEF Texts, Accepts, ListName
    <3>2. current' = [current EXCEPT !.lists[k].name = t]
          /\ nameField'.text = current'.lists[k].name
      BY <2>6
    <3> HIDE DEF k
    <3>3. /\ Len(current'.lists) = Len(current.lists)
          /\ current'.lists[k].listId = current.lists[k].listId
      BY <1>0, <3>1, <3>2, RenameListDB
    <3>4. ListName' = current'.lists[k].name
      BY <1>0, <2>1, <3>1, <3>3, SlotUniqueNext
    <3> QED BY <3>2, <3>4 DEF NameFieldShowsStored
  <2> QED BY <1>6, <2>2, <2>4, <2>5, <2>6 DEF TextFieldDidEndEditing, Write
<1>7. ASSUME NEW i \in 1..MaxItems, SelectItem(i) \/ RedrawItemRow(i)
      PROVE  NameFieldShowsStored'
  BY <1>b, <1>7 DEF SelectItem, RedrawItemRow, Facing
<1>8. ASSUME NEW i \in 1..MaxItems, NEW opens \in BOOLEAN, NEW commits \in BOOLEAN,
             CommitDeleteItem(i, opens, commits)
      PROVE  NameFieldShowsStored'
  <2>1. nav = "items" /\ UNCHANGED <<nameField, toDoList>>
    BY <1>8 DEF CommitDeleteItem, Facing
  <2>2. current'.lists = current.lists
    BY <1>0, <1>8 DEF CommitDeleteItem, Write, DB
  <2> QED BY <1>b, <2>1, <2>2
<1>9. ASSUME CancelAlert \/ UNCHANGED vars PROVE NameFieldShowsStored'
  BY <1>9 DEF CancelAlert, AlertCancelled, vars, NameFieldShowsStored, ListName, ListSlot
<1>10. ASSUME Relaunch PROVE NameFieldShowsStored'
  BY <1>a, <1>10 DEF Relaunch
<1>11. ItemsNext /\ UNCHANGED listsVars => NameFieldShowsStored'
  BY <1>2, <1>3, <1>4, <1>5, <1>6, <1>7, <1>8 DEF ItemsNext
<1> QED BY <1>a, <1>1, <1>9, <1>10, <1>11 DEF Next

\* Whenever it is not being edited, the name field shows the stored name of
\* the open list as the Realm reads it: a refused rename is taken back, and one
\* whose commit failed is shown for as long as it is read.
THEOREM NameFieldTruthful == Spec => []NameFieldShowsStored
<1>1. Init => NameFieldShowsStored
  BY DEF Init, NameFieldShowsStored
<1>2. IInv /\ NameFieldShowsStored /\ [Next]_vars => NameFieldShowsStored'
  BY NameFieldInv
<1> QED BY <1>1, <1>2, Invariance, PTL DEF Spec

-----------------------------------------------------------------------------
(* How rows come to disagree with the data *)

\* A screen that is bound to results, or was opened from one that is, has an
\* open Realm, so it cannot fail to reload.
RealmOpen == toDoLists \/ nav \in {"pushing", "items", "popping"} => realm

LEMMA RealmOpenInv == ASSUME IInv, [Next]_vars, RealmOpen PROVE RealmOpen'
<1> USE DEF storeVars, shellVars, listsVars, itemsVars, screenVars
<1>0. realm \in BOOLEAN /\ toDoLists \in BOOLEAN /\ nav \in Screens
  BY DEF IInv, TypeOK, ShellTypeOK, ListsTypeOK
<1>1. ASSUME NEW opens \in BOOLEAN, ListsViewDidAppear(opens) PROVE RealmOpen'
  BY <1>0, <1>1 DEF ListsViewDidAppear, GetRealm, RealmOpen
<1>2. ASSUME NEW opens \in BOOLEAN, ItemsViewDidLoad(opens), UNCHANGED listsVars PROVE RealmOpen'
  BY <1>0, <1>2 DEF ItemsViewDidLoad, GetRealm, RealmOpen, IInv, OpenListStored
<1>3. ASSUME NEW i \in 1..MaxLists, SelectList(i) PROVE RealmOpen'
  <2>1. toDoLists
    BY <1>3 DEF SelectList, IInv, RowCountsMatch, TypeOK, ListsTypeOK, Tables
  <2> QED BY <1>3, <2>1 DEF SelectList, RealmOpen
<1>4. ASSUME realm' \/ UNCHANGED <<realm, nav, toDoLists>> PROVE RealmOpen'
  BY <1>4 DEF RealmOpen
<1>5. ASSUME NEW t \in Texts, NEW opens \in BOOLEAN, NEW commits \in BOOLEAN,
             AddListConfirmed(t, opens, commits)
      PROVE  RealmOpen'
  BY <1>4, <1>5 DEF AddListConfirmed
<1>6. ASSUME NEW i \in 1..MaxLists, NEW opens \in BOOLEAN, NEW commits \in BOOLEAN,
             CommitDeleteList(i, opens, commits)
      PROVE  RealmOpen'
  BY <1>4, <1>6 DEF CommitDeleteList
<1>7. ASSUME NEW i \in 1..MaxLists, RedrawListRow(i) PROVE RealmOpen'
  BY <1>4, <1>7 DEF RedrawListRow
<1>8. ASSUME AddListTapped \/ ListsEditDoneTapped \/ SwipeList \/ SwipeListEnds PROVE RealmOpen'
  BY <1>4, <1>8 DEF AddListTapped, ListsEditDoneTapped, SwipeList, SwipeListEnds
<1>9. ASSUME NEW t \in Texts, NEW opens \in BOOLEAN, NEW commits \in BOOLEAN,
             UNCHANGED listsVars,
             \/ AddItemConfirmed(t, opens, commits)
             \/ EditItemConfirmed(t, opens, commits)
             \/ TextFieldDidEndEditing(t, opens, commits)
      PROVE  RealmOpen'
  BY <1>4, <1>9 DEF AddItemConfirmed, EditItemConfirmed, TextFieldDidEndEditing,
     ItemsReturn, ItemsCrash
<1>10. ASSUME NEW i \in 1..MaxItems, NEW opens \in BOOLEAN, NEW commits \in BOOLEAN,
              CommitDeleteItem(i, opens, commits), UNCHANGED listsVars
       PROVE  RealmOpen'
  BY <1>4, <1>10 DEF CommitDeleteItem
<1>11. ASSUME NEW i \in 1..MaxItems, SelectItem(i) \/ RedrawItemRow(i), UNCHANGED listsVars
       PROVE  RealmOpen'
  BY <1>4, <1>11 DEF SelectItem, RedrawItemRow
<1>12. ASSUME \/ AddItemTapped \/ ItemsEditDoneTapped \/ SwipeItem \/ SwipeItemEnds
              \/ NameFieldTapped,
              UNCHANGED listsVars
       PROVE  RealmOpen'
  BY <1>4, <1>12 DEF AddItemTapped, ItemsEditDoneTapped, SwipeItem, SwipeItemEnds,
     NameFieldTapped
<1>13. ASSUME BackTapped, UNCHANGED listsVars PROVE RealmOpen'
  BY <1>13 DEF BackTapped, Facing, RealmOpen
<1>14. ASSUME CancelAlert \/ UNCHANGED vars PROVE RealmOpen'
  BY <1>4, <1>14 DEF CancelAlert, AlertCancelled, vars
<1>15. ASSUME Relaunch PROVE RealmOpen'
  BY <1>15 DEF Relaunch, RealmOpen
<1>16. ListsNext => RealmOpen'
  BY <1>1, <1>3, <1>5, <1>6, <1>7, <1>8 DEF ListsNext
<1>17. ItemsNext /\ UNCHANGED listsVars => RealmOpen'
  BY <1>2, <1>9, <1>10, <1>11, <1>12, <1>13 DEF ItemsNext
<1> QED BY <1>14, <1>15, <1>16, <1>17 DEF Next

LEMMA RealmStaysOpen == Spec => [](IInv /\ RealmOpen)
<1>1. Init => RealmOpen
  BY DEF Init, RealmOpen
<1>2. IInv /\ RealmOpen /\ [Next]_vars => RealmOpen'
  BY RealmOpenInv
<1> QED BY <1>1, <1>2, Invariance, PTL DEF Spec

\* One step of the root screen.
LEMMA ListsDivergeStep ==
    ASSUME IInv, RealmOpen, [Next]_vars,
           nav' = "lists", toDoLists', ~ListsAgree', ~(nav = "lists" /\ ~ListsAgree)
    PROVE  /\ nav = "lists"
           /\ \E i \in 1..(Len(current.lists) - 2) :
                 /\ current'.lists = MoveLastOver(current.lists, i)
                 /\ listsTable'.rows = RemoveRow(listsTable.rows, i)
<1>1. /\ listsTable \in Tables(List) /\ listsTable.rows \in Seq(List)
      /\ current.lists \in Seq(List) /\ ListsShape
  BY ListsShapes DEF IInv, TypeOK, ShellTypeOK, ListsTypeOK, DB, Tables
<1>2. ASSUME ListsIdle PROVE FALSE
  BY <1>2 DEF ListsIdle, ListsAgree
<1>3. ASSUME ListsAppear PROVE FALSE
  <2>1. realm'
    BY <1>3 DEF ListsAppear, RealmOpen
  <2>2. listsTable'.rows = current.lists
    BY <1>1, <1>3, <2>1 DEF ListsAppear, EnableIfAny, ReloadData, Tables
  <2> QED BY <1>3, <2>2 DEF ListsAppear, ListsAgree
<1>4. ASSUME ListsMode PROVE FALSE
  <2>1. listsTable'.rows = listsTable.rows
    BY <1>1, <1>4 DEF ListsMode, ModeStep, Tables, EditDoneTapped, Swiped, SwipeEnded, EndEditing
  <2> QED BY <1>4, <2>1 DEF ListsMode, ListsAgree
<1>5. ASSUME ListsRedraw PROVE FALSE
  <2>1. PICK i \in 1..Len(listsTable.rows) : listsTable' = RedrawRow(listsTable, current.lists, i)
    BY <1>5 DEF ListsRedraw
  <2>2. listsTable'.rows = [listsTable.rows EXCEPT ![i] = current.lists[i]]
    BY <1>1, <2>1 DEF RedrawRow, Tables
  <2>3. listsTable.rows = current.lists
    BY <1>5 DEF ListsRedraw, ListsAgree
  <2>4. listsTable'.rows = listsTable.rows
    BY <1>1, <2>2, <2>3
  <2> QED BY <1>5, <2>3, <2>4 DEF ListsRedraw, ListsAgree
<1>6. ASSUME ListsAdd PROVE FALSE
  BY <1>1, <1>6 DEF ListsAdd, ReloadData, Tables, ListsAgree
<1>7. ListsDelete
  BY <1>1, <1>2, <1>3, <1>4, <1>5, <1>6 DEF ListsShape, ListsFresh
<1>8. PICK i \in 1..Len(listsTable.rows) :
         /\ current'.lists = MoveLastOver(current.lists, i)
         /\ listsTable' = DisableIfNone(EndEditing(DeleteRows(listsTable, i)),
                                        Len(current'.lists))
  BY <1>7 DEF ListsDelete
<1>9. listsTable'.rows = RemoveRow(listsTable.rows, i)
  BY <1>1, <1>8 DEF DisableIfNone, EndEditing, DeleteRows, Tables
<1>10. nav = "lists" /\ listsTable.rows = current.lists
  BY <1>7 DEF ListsDelete, ListsAgree
<1>11. ~(i >= Len(current.lists) - 1)
  <2>1. \A j, k \in 1..Len(current.lists) : current.lists[j] = current.lists[k] => j = k
    BY DEF IInv, StoredOnce, UniqueIds
  <2> QED BY <1>1, <1>8, <1>9, <1>10, <2>1, DeleteMatchesTableView DEF ListsAgree
<1>12. i \in 1..(Len(current.lists) - 2)
  BY <1>1, <1>10, <1>11
<1> QED BY <1>8, <1>9, <1>10, <1>12

\* On the root screen, cells that agree with the lists stop agreeing only by a
\* deletion with at least two rows behind it.
THEOREM ListsDiverge == Spec => ListsDivergeOnlyByDelete
<1>1. IInv /\ RealmOpen /\ [Next]_vars =>
      [/\ nav' = "lists" /\ toDoLists'
       /\ ~ListsAgree'
       => \/ nav = "lists" /\ ~ListsAgree
          \/ /\ nav = "lists"
             /\ \E i \in 1..(Len(current.lists) - 2) :
                   /\ current'.lists = MoveLastOver(current.lists, i)
                   /\ listsTable'.rows = RemoveRow(listsTable.rows, i)]_vars
  BY ListsDivergeStep
<1> QED BY <1>1, RealmStaysOpen, PTL DEF Spec, ListsDivergeOnlyByDelete

\* One step of the items screen.
LEMMA ItemsDivergeStep ==
    ASSUME IInv, RealmOpen, [Next]_vars,
           nav' = "items", ~ItemsAgree', ~(nav = "items" /\ ~ItemsAgree)
    PROVE  \E i \in 1..(Len(ItemResults(current)) - 2) :
              /\ current'.items = MoveLastOver(current.items, ItemSlot(i))
              /\ itemsTable'.rows = RemoveRow(itemsTable.rows, i)
<1>1. /\ itemsTable \in Tables(Item) /\ itemsTable.rows \in Seq(Item)
      /\ current.items \in Seq(Item) /\ ItemResults(current) \in Seq(Item) /\ ItemsShape
  BY ItemsShapes, ItemResultsFacts DEF IInv, TypeOK, ShellTypeOK, ItemsTypeOK, DB, Tables
<1>2. ASSUME ItemsIdle PROVE FALSE
  BY <1>2 DEF ItemsIdle, ItemsAgree, ItemResults
<1>3. ASSUME ItemsLoad PROVE FALSE
  <2>1. realm'
    BY <1>3 DEF ItemsLoad, RealmOpen
  <2>2. itemsTable'.rows = ItemResults(current)
    BY <1>1, <1>3, <2>1 DEF ItemsLoad, EnableIfAny, ReloadData, FreshTable
  <2> QED BY <1>3, <2>2 DEF ItemsLoad, ItemsAgree, ItemResults
<1>4. ASSUME ItemsMode PROVE FALSE
  <2>1. itemsTable'.rows = itemsTable.rows
    BY <1>1, <1>4 DEF ItemsMode, ModeStep, Tables, EditDoneTapped, Swiped, SwipeEnded, EndEditing
  <2> QED BY <1>4, <2>1 DEF ItemsMode, ItemsAgree, ItemResults
<1>5. ASSUME ItemsRedraw PROVE FALSE
  <2>1. PICK i \in 1..Len(itemsTable.rows) :
           itemsTable' = RedrawRow(itemsTable, ItemResults(current), i)
    BY <1>5 DEF ItemsRedraw
  <2>2. itemsTable'.rows = [itemsTable.rows EXCEPT ![i] = ItemResults(current)[i]]
    BY <1>1, <2>1 DEF RedrawRow, Tables
  <2>3. itemsTable.rows = ItemResults(current)
    BY <1>5 DEF ItemsRedraw, ItemsAgree
  <2>4. itemsTable'.rows = itemsTable.rows
    BY <1>1, <2>2, <2>3
  <2> QED BY <1>5, <2>3, <2>4 DEF ItemsRedraw, ItemsAgree, ItemResults
<1>6. ASSUME ItemsAdd \/ ItemsEdit PROVE FALSE
  BY <1>1, <1>6 DEF ItemsAdd, ItemsEdit, ReloadData, Tables, ItemsAgree, ItemResults
<1>7. ItemsDelete
  BY <1>1, <1>2, <1>3, <1>4, <1>5, <1>6 DEF ItemsShape, ItemsFresh
<1>8. PICK i \in 1..Len(itemsTable.rows) :
         /\ current'.items = MoveLastOver(current.items, ItemSlot(i))
         /\ itemsTable' = DisableIfNone(EndEditing(DeleteRows(itemsTable, i)),
                                        Len(Filter(current'.items, toDoList)))
  BY <1>7 DEF ItemsDelete
<1>9. itemsTable'.rows = RemoveRow(itemsTable.rows, i)
  BY <1>1, <1>8 DEF DisableIfNone, EndEditing, DeleteRows, Tables
<1>10. /\ nav = "items" /\ itemsTable.rows = Filter(current.items, toDoList)
       /\ toDoList' = toDoList
  BY <1>7 DEF ItemsDelete, ItemsAgree, ItemResults
<1>11. ~(i >= Len(Filter(current.items, toDoList)) - 1)
  <2> SUFFICES ASSUME i >= Len(Filter(current.items, toDoList)) - 1 PROVE FALSE
    OBVIOUS
  <2>1. Filter(current'.items, toDoList) = RemoveRow(itemsTable.rows, i)
    BY <1>1, <1>8, <1>10, LateDeleteMatchesTableView DEF ItemSlot
  <2> QED BY <1>9, <1>10, <2>1 DEF ItemsAgree, ItemResults
<1>12. i \in 1..(Len(ItemResults(current)) - 2)
  BY <1>1, <1>10, <1>11 DEF ItemResults
<1> QED BY <1>8, <1>9, <1>12

\* The same on the items screen, where the rows of the list may lie scattered
\* among those of other lists and any of them may be the one that is moved.
THEOREM ItemsDiverge == Spec => ItemsDivergeOnlyByDelete
<1>1. IInv /\ RealmOpen /\ [Next]_vars =>
      [nav' = "items" /\ ~ItemsAgree'
       => \/ nav = "items" /\ ~ItemsAgree
          \/ \E i \in 1..(Len(ItemResults(current)) - 2) :
                /\ current'.items = MoveLastOver(current.items, ItemSlot(i))
                /\ itemsTable'.rows = RemoveRow(itemsTable.rows, i)]_vars
  BY ItemsDivergeStep
<1> QED BY <1>1, RealmStaysOpen, PTL DEF Spec, ItemsDivergeOnlyByDelete

-----------------------------------------------------------------------------
(* ToDoApp implements ToDoData.  Only a commit changes the file, and it      *)
(* commits exactly one write block; each of the six write blocks is one      *)
(* operation on the sets of lists and items that the file stands for.        *)

(* What a step can do to the file *)

FileAddList == \E t \in Names :
    /\ nextList \in 1..MaxLists /\ nextList' = nextList + 1
    /\ durable' = [durable EXCEPT !.lists = AddRow(@, [listId |-> nextList, name |-> t])]
FileRenameList == \E k \in 1..Len(durable.lists), t \in Names :
    /\ t # durable.lists[k].name
    /\ durable' = [durable EXCEPT !.lists[k].name = t]
FileDeleteList == \E k \in 1..Len(durable.lists) :
    durable' = [durable EXCEPT !.lists = MoveLastOver(@, k)]
FileAddItem == \E t \in Names, j \in 1..Len(durable.lists) :
    /\ nextItem \in 1..MaxItems
    /\ durable' = [durable EXCEPT !.items =
                     AddRow(@, [oid |-> nextItem, listId |-> durable.lists[j].listId,
                                name |-> t])]

\* The item in row k belongs to a list that is stored.
Owned(k) == \E j \in 1..Len(durable.lists) : durable.lists[j].listId = durable.items[k].listId

FileEditItem == \E k \in 1..Len(durable.items), t \in Names :
    /\ Owned(k) /\ t # durable.items[k].name
    /\ durable' = [durable EXCEPT !.items[k].name = t]
FileDeleteItem == \E k \in 1..Len(durable.items) :
    /\ Owned(k)
    /\ durable' = [durable EXCEPT !.items = MoveLastOver(@, k)]

FileStep ==
    \/ UNCHANGED <<durable, nextList>>
    \/ UNCHANGED durable /\ nextList' = nextList + 1
    \/ FileAddList
    \/ UNCHANGED nextList /\ (FileRenameList \/ FileDeleteList)
    \/ UNCHANGED nextList /\ (FileAddItem \/ FileEditItem \/ FileDeleteItem)

\* The items screen is open on a list that is stored in what is read.
LEMMA OpenListRow ==
    ASSUME IInv, nav \in {"items", "popping"}
    PROVE  /\ ListStored
           /\ ListSlot \in 1..Len(current.lists) /\ current.lists[ListSlot].listId = toDoList
<1>1. ListStored
  BY DEF IInv, OpenListStored
<1> QED BY <1>1, OpenListFacts

\* Every step has one of these effects on the file.
LEMMA FileSteps == ASSUME IInv, [Next]_vars PROVE FileStep
<1> USE DEF storeVars, shellVars, listsVars, itemsVars, screenVars
<1>0. /\ current \in DB /\ durable \in DB /\ nav \in Screens
      /\ ~inWrite => current = durable
  BY DEF IInv, TypeOK, ShellTypeOK, ReadsAreDurable
<1>a. ASSUME UNCHANGED durable, nextList' = nextList \/ nextList' = nextList + 1
      PROVE  FileStep
  BY <1>a DEF FileStep
<1>1. ASSUME NEW t \in Texts, NEW opens \in BOOLEAN, NEW commits \in BOOLEAN,
             AddListConfirmed(t, opens, commits)
      PROVE  FileStep
  <2>1. CASE UNCHANGED <<durable, nextList>>
    BY <1>a, <2>1
  <2>2. CASE /\ Accepts(t) /\ ~inWrite /\ nextList' = nextList + 1
             /\ Write([current EXCEPT !.lists =
                         AddRow(@, [listId |-> NewListId, name |-> t])], commits)
    <3>1. t \in Names /\ nextList \in 1..MaxLists
      BY <1>1, <2>2, BoundsAssumption
      DEF Texts, Accepts, AddListConfirmed, AlertReady, IInv, ScreensCoherent, TypeOK, ListsTypeOK
    <3>2. CASE commits
      BY <1>0, <2>2, <3>1, <3>2 DEF Write, NewListId, FileStep, FileAddList
    <3>3. CASE ~commits
      BY <1>a, <2>2, <3>3 DEF Write
    <3> QED BY <3>2, <3>3
  <2> QED BY <1>1, <2>1, <2>2 DEF AddListConfirmed
<1>2. ASSUME NEW i \in 1..MaxLists, NEW opens \in BOOLEAN, NEW commits \in BOOLEAN,
             CommitDeleteList(i, opens, commits)
      PROVE  FileStep
  <2>0. i \in 1..Len(current.lists) /\ UNCHANGED nextList
    BY <1>0, <1>2 DEF CommitDeleteList, IInv, RowCountsMatch, TypeOK, ListsTypeOK, Tables, DB
  <2>1. CASE UNCHANGED durable
    BY <1>a, <2>0, <2>1
  <2>2. CASE /\ ~inWrite
             /\ Write([current EXCEPT !.lists = MoveLastOver(@, i)], commits)
    <3>1. CASE commits
      BY <1>0, <2>0, <2>2, <3>1 DEF Write, FileStep, FileDeleteList
    <3>2. CASE ~commits
      BY <1>a, <2>0, <2>2, <3>2 DEF Write
    <3> QED BY <3>1, <3>2
  <2>3. DeleteFault(toDoLists, Len(current.lists), i, Len(listsTable.rows)) = "none" => ~inWrite
    BY DEF DeleteFault
  <2> QED BY <1>2, <2>1, <2>2, <2>3 DEF CommitDeleteList
<1>3. ASSUME NEW t \in Texts, NEW opens \in BOOLEAN, NEW commits \in BOOLEAN,
             AddItemConfirmed(t, opens, commits), UNCHANGED listsVars
      PROVE  FileStep
  <2>1. CASE UNCHANGED durable
    BY <1>a, <1>3, <2>1
  <2>2. CASE /\ Accepts(t) /\ ~inWrite
             /\ Write([current EXCEPT !.items =
                         AddRow(@, [oid |-> nextItem, listId |-> toDoList, name |-> t])],
                      commits)
    <3>1. t \in Names /\ nextItem \in 1..MaxItems /\ nav = "items"
      BY <1>3, <2>2, BoundsAssumption
      DEF Texts, Accepts, AddItemConfirmed, AlertReady, IInv, ScreensCoherent, TypeOK, ItemsTypeOK
    <3>2. PICK j \in 1..Len(durable.lists) : durable.lists[j].listId = toDoList
      BY <1>0, <2>2, <3>1, OpenListRow
    <3>3. CASE commits
      <4>1. durable' = [durable EXCEPT !.items =
               AddRow(@, [oid |-> nextItem, listId |-> durable.lists[j].listId, name |-> t])]
        BY <1>0, <2>2, <3>2, <3>3 DEF Write
      <4> QED BY <1>3, <3>1, <4>1 DEF FileStep, FileAddItem
    <3>4. CASE ~commits
      BY <1>a, <1>3, <2>2, <3>4 DEF Write
    <3> QED BY <3>3, <3>4
  <2> QED BY <1>3, <2>1, <2>2 DEF AddItemConfirmed, ItemsReturn, ItemsCrash
<1>4. ASSUME NEW t \in Texts, NEW opens \in BOOLEAN, NEW commits \in BOOLEAN,
             EditItemConfirmed(t, opens, commits), UNCHANGED listsVars
      PROVE  FileStep
  <2> DEFINE k == ItemSlot(alert.row)
  <2>0. /\ alert.kind = "editItem" /\ nav = "items"
        /\ alert.row \in 1..Len(ItemResults(current))
    BY <1>4 DEF EditItemConfirmed, AlertReady, IInv, ScreensCoherent, EditHitsCapturedItem
  <2>1. /\ k \in 1..Len(current.items) /\ current.items[k].listId = toDoList
        /\ CapturedStored /\ CapturedName = current.items[k].name /\ EditFault = WriteFault
    BY <2>0, CapturedFacts, ItemResultsFacts DEF Matches
  <2>2. CASE UNCHANGED durable
    BY <1>a, <1>4, <2>2
  <2>3. CASE /\ ~EditReturns(t, opens) /\ EditFault = "none"
             /\ Write([current EXCEPT !.items[ItemSlot(alert.row)].name = t], commits)
    <3>1. t \in Names /\ t # current.items[k].name /\ ~inWrite
      BY <2>1, <2>3 DEF EditReturns, Texts, Accepts, WriteFault
    <3>2. CASE commits
      <4>1. durable' = [durable EXCEPT !.items[k].name = t]
        BY <1>0, <2>3, <3>1, <3>2 DEF Write
      <4>2. Owned(k)
        BY <1>0, <2>0, <2>1, <3>1, OpenListRow DEF Owned
      <4> HIDE DEF k
      <4> QED BY <1>0, <1>4, <2>1, <3>1, <4>1, <4>2 DEF FileStep, FileEditItem
    <3>3. CASE ~commits
      BY <1>a, <1>4, <2>3, <3>3 DEF Write
    <3> QED BY <3>2, <3>3
  <2> QED BY <1>4, <2>2, <2>3 DEF EditItemConfirmed, ItemsReturn, ItemsCrash
<1>5. ASSUME NEW t \in Texts, NEW opens \in BOOLEAN, NEW commits \in BOOLEAN,
             TextFieldDidEndEditing(t, opens, commits), UNCHANGED listsVars
      PROVE  FileStep
  <2> DEFINE k == ListSlot
  <2>0. nav \in {"items", "popping"}
    BY <1>0, <1>5 DEF TextFieldDidEndEditing, FieldEnds, IInv, ScreensCoherent, Screens
  <2>1. ListStored /\ k \in 1..Len(current.lists)
    BY <2>0, OpenListRow
  <2>2. CASE UNCHANGED durable
    BY <1>a, <1>5, <2>2
  <2>3. CASE /\ Accepts(t) /\ t # ListName /\ ~inWrite
             /\ Write([current EXCEPT !.lists[ListSlot].name = t], commits)
    <3>1. t \in Names /\ t # current.lists[k].name
      BY <2>3 DEF Texts, Accepts, ListName
    <3>2. CASE commits
      <4>1. durable' = [durable EXCEPT !.lists[k].name = t]
        BY <1>0, <2>3, <3>2 DEF Write
      <4> HIDE DEF k
      <4> QED BY <1>0, <1>5, <2>1, <2>3, <3>1, <4>1 DEF FileStep, FileRenameList
    <3>3. CASE ~commits
      BY <1>a, <1>5, <2>3, <3>3 DEF Write
    <3> QED BY <3>2, <3>3
  <2> QED BY <1>5, <2>1, <2>2, <2>3 DEF TextFieldDidEndEditing, WriteFault
<1>6. ASSUME NEW i \in 1..MaxItems, NEW opens \in BOOLEAN, NEW commits \in BOOLEAN,
             CommitDeleteItem(i, opens, commits), UNCHANGED listsVars
      PROVE  FileStep
  <2> DEFINE k == ItemSlot(i)
  <2>0. i \in 1..Len(ItemResults(current)) /\ nav = "items"
    BY <1>6, ShownItemRow DEF CommitDeleteItem, Facing
  <2>1. k \in 1..Len(current.items) /\ current.items[k].listId = toDoList
    BY <2>0, ItemResultsFacts DEF Matches
  <2>2. CASE UNCHANGED durable
    BY <1>a, <1>6, <2>2
  <2>3. CASE /\ ~inWrite
             /\ Write([current EXCEPT !.items = MoveLastOver(@, ItemSlot(i))], commits)
    <3>1. CASE commits
      <4>1. durable' = [durable EXCEPT !.items = MoveLastOver(@, k)]
        BY <1>0, <2>3, <3>1 DEF Write
      <4>2. Owned(k)
        BY <1>0, <2>0, <2>1, <2>3, OpenListRow DEF Owned
      <4> HIDE DEF k
      <4> QED BY <1>0, <1>6, <2>1, <2>3, <4>1, <4>2 DEF FileStep, FileDeleteItem
    <3>2. CASE ~commits
      BY <1>a, <1>6, <2>3, <3>2 DEF Write
    <3> QED BY <3>1, <3>2
  <2>4. DeleteFault(toDoListItems, Len(ItemResults(current)), i, Len(itemsTable.rows)) = "none"
           => ~inWrite
    BY DEF DeleteFault
  <2> QED BY <1>6, <2>2, <2>3, <2>4 DEF CommitDeleteItem
<1>7. ASSUME NEW i \in 1..MaxLists, SelectList(i) \/ RedrawListRow(i) PROVE FileStep
  BY <1>a, <1>7 DEF SelectList, RedrawListRow
<1>8. ASSUME NEW i \in 1..MaxItems, SelectItem(i) \/ RedrawItemRow(i), UNCHANGED listsVars
      PROVE  FileStep
  BY <1>a, <1>8 DEF SelectItem, RedrawItemRow
<1>9. ASSUME NEW opens \in BOOLEAN,
             ListsViewDidAppear(opens) \/ (ItemsViewDidLoad(opens) /\ UNCHANGED listsVars)
      PROVE  FileStep
  BY <1>a, <1>9 DEF ListsViewDidAppear, ItemsViewDidLoad
<1>10. ASSUME \/ AddListTapped \/ ListsEditDoneTapped \/ SwipeList \/ SwipeListEnds
              \/ CancelAlert \/ Relaunch \/ UNCHANGED vars
       PROVE  FileStep
  BY <1>a, <1>10 DEF AddListTapped, ListsEditDoneTapped, SwipeList, SwipeListEnds,
     CancelAlert, AlertCancelled, Relaunch, vars
<1>11. ASSUME \/ AddItemTapped \/ ItemsEditDoneTapped \/ SwipeItem \/ SwipeItemEnds
              \/ NameFieldTapped \/ BackTapped,
              UNCHANGED listsVars
       PROVE  FileStep
  BY <1>a, <1>11 DEF AddItemTapped, ItemsEditDoneTapped, SwipeItem, SwipeItemEnds,
     NameFieldTapped, BackTapped
<1>12. ListsNext => FileStep
  BY <1>1, <1>2, <1>7, <1>9, <1>10 DEF ListsNext
<1>13. ItemsNext /\ UNCHANGED listsVars => FileStep
  BY <1>3, <1>4, <1>5, <1>6, <1>8, <1>9, <1>11 DEF ItemsNext
<1> QED BY <1>10, <1>12, <1>13 DEF Next

-----------------------------------------------------------------------------
(* Items without a list never come back *)

\* Every stored item was added under an id handed out before, so a new list
\* never inherits items from a deleted one.
OldOwners == \A i \in 1..Len(durable.items) : durable.items[i].listId < nextList

LEMMA OldOwnersInv == ASSUME IInv, [Next]_vars, OldOwners PROVE OldOwners'
<1>1. /\ FileStep /\ IInv' /\ durable \in DB /\ UniqueIds(durable) /\ nextList \in Nat
      /\ Len(durable.items) \in Nat
      /\ \A i \in 1..Len(durable.items) : durable.items[i].listId \in Nat
  <2>1. FileStep /\ IInv' /\ durable \in DB /\ UniqueIds(durable)
    BY FileSteps, NextInv DEF IInv, TypeOK, ShellTypeOK, StoredOnce
  <2>2. nextList \in Nat
    BY BoundsAssumption DEF IInv, TypeOK, ListsTypeOK
  <2>3. \A i \in 1..Len(durable.items) : durable.items[i].listId \in Nat
    BY <2>1, DBFacts, BoundsAssumption
  <2> QED BY <2>1, <2>2, <2>3, DBFacts
<1>2. CASE durable'.items = durable.items /\ nextList' \in {nextList, nextList + 1}
  BY <1>1, <1>2 DEF OldOwners
<1>3. CASE UNCHANGED durable /\ nextList' \in {nextList, nextList + 1}
  BY <1>2, <1>3
<1>4. CASE FileAddList
  BY <1>1, <1>2, <1>4 DEF FileAddList, DB
<1>5. CASE UNCHANGED nextList /\ (FileRenameList \/ FileDeleteList)
  <2>1. durable'.items = durable.items
    BY <1>1, <1>5 DEF FileRenameList, FileDeleteList, DB
  <2> QED BY <1>2, <1>5, <2>1
<1>6. CASE UNCHANGED nextList /\ FileAddItem
  <2>1. PICK t \in Names, j \in 1..Len(durable.lists) :
           durable' = [durable EXCEPT !.items =
              AddRow(@, [oid |-> nextItem, listId |-> durable.lists[j].listId, name |-> t])]
    BY <1>6 DEF FileAddItem
  <2> DEFINE x == [oid |-> nextItem, listId |-> durable.lists[j].listId, name |-> t]
  <2>2. durable'.items = Append(durable.items, x) /\ durable.items \in Seq(Item)
    BY <1>1, <2>1 DEF AddRow, DB
  <2>3. x.listId < nextList
    BY <1>1 DEF UniqueIds
  <2> HIDE DEF x
  <2>4. \A i \in 1..Len(durable'.items) :
           durable'.items[i] = IF i <= Len(durable.items) THEN durable.items[i] ELSE x
    BY <2>2
  <2>5. Len(durable'.items) = Len(durable.items) + 1
    BY <2>2
  <2> QED BY <1>1, <1>6, <2>3, <2>4, <2>5 DEF OldOwners
<1>7. CASE UNCHANGED nextList /\ FileEditItem
  <2>1. PICK k \in 1..Len(durable.items), t \in Names :
           t # durable.items[k].name /\ durable' = [durable EXCEPT !.items[k].name = t]
    BY <1>7 DEF FileEditItem
  <2>2. /\ Len(durable'.items) = Len(durable.items)
        /\ \A i \in 1..Len(durable'.items) : durable'.items[i].listId = durable.items[i].listId
    BY <1>1, <2>1, EditItemDB
  <2> QED BY <1>7, <2>2 DEF OldOwners
<1>8. CASE UNCHANGED nextList /\ FileDeleteItem
  <2>1. PICK k \in 1..Len(durable.items) :
           durable' = [durable EXCEPT !.items = MoveLastOver(@, k)]
    BY <1>8 DEF FileDeleteItem
  <2>2. /\ Len(durable'.items) = Len(durable.items) - 1
        /\ \A i \in 1..Len(durable'.items) :
              durable'.items[i] = IF i = k THEN durable.items[Len(durable.items)]
                                           ELSE durable.items[i]
    BY <1>1, <2>1, DeleteItemDB
  <2>3. \A i \in 1..Len(durable'.items) :
           \E j \in 1..Len(durable.items) : durable'.items[i] = durable.items[j]
    <3> SUFFICES ASSUME NEW i \in 1..Len(durable'.items)
                 PROVE  \E j \in 1..Len(durable.items) : durable'.items[i] = durable.items[j]
      OBVIOUS
    <3>1. i \in 1..Len(durable.items) /\ Len(durable.items) \in 1..Len(durable.items)
      BY <1>1, <2>2
    <3> QED BY <2>2, <3>1
  <2> QED BY <1>8, <2>3 DEF OldOwners
<1> QED BY <1>1, <1>3, <1>4, <1>5, <1>6, <1>7, <1>8 DEF FileStep

-----------------------------------------------------------------------------
(* The refinement *)

\* The lists and the owned items a database stands for.
ListSet(db) == {db.lists[i] : i \in DOMAIN db.lists}
ItemSet(db) == {db.items[i] : i \in
                  {k \in DOMAIN db.items :
                     \E x \in ListSet(db) : x.listId = db.items[k].listId}}

LEMMA SetsIff ==
    ASSUME NEW db \in DB
    PROVE  /\ \A z : z \in ListSet(db) <=> \E i \in 1..Len(db.lists) : z = db.lists[i]
           /\ \A z : z \in ItemSet(db) <=>
                \E k \in 1..Len(db.items) :
                   /\ z = db.items[k]
                   /\ \E j \in 1..Len(db.lists) : db.lists[j].listId = db.items[k].listId
<1>1. DOMAIN db.lists = 1..Len(db.lists) /\ DOMAIN db.items = 1..Len(db.items)
  BY DEF DB
<1>2. \A z : z \in ListSet(db) <=> \E i \in 1..Len(db.lists) : z = db.lists[i]
  BY <1>1 DEF ListSet
<1>3. \A k \in DOMAIN db.items :
         (\E x \in ListSet(db) : x.listId = db.items[k].listId)
            <=> \E j \in 1..Len(db.lists) : db.lists[j].listId = db.items[k].listId
  BY <1>2
<1> QED BY <1>1, <1>2, <1>3 DEF ItemSet

LEMMA ItemIn ==
    ASSUME NEW db \in DB, NEW k \in 1..Len(db.items), NEW j \in 1..Len(db.lists),
           db.lists[j].listId = db.items[k].listId
    PROVE  db.items[k] \in ItemSet(db)
BY SetsIff

LEMMA ItemOut ==
    ASSUME NEW db \in DB, NEW z \in ItemSet(db)
    PROVE  \E k \in 1..Len(db.items), j \in 1..Len(db.lists) :
              z = db.items[k] /\ db.lists[j].listId = db.items[k].listId
BY SetsIff

\* The rows of a database that nobody else's ids collide with.
DistinctIds(db) ==
    /\ \A i, j \in 1..Len(db.lists) : db.lists[i].listId = db.lists[j].listId => i = j
    /\ \A i, j \in 1..Len(db.items) : db.items[i].oid = db.items[j].oid => i = j

\* A new list appears without items.
LEMMA AddListSets ==
    ASSUME NEW db \in DB, NEW d \in DB, NEW x,
           \A m \in 1..Len(db.items) : db.items[m].listId # x.listId,
           d.items = db.items,
           Len(db.lists) \in Nat, Len(d.lists) = Len(db.lists) + 1,
           \A i \in 1..Len(d.lists) :
              d.lists[i] = IF i <= Len(db.lists) THEN db.lists[i] ELSE x
    PROVE  ListSet(d) = ListSet(db) \cup {x} /\ ItemSet(d) = ItemSet(db)
<1>1. \A i \in 1..Len(db.lists) : i \in 1..Len(d.lists) /\ d.lists[i] = db.lists[i]
  OBVIOUS
<1>2. \E i \in 1..Len(d.lists) : d.lists[i] = x
  <2>1. Len(db.lists) + 1 \in 1..Len(d.lists) /\ ~(Len(db.lists) + 1 <= Len(db.lists))
    OBVIOUS
  <2> QED BY <2>1
<1>3. \A i \in 1..Len(d.lists) : i \in 1..Len(db.lists) \/ d.lists[i] = x
  OBVIOUS
<1>4. ListSet(d) = ListSet(db) \cup {x}
  <2>1. ASSUME NEW z \in ListSet(d) PROVE z \in ListSet(db) \/ z = x
    <3>1. PICK i \in 1..Len(d.lists) : z = d.lists[i]
      BY SetsIff
    <3>2. CASE i \in 1..Len(db.lists)
      BY <1>1, <3>1, <3>2, SetsIff
    <3> QED BY <1>3, <3>1, <3>2
  <2>2. x \in ListSet(d)
    BY <1>2, SetsIff
  <2>3. ASSUME NEW z \in ListSet(db) PROVE z \in ListSet(d)
    <3>1. PICK i \in 1..Len(db.lists) : z = db.lists[i]
      BY SetsIff
    <3> QED BY <1>1, <3>1, SetsIff
  <2> QED BY <2>1, <2>2, <2>3
<1>5. ItemSet(d) = ItemSet(db)
  <2>1. ASSUME NEW z \in ItemSet(d) PROVE z \in ItemSet(db)
    <3>1. PICK m \in 1..Len(d.items), j \in 1..Len(d.lists) :
             z = d.items[m] /\ d.lists[j].listId = d.items[m].listId
      BY ItemOut
    <3>2. m \in 1..Len(db.items) /\ z = db.items[m] /\ d.lists[j].listId = db.items[m].listId
      BY <3>1
    <3>3. j \in 1..Len(db.lists) /\ db.lists[j].listId = db.items[m].listId
      BY <1>1, <1>3, <3>2
    <3> QED BY <3>2, <3>3, ItemIn
  <2>2. ASSUME NEW z \in ItemSet(db) PROVE z \in ItemSet(d)
    <3>1. PICK m \in 1..Len(db.items), j \in 1..Len(db.lists) :
             z = db.items[m] /\ db.lists[j].listId = db.items[m].listId
      BY ItemOut
    <3>2. m \in 1..Len(d.items) /\ z = d.items[m] /\ db.lists[j].listId = d.items[m].listId
      BY <3>1
    <3>3. j \in 1..Len(d.lists) /\ d.lists[j].listId = d.items[m].listId
      BY <1>1, <3>2
    <3> QED BY <3>2, <3>3, ItemIn
  <2> QED BY <2>1, <2>2
<1> QED BY <1>4, <1>5

\* A renamed list keeps its items.
LEMMA RenameListSets ==
    ASSUME NEW db \in DB, NEW d \in DB, NEW k \in 1..Len(db.lists), DistinctIds(db),
           NEW y, y.listId = db.lists[k].listId,
           d.items = db.items, Len(d.lists) = Len(db.lists),
           \A i \in 1..Len(db.lists) : d.lists[i] = IF i = k THEN y ELSE db.lists[i]
    PROVE  /\ db.lists[k] \in ListSet(db)
           /\ ListSet(d) = (ListSet(db) \ {db.lists[k]}) \cup {y}
           /\ ItemSet(d) = ItemSet(db)
<1>1. \A i \in 1..Len(db.lists) : db.lists[i] = db.lists[k] => i = k
  BY DEF DistinctIds
<1>2. \A i \in 1..Len(db.lists) : d.lists[i].listId = db.lists[i].listId
  OBVIOUS
<1>3. ListSet(d) = (ListSet(db) \ {db.lists[k]}) \cup {y}
  <2>1. ASSUME NEW z \in ListSet(d)
        PROVE  (z \in ListSet(db) /\ z # db.lists[k]) \/ z = y
    <3>1. PICK i \in 1..Len(d.lists) : z = d.lists[i]
      BY SetsIff
    <3>2. i \in 1..Len(db.lists)
      OBVIOUS
    <3>3. CASE i = k
      BY <3>1, <3>2, <3>3
    <3>4. CASE i # k
      <4>1. z = db.lists[i]
        BY <3>1, <3>2, <3>4
      <4> QED BY <1>1, <3>2, <3>4, <4>1, SetsIff
    <3> QED BY <3>3, <3>4
  <2>2. y \in ListSet(d)
    <3>1. k \in 1..Len(d.lists) /\ d.lists[k] = y
      OBVIOUS
    <3> QED BY <3>1, SetsIff
  <2>3. ASSUME NEW z \in ListSet(db), z # db.lists[k] PROVE z \in ListSet(d)
    <3>1. PICK i \in 1..Len(db.lists) : z = db.lists[i]
      BY SetsIff
    <3>2. i \in 1..Len(d.lists) /\ z = d.lists[i]
      BY <2>3, <3>1
    <3> QED BY <3>2, SetsIff
  <2> QED BY <2>1, <2>2, <2>3
<1>4. ItemSet(d) = ItemSet(db)
  <2>1. ASSUME NEW z \in ItemSet(d) PROVE z \in ItemSet(db)
    <3>1. PICK m \in 1..Len(d.items), j \in 1..Len(d.lists) :
             z = d.items[m] /\ d.lists[j].listId = d.items[m].listId
      BY ItemOut
    <3>2. /\ m \in 1..Len(db.items) /\ z = db.items[m]
          /\ j \in 1..Len(db.lists) /\ db.lists[j].listId = db.items[m].listId
      BY <1>2, <3>1
    <3> QED BY <3>2, ItemIn
  <2>2. ASSUME NEW z \in ItemSet(db) PROVE z \in ItemSet(d)
    <3>1. PICK m \in 1..Len(db.items), j \in 1..Len(db.lists) :
             z = db.items[m] /\ db.lists[j].listId = db.items[m].listId
      BY ItemOut
    <3>2. /\ m \in 1..Len(d.items) /\ z = d.items[m]
          /\ j \in 1..Len(d.lists) /\ d.lists[j].listId = d.items[m].listId
      BY <1>2, <3>1
    <3> QED BY <3>2, ItemIn
  <2> QED BY <2>1, <2>2
<1> QED BY <1>3, <1>4, SetsIff

\* t has the objects of s but for the one in row k.
RowGone(s, t, k) ==
    /\ \A i \in 1..Len(s) : i # k => \E j \in 1..Len(t) : t[j] = s[i]
    /\ \A j \in 1..Len(t) : \E i \in 1..Len(s) : i # k /\ t[j] = s[i]

\* Deleting row k leaves the objects of the other rows.
LEMMA MovedRows ==
    ASSUME NEW Obj, NEW s \in Seq(Obj), NEW k \in 1..Len(s)
    PROVE  RowGone(s, MoveLastOver(s, k), k)
<1> DEFINE t == MoveLastOver(s, k)
           n == Len(s)
<1>1. /\ Len(t) = n - 1 /\ n \in Nat /\ k \in 1..n
      /\ \A i \in 1..(n - 1) : t[i] = IF i = k THEN s[n] ELSE s[i]
  BY MoveLastOverProperties
<1> HIDE DEF t, n
<1>2. ASSUME NEW i \in 1..n, i # k PROVE \E j \in 1..Len(t) : t[j] = s[i]
  <2>1. CASE i = n
    <3>1. k \in 1..Len(t) /\ t[k] = s[n]
      BY <1>1, <1>2, <2>1
    <3> QED BY <2>1, <3>1
  <2>2. CASE i # n
    <3>1. i \in 1..Len(t) /\ t[i] = s[i]
      BY <1>1, <1>2, <2>2
    <3> QED BY <3>1
  <2> QED BY <2>1, <2>2
<1>3. ASSUME NEW j \in 1..Len(t) PROVE \E i \in 1..n : i # k /\ t[j] = s[i]
  <2>1. CASE j = k
    <3>1. n \in 1..n /\ n # k /\ t[j] = s[n]
      BY <1>1, <2>1
    <3> QED BY <3>1
  <2>2. CASE j # k
    <3>1. j \in 1..n /\ t[j] = s[j]
      BY <1>1, <2>2
    <3> QED BY <2>2, <3>1
  <2> QED BY <2>1, <2>2
<1> QED BY <1>2, <1>3 DEF t, n, RowGone

\* A deleted list takes its items out of reach, and only them.
LEMMA DeleteListSets ==
    ASSUME NEW db \in DB, NEW d \in DB, NEW k \in 1..Len(db.lists), DistinctIds(db),
           d.items = db.items, RowGone(db.lists, d.lists, k)
    PROVE  /\ db.lists[k] \in ListSet(db)
           /\ ListSet(d) = ListSet(db) \ {db.lists[k]}
           /\ ItemSet(d) = {y \in ItemSet(db) : y.listId # db.lists[k].listId}
<1>1. \A i \in 1..Len(db.lists) :
         db.lists[i] = db.lists[k] \/ db.lists[i].listId = db.lists[k].listId => i = k
  BY DEF DistinctIds
<1>2. ListSet(d) = ListSet(db) \ {db.lists[k]}
  <2>1. \A z : z \in ListSet(d) <=> z \in ListSet(db) /\ z # db.lists[k]
    <3>1. ASSUME NEW z \in ListSet(d) PROVE z \in ListSet(db) /\ z # db.lists[k]
      <4>1. PICK j \in 1..Len(d.lists) : z = d.lists[j]
        BY SetsIff
      <4>2. PICK i \in 1..Len(db.lists) : i # k /\ d.lists[j] = db.lists[i]
        BY DEF RowGone
      <4> QED BY <1>1, <4>1, <4>2, SetsIff
    <3>2. ASSUME NEW z \in ListSet(db), z # db.lists[k] PROVE z \in ListSet(d)
      <4>1. PICK i \in 1..Len(db.lists) : z = db.lists[i]
        BY SetsIff
      <4>2. PICK j \in 1..Len(d.lists) : d.lists[j] = db.lists[i]
        BY <3>2, <4>1 DEF RowGone
      <4> QED BY <4>1, <4>2, SetsIff
    <3> QED BY <3>1, <3>2
  <2> QED BY <2>1
<1>3. \A m \in 1..Len(db.items) :
         (\E j \in 1..Len(d.lists) : d.lists[j].listId = db.items[m].listId)
           <=> /\ \E i \in 1..Len(db.lists) : db.lists[i].listId = db.items[m].listId
               /\ db.items[m].listId # db.lists[k].listId
  <2> SUFFICES ASSUME NEW m \in 1..Len(db.items)
               PROVE  (\E j \in 1..Len(d.lists) : d.lists[j].listId = db.items[m].listId)
                 <=> /\ \E i \in 1..Len(db.lists) : db.lists[i].listId = db.items[m].listId
                     /\ db.items[m].listId # db.lists[k].listId
    OBVIOUS
  <2>1. ASSUME NEW j \in 1..Len(d.lists), d.lists[j].listId = db.items[m].listId
        PROVE  /\ \E i \in 1..Len(db.lists) : db.lists[i].listId = db.items[m].listId
               /\ db.items[m].listId # db.lists[k].listId
    <3>1. PICK i \in 1..Len(db.lists) : i # k /\ d.lists[j] = db.lists[i]
      BY DEF RowGone
    <3> QED BY <1>1, <2>1, <3>1
  <2>2. ASSUME NEW i \in 1..Len(db.lists), db.lists[i].listId = db.items[m].listId,
               db.items[m].listId # db.lists[k].listId
        PROVE  \E j \in 1..Len(d.lists) : d.lists[j].listId = db.items[m].listId
    <3>1. i # k
      BY <2>2
    <3>2. PICK j \in 1..Len(d.lists) : d.lists[j] = db.lists[i]
      BY <3>1 DEF RowGone
    <3> QED BY <2>2, <3>2
  <2> QED BY <2>1, <2>2
<1>4. ItemSet(d) = {y \in ItemSet(db) : y.listId # db.lists[k].listId}
  <2>1. \A y : y \in ItemSet(d) <=> y \in ItemSet(db) /\ y.listId # db.lists[k].listId
    <3>1. ASSUME NEW y \in ItemSet(d)
          PROVE  y \in ItemSet(db) /\ y.listId # db.lists[k].listId
      <4>1. PICK m \in 1..Len(d.items), j \in 1..Len(d.lists) :
               y = d.items[m] /\ d.lists[j].listId = d.items[m].listId
        BY ItemOut
      <4>2. PICK i \in 1..Len(db.lists) : db.lists[i].listId = db.items[m].listId
        BY <1>3, <4>1
      <4> QED BY <1>3, <4>1, <4>2, ItemIn
    <3>2. ASSUME NEW y \in ItemSet(db), y.listId # db.lists[k].listId PROVE y \in ItemSet(d)
      <4>1. PICK m \in 1..Len(db.items), i \in 1..Len(db.lists) :
               y = db.items[m] /\ db.lists[i].listId = db.items[m].listId
        BY ItemOut
      <4>2. PICK j \in 1..Len(d.lists) : d.lists[j].listId = db.items[m].listId
        BY <1>3, <3>2, <4>1
      <4> QED BY <4>1, <4>2, ItemIn
    <3> QED BY <3>1, <3>2
  <2> QED BY <2>1
<1> QED BY <1>2, <1>4, SetsIff

\* An item added to a stored list is in reach.
LEMMA AddItemSets ==
    ASSUME NEW db \in DB, NEW d \in DB, NEW x, d.lists = db.lists,
           \E j \in 1..Len(db.lists) : db.lists[j].listId = x.listId,
           Len(db.items) \in Nat, Len(d.items) = Len(db.items) + 1,
           \A i \in 1..Len(d.items) :
              d.items[i] = IF i <= Len(db.items) THEN db.items[i] ELSE x
    PROVE  ListSet(d) = ListSet(db) /\ ItemSet(d) = ItemSet(db) \cup {x}
<1>1. ListSet(d) = ListSet(db)
  BY DEF ListSet
<1>2. \A i \in 1..Len(db.items) : i \in 1..Len(d.items) /\ d.items[i] = db.items[i]
  OBVIOUS
<1>3. Len(db.items) + 1 \in 1..Len(d.items) /\ d.items[Len(db.items) + 1] = x
  OBVIOUS
<1>4. \A i \in 1..Len(d.items) : i \in 1..Len(db.items) \/ d.items[i] = x
  OBVIOUS
<1>5. \A z : z \in ItemSet(d) <=> z \in ItemSet(db) \/ z = x
  <2>1. ASSUME NEW z \in ItemSet(db) PROVE z \in ItemSet(d)
    <3>1. PICK i \in 1..Len(db.items), j \in 1..Len(db.lists) :
             z = db.items[i] /\ db.lists[j].listId = db.items[i].listId
      BY ItemOut
    <3>2. i \in 1..Len(d.items) /\ d.items[i] = z
      BY <1>2, <3>1
    <3> QED BY <3>1, <3>2, ItemIn
  <2>2. x \in ItemSet(d)
    <3>1. PICK j \in 1..Len(d.lists) : d.lists[j].listId = x.listId
      OBVIOUS
    <3> QED BY <1>3, <3>1, ItemIn
  <2>3. ASSUME NEW z \in ItemSet(d), z # x PROVE z \in ItemSet(db)
    <3>1. PICK i \in 1..Len(d.items), j \in 1..Len(d.lists) :
             z = d.items[i] /\ d.lists[j].listId = d.items[i].listId
      BY ItemOut
    <3>2. i \in 1..Len(db.items) /\ z = db.items[i]
      BY <1>2, <1>4, <2>3, <3>1
    <3> QED BY <3>1, <3>2, ItemIn
  <2> QED BY <2>1, <2>2, <2>3
<1> QED BY <1>1, <1>5

\* An edited item stays in reach, under its new name.
LEMMA EditItemSets ==
    ASSUME NEW db \in DB, NEW d \in DB, NEW k \in 1..Len(db.items), NEW y,
           DistinctIds(db), d.lists = db.lists,
           \E j \in 1..Len(db.lists) : db.lists[j].listId = db.items[k].listId,
           y.listId = db.items[k].listId,
           Len(d.items) = Len(db.items),
           \A i \in 1..Len(db.items) : d.items[i] = IF i = k THEN y ELSE db.items[i]
    PROVE  /\ db.items[k] \in ItemSet(db)
           /\ ListSet(d) = ListSet(db)
           /\ ItemSet(d) = (ItemSet(db) \ {db.items[k]}) \cup {y}
<1>1. ListSet(d) = ListSet(db)
  BY DEF ListSet
<1>2. \A i \in 1..Len(db.items) : db.items[i] = db.items[k] => i = k
  BY DEF DistinctIds
<1>3. \A z : z \in ItemSet(d) <=> (z \in ItemSet(db) /\ z # db.items[k]) \/ z = y
  <2>1. ASSUME NEW z \in ItemSet(db), z # db.items[k] PROVE z \in ItemSet(d)
    <3>1. PICK i \in 1..Len(db.items), j \in 1..Len(db.lists) :
             z = db.items[i] /\ db.lists[j].listId = db.items[i].listId
      BY ItemOut
    <3>2. d.items[i] = z /\ i \in 1..Len(d.items)
      BY <2>1, <3>1
    <3> QED BY <3>1, <3>2, ItemIn
  <2>2. y \in ItemSet(d)
    <3>1. d.items[k] = y /\ k \in 1..Len(d.items)
      OBVIOUS
    <3> QED BY <3>1, ItemIn
  <2>3. ASSUME NEW z \in ItemSet(d), z # y PROVE z \in ItemSet(db) /\ z # db.items[k]
    <3>1. PICK i \in 1..Len(d.items), j \in 1..Len(d.lists) :
             z = d.items[i] /\ d.lists[j].listId = d.items[i].listId
      BY ItemOut
    <3>2. i # k /\ i \in 1..Len(db.items) /\ z = db.items[i]
      BY <2>3, <3>1
    <3> QED BY <1>2, <3>1, <3>2, ItemIn
  <2> QED BY <2>1, <2>2, <2>3
<1> QED BY <1>1, <1>3, ItemIn

\* A deleted item, and no other, is gone, though another one was moved.
LEMMA DeleteItemSets ==
    ASSUME NEW db \in DB, NEW d \in DB, NEW k \in 1..Len(db.items), DistinctIds(db),
           \E j \in 1..Len(db.lists) : db.lists[j].listId = db.items[k].listId,
           d.lists = db.lists, RowGone(db.items, d.items, k)
    PROVE  /\ db.items[k] \in ItemSet(db)
           /\ ListSet(d) = ListSet(db)
           /\ ItemSet(d) = ItemSet(db) \ {db.items[k]}
<1>1. ListSet(d) = ListSet(db)
  BY DEF ListSet
<1>2. \A i \in 1..Len(db.items) : db.items[i] = db.items[k] => i = k
  BY DEF DistinctIds
<1>3. \A z : z \in ItemSet(d) <=> z \in ItemSet(db) /\ z # db.items[k]
  <2>1. ASSUME NEW z \in ItemSet(db), z # db.items[k] PROVE z \in ItemSet(d)
    <3>1. PICK i \in 1..Len(db.items), j \in 1..Len(db.lists) :
             z = db.items[i] /\ db.lists[j].listId = db.items[i].listId
      BY ItemOut
    <3>2. PICK m \in 1..Len(d.items) : d.items[m] = db.items[i]
      BY <2>1, <3>1 DEF RowGone
    <3> QED BY <3>1, <3>2, ItemIn
  <2>2. ASSUME NEW z \in ItemSet(d) PROVE z \in ItemSet(db) /\ z # db.items[k]
    <3>1. PICK m \in 1..Len(d.items), j \in 1..Len(d.lists) :
             z = d.items[m] /\ d.lists[j].listId = d.items[m].listId
      BY ItemOut
    <3>2. PICK i \in 1..Len(db.items) : i # k /\ d.items[m] = db.items[i]
      BY DEF RowGone
    <3> QED BY <1>2, <3>1, <3>2, ItemIn
  <2> QED BY <2>1, <2>2
<1> QED BY <1>1, <1>3, ItemIn

-----------------------------------------------------------------------------
(* Nothing is lost: what is read changes by one write, and a write takes     *)
(* away at most the object it was to delete.                                 *)

\* A change of names, or none, and additions keep every id.
LEMMA IdsStay ==
    ASSUME NEW db \in DB, NEW d \in DB,
           Len(d.lists) >= Len(db.lists), Len(d.items) >= Len(db.items),
           \A i \in 1..Len(db.lists) : d.lists[i].listId = db.lists[i].listId,
           \A i \in 1..Len(db.items) : d.items[i].oid = db.items[i].oid
    PROVE  ListIdsOf(db) \subseteq ListIdsOf(d) /\ ItemIdsOf(db) \subseteq ItemIdsOf(d)
<1>1. /\ Len(db.lists) \in Nat /\ Len(d.lists) \in Nat
      /\ Len(db.items) \in Nat /\ Len(d.items) \in Nat
      /\ DOMAIN db.lists = 1..Len(db.lists) /\ DOMAIN d.lists = 1..Len(d.lists)
      /\ DOMAIN db.items = 1..Len(db.items) /\ DOMAIN d.items = 1..Len(d.items)
  BY DBFacts
<1>2. ListIdsOf(db) \subseteq ListIdsOf(d)
  BY <1>1 DEF ListIdsOf
<1>3. ItemIdsOf(db) \subseteq ItemIdsOf(d)
  BY <1>1 DEF ItemIdsOf
<1> QED BY <1>2, <1>3

\* A deletion takes the id of the deleted row, and no other.
LEMMA ListIdGone ==
    ASSUME NEW db \in DB, UniqueIds(db), NEW k \in 1..Len(db.lists), NEW d \in DB,
           d.lists = MoveLastOver(db.lists, k)
    PROVE  ListIdsOf(d) = ListIdsOf(db) \ {db.lists[k].listId}
<1>1. /\ Len(db.lists) \in Nat /\ DOMAIN db.lists = 1..Len(db.lists)
      /\ DOMAIN d.lists = 1..Len(d.lists)
  BY DBFacts
<1>2. RowGone(db.lists, d.lists, k)
  BY DBFacts, MovedRows
<1>3. \A i \in 1..Len(db.lists) : db.lists[i].listId = db.lists[k].listId => i = k
  BY DEF UniqueIds
<1>4. ASSUME NEW x \in ListIdsOf(d) PROVE x \in ListIdsOf(db) \ {db.lists[k].listId}
  <2>1. PICK j \in 1..Len(d.lists) : x = d.lists[j].listId
    BY <1>1, <1>4 DEF ListIdsOf
  <2>2. PICK i \in 1..Len(db.lists) : i # k /\ d.lists[j] = db.lists[i]
    BY <1>2 DEF RowGone
  <2> QED BY <1>1, <1>3, <2>1, <2>2 DEF ListIdsOf
<1>5. ASSUME NEW x \in ListIdsOf(db), x # db.lists[k].listId PROVE x \in ListIdsOf(d)
  <2>1. PICK i \in 1..Len(db.lists) : x = db.lists[i].listId
    BY <1>1, <1>5 DEF ListIdsOf
  <2>2. PICK j \in 1..Len(d.lists) : d.lists[j] = db.lists[i]
    BY <1>2, <1>5, <2>1 DEF RowGone
  <2> QED BY <1>1, <2>1, <2>2 DEF ListIdsOf
<1> QED BY <1>4, <1>5

LEMMA ItemIdGone ==
    ASSUME NEW db \in DB, UniqueIds(db), NEW k \in 1..Len(db.items), NEW d \in DB,
           d.items = MoveLastOver(db.items, k)
    PROVE  ItemIdsOf(d) = ItemIdsOf(db) \ {db.items[k].oid}
<1>1. /\ Len(db.items) \in Nat /\ DOMAIN db.items = 1..Len(db.items)
      /\ DOMAIN d.items = 1..Len(d.items)
  BY DBFacts
<1>2. RowGone(db.items, d.items, k)
  BY DBFacts, MovedRows
<1>3. \A i \in 1..Len(db.items) : db.items[i].oid = db.items[k].oid => i = k
  BY DEF UniqueIds
<1>4. ASSUME NEW x \in ItemIdsOf(d) PROVE x \in ItemIdsOf(db) \ {db.items[k].oid}
  <2>1. PICK j \in 1..Len(d.items) : x = d.items[j].oid
    BY <1>1, <1>4 DEF ItemIdsOf
  <2>2. PICK i \in 1..Len(db.items) : i # k /\ d.items[j] = db.items[i]
    BY <1>2 DEF RowGone
  <2> QED BY <1>1, <1>3, <2>1, <2>2 DEF ItemIdsOf
<1>5. ASSUME NEW x \in ItemIdsOf(db), x # db.items[k].oid PROVE x \in ItemIdsOf(d)
  <2>1. PICK i \in 1..Len(db.items) : x = db.items[i].oid
    BY <1>1, <1>5 DEF ItemIdsOf
  <2>2. PICK j \in 1..Len(d.items) : d.items[j] = db.items[i]
    BY <1>2, <1>5, <2>1 DEF RowGone
  <2> QED BY <1>1, <2>1, <2>2 DEF ItemIdsOf
<1> QED BY <1>4, <1>5

\* Every step but a relaunch keeps what is read, or takes one deleted object.
LEMMA KeptSteps ==
    ASSUME IInv, [Next]_vars, nav' # "launching" PROVE ListsKept /\ ItemsKept
<1> DEFINE Kept == ListsKept /\ ItemsKept
<1> USE DEF storeVars, shellVars, listsVars, itemsVars, screenVars
<1>0. /\ current \in DB /\ current' \in DB /\ UniqueIds(current)
      /\ listsTable \in Tables(List) /\ itemsTable \in Tables(Item)
      /\ Len(current.lists) \in Nat /\ Len(current.items) \in Nat
  BY NextInv, DBFacts DEF IInv, TypeOK, ShellTypeOK, ListsTypeOK, ItemsTypeOK, StoredOnce
<1>a. ASSUME UNCHANGED current PROVE Kept
  BY <1>a DEF ListsKept, ItemsKept
<1>b. ASSUME Len(current'.lists) >= Len(current.lists),
             Len(current'.items) >= Len(current.items),
             \A i \in 1..Len(current.lists) :
                current'.lists[i].listId = current.lists[i].listId,
             \A i \in 1..Len(current.items) : current'.items[i].oid = current.items[i].oid
      PROVE  Kept
  BY <1>0, <1>b, IdsStay DEF ListsKept, ItemsKept
<1> HIDE DEF Kept
<1>1. ASSUME NEW t \in Texts, NEW opens \in BOOLEAN, NEW commits \in BOOLEAN,
             AddListConfirmed(t, opens, commits)
      PROVE  Kept
  <2>1. CASE UNCHANGED current
    BY <1>a, <2>1
  <2>2. CASE /\ Accepts(t)
             /\ Write([current EXCEPT !.lists =
                         AddRow(@, [listId |-> NewListId, name |-> t])], commits)
    <3> DEFINE x == [listId |-> nextList, name |-> t]
    <3>1. t \in Names /\ nextList \in 1..MaxLists
      BY <1>1, <2>2, BoundsAssumption
      DEF Texts, Accepts, AddListConfirmed, AlertReady, IInv, ScreensCoherent, TypeOK, ListsTypeOK
    <3>2. x \in List /\ current' = [current EXCEPT !.lists = AddRow(@, x)]
      BY <2>2, <3>1 DEF Write, NewListId, List
    <3> HIDE DEF x
    <3>3. /\ current'.items = current.items
          /\ Len(current'.lists) = Len(current.lists) + 1
          /\ \A i \in 1..Len(current.lists) : current'.lists[i] = current.lists[i]
      BY <1>0, <3>2, AddListDB
    <3> QED BY <1>0, <1>b, <3>3
  <2> QED BY <1>1, <2>1, <2>2 DEF AddListConfirmed
<1>2. ASSUME NEW i \in 1..MaxLists, NEW opens \in BOOLEAN, NEW commits \in BOOLEAN,
             CommitDeleteList(i, opens, commits)
      PROVE  Kept
  <2>0. /\ i \in 1..Len(current.lists)
        /\ i \in DOMAIN listsTable.rows /\ UNCHANGED itemsVars
    BY <1>0, <1>2 DEF CommitDeleteList, IInv, RowCountsMatch, Tables
  <2>1. CASE UNCHANGED current
    BY <1>a, <2>1
  <2>2. CASE /\ Write([current EXCEPT !.lists = MoveLastOver(@, i)], commits)
             /\ listsTable' = DisableIfNone(EndEditing(DeleteRows(listsTable, i)),
                                            Len(current'.lists))
    <3>1. /\ current'.lists = MoveLastOver(current.lists, i)
          /\ current'.items = current.items
      BY <1>0, <2>2 DEF Write, DB
    <3>2. ListIdsOf(current') = ListIdsOf(current) \ {current.lists[i].listId}
      BY <1>0, <2>0, <3>1, ListIdGone
    <3>3. listsTable'.rows = RemoveRow(listsTable.rows, i)
      BY <1>0, <2>2 DEF DisableIfNone, EndEditing, DeleteRows, Tables
    <3>4. ItemIdsOf(current') = ItemIdsOf(current)
      BY <3>1 DEF ItemIdsOf
    <3> QED BY <2>0, <3>2, <3>3, <3>4 DEF Kept, ListsKept, ItemsKept
  <2> QED BY <1>2, <2>1, <2>2 DEF CommitDeleteList
<1>3. ASSUME NEW t \in Texts, NEW opens \in BOOLEAN, NEW commits \in BOOLEAN,
             AddItemConfirmed(t, opens, commits)
      PROVE  Kept
  <2>1. CASE UNCHANGED current
    BY <1>a, <2>1
  <2>2. CASE /\ Accepts(t)
             /\ Write([current EXCEPT !.items =
                         AddRow(@, [oid |-> nextItem, listId |-> toDoList, name |-> t])],
                      commits)
    <3> DEFINE x == [oid |-> nextItem, listId |-> toDoList, name |-> t]
    <3>1. t \in Names /\ nextItem \in 1..MaxItems /\ nav = "items"
      BY <1>3, <2>2, BoundsAssumption
      DEF Texts, Accepts, AddItemConfirmed, AlertReady, IInv, ScreensCoherent, TypeOK, ItemsTypeOK
    <3>2. toDoList \in 1..MaxLists
      BY <3>1, OpenListRow, OpenListFacts
    <3>3. x \in Item /\ current' = [current EXCEPT !.items = AddRow(@, x)]
      BY <2>2, <3>1, <3>2 DEF Write, Item
    <3> HIDE DEF x
    <3>4. /\ current'.lists = current.lists
          /\ Len(current'.items) = Len(current.items) + 1
          /\ \A i \in 1..Len(current.items) : current'.items[i] = current.items[i]
      BY <1>0, <3>3, AddItemDB
    <3> QED BY <1>0, <1>b, <3>4
  <2> QED BY <1>3, <2>1, <2>2 DEF AddItemConfirmed, ItemsReturn, ItemsCrash
<1>4. ASSUME NEW t \in Texts, NEW opens \in BOOLEAN, NEW commits \in BOOLEAN,
             EditItemConfirmed(t, opens, commits)
      PROVE  Kept
  <2> DEFINE k == ItemSlot(alert.row)
  <2>0. /\ alert.kind = "editItem" /\ nav = "items"
        /\ alert.row \in 1..Len(ItemResults(current))
    BY <1>4 DEF EditItemConfirmed, AlertReady, IInv, ScreensCoherent, EditHitsCapturedItem
  <2>1. k \in 1..Len(current.items) /\ CapturedStored /\ CapturedName = current.items[k].name
    BY <2>0, CapturedFacts, ItemResultsFacts DEF Matches
  <2>2. CASE UNCHANGED current
    BY <1>a, <2>2
  <2>3. CASE /\ ~EditReturns(t, opens)
             /\ Write([current EXCEPT !.items[ItemSlot(alert.row)].name = t], commits)
    <3>1. t \in Names /\ t # current.items[k].name
      BY <2>1, <2>3 DEF EditReturns, Texts, Accepts
    <3>2. current' = [current EXCEPT !.items[k].name = t]
      BY <2>3 DEF Write
    <3> HIDE DEF k
    <3>3. /\ current'.lists = current.lists /\ Len(current'.items) = Len(current.items)
          /\ \A i \in 1..Len(current.items) : current'.items[i].oid = current.items[i].oid
      BY <1>0, <2>1, <3>1, <3>2, EditItemDB
    <3> QED BY <1>0, <1>b, <3>3
  <2> QED BY <1>4, <2>2, <2>3 DEF EditItemConfirmed, ItemsReturn, ItemsCrash
<1>5. ASSUME NEW t \in Texts, NEW opens \in BOOLEAN, NEW commits \in BOOLEAN,
             TextFieldDidEndEditing(t, opens, commits)
      PROVE  Kept
  <2> DEFINE k == ListSlot
  <2>0. nav \in {"items", "popping"}
    BY <1>5 DEF TextFieldDidEndEditing, FieldEnds, IInv, ScreensCoherent, Screens,
       TypeOK, ShellTypeOK
  <2>1. ListStored /\ k \in 1..Len(current.lists)
    BY <2>0, OpenListRow
  <2>2. CASE UNCHANGED current
    BY <1>a, <2>2
  <2>3. CASE /\ Accepts(t) /\ t # ListName
             /\ Write([current EXCEPT !.lists[ListSlot].name = t], commits)
    <3>1. t \in Names /\ t # current.lists[k].name
      BY <2>3 DEF Texts, Accepts, ListName
    <3>2. current' = [current EXCEPT !.lists[k].name = t]
      BY <2>3 DEF Write
    <3> HIDE DEF k
    <3>3. /\ current'.items = current.items /\ Len(current'.lists) = Len(current.lists)
          /\ \A i \in 1..Len(current.lists) : current'.lists[i].listId = current.lists[i].listId
      BY <1>0, <2>1, <3>1, <3>2, RenameListDB
    <3> QED BY <1>0, <1>b, <3>3
  <2> QED BY <1>5, <2>1, <2>2, <2>3 DEF TextFieldDidEndEditing
<1>6. ASSUME NEW i \in 1..MaxItems, NEW opens \in BOOLEAN, NEW commits \in BOOLEAN,
             CommitDeleteItem(i, opens, commits)
      PROVE  Kept
  <2> DEFINE k == ItemSlot(i)
  <2>0. i \in 1..Len(ItemResults(current)) /\ i \in DOMAIN itemsTable.rows
    BY <1>6, ShownItemRow DEF CommitDeleteItem, Facing
  <2>1. k \in 1..Len(current.items) /\ ItemResults(current)[i] = current.items[k]
    BY <2>0, ItemResultsFacts
  <2>2. CASE UNCHANGED current
    BY <1>a, <2>2
  <2>3. CASE /\ Write([current EXCEPT !.items = MoveLastOver(@, ItemSlot(i))], commits)
             /\ itemsTable' = DisableIfNone(EndEditing(DeleteRows(itemsTable, i)),
                                            Len(Filter(current'.items, toDoList)))
    <3>1. /\ current'.items = MoveLastOver(current.items, k)
          /\ current'.lists = current.lists
      BY <1>0, <2>3 DEF Write, DB
    <3> HIDE DEF k
    <3>2. ItemIdsOf(current') = ItemIdsOf(current) \ {ItemResults(current)[i].oid}
      BY <1>0, <2>1, <3>1, ItemIdGone
    <3>3. itemsTable'.rows = RemoveRow(itemsTable.rows, i)
      BY <1>0, <2>3 DEF DisableIfNone, EndEditing, DeleteRows, Tables
    <3>4. ListIdsOf(current') = ListIdsOf(current)
      BY <3>1 DEF ListIdsOf
    <3> QED BY <2>0, <3>2, <3>3, <3>4 DEF Kept, ListsKept, ItemsKept
  <2> QED BY <1>6, <2>2, <2>3 DEF CommitDeleteItem
<1>7. ASSUME NEW i \in 1..MaxLists, SelectList(i) \/ RedrawListRow(i) PROVE Kept
  BY <1>a, <1>7 DEF SelectList, RedrawListRow
<1>8. ASSUME NEW i \in 1..MaxItems, SelectItem(i) \/ RedrawItemRow(i) PROVE Kept
  BY <1>a, <1>8 DEF SelectItem, RedrawItemRow
<1>9. ASSUME NEW opens \in BOOLEAN, ListsViewDidAppear(opens) \/ ItemsViewDidLoad(opens)
      PROVE  Kept
  BY <1>a, <1>9 DEF ListsViewDidAppear, ItemsViewDidLoad
<1>10. ASSUME \/ AddListTapped \/ ListsEditDoneTapped \/ SwipeList \/ SwipeListEnds
              \/ CancelAlert \/ UNCHANGED vars
       PROVE  Kept
  BY <1>a, <1>10 DEF AddListTapped, ListsEditDoneTapped, SwipeList, SwipeListEnds,
     CancelAlert, AlertCancelled, vars
<1>11. ASSUME \/ AddItemTapped \/ ItemsEditDoneTapped \/ SwipeItem \/ SwipeItemEnds
              \/ NameFieldTapped \/ BackTapped
       PROVE  Kept
  BY <1>a, <1>11 DEF AddItemTapped, ItemsEditDoneTapped, SwipeItem, SwipeItemEnds,
     NameFieldTapped, BackTapped
<1>12. ListsNext => Kept
  BY <1>1, <1>2, <1>7, <1>9, <1>10 DEF ListsNext
<1>13. ItemsNext => Kept
  BY <1>3, <1>4, <1>5, <1>6, <1>8, <1>9, <1>11 DEF ItemsNext
<1>14. ~Relaunch
  BY DEF Relaunch
<1> QED BY <1>10, <1>12, <1>13, <1>14 DEF Next, Kept

\* What is read neither loses nor duplicates an object: each is stored once, and
\* only the object the Results had at the row taken off the screen goes.
THEOREM NothingLost == Spec => ObjectsKept
<1>1. IInv /\ [Next]_vars => [nav' # "launching" => ListsKept /\ ItemsKept]_vars
  BY KeptSteps
<1>2. IInv => StoredOnce
  BY DEF IInv
<1> QED BY <1>1, <1>2, Invariance, PTL DEF Spec, ObjectsKept

\* The file as the abstract specification sees it.
LEMMA StoredSets == StoredLists = ListSet(durable) /\ StoredItems = ItemSet(durable)
BY DEF StoredLists, StoredItems, ListSet, ItemSet

LEMMA StoredSetsNext ==
    StoredLists' = ListSet(durable') /\ StoredItems' = ItemSet(durable')
BY DEF StoredLists, StoredItems, ListSet, ItemSet

\* Every step of the app is a step of ToDoData or leaves its data alone.
LEMMA DataStep ==
    ASSUME IInv, OldOwners, [Next]_vars
    PROVE  [Data!Next]_(Data!vars)
<1>1. /\ durable \in DB /\ durable' \in DB /\ UniqueIds(durable)
      /\ nextList \in Nat /\ nextItem \in Nat
      /\ durable.lists \in Seq(List) /\ durable.items \in Seq(Item)
  <2>1. IInv'
    BY NextInv
  <2>2. /\ durable \in DB /\ durable' \in DB /\ UniqueIds(durable)
        /\ nextList \in Nat /\ nextItem \in Nat
    BY <2>1, BoundsAssumption
    DEF IInv, TypeOK, ShellTypeOK, ItemsTypeOK, ListsTypeOK, StoredOnce
  <2> QED BY <2>2 DEF DB
<1>2. DistinctIds(durable)
  BY <1>1 DEF UniqueIds, DistinctIds
<1>3. FileStep
  BY FileSteps
<1> DEFINE SL == ListSet(durable)
           SI == ItemSet(durable)
           TL == ListSet(durable')
           TI == ItemSet(durable')
<1>s. StoredLists = SL /\ StoredItems = SI /\ StoredLists' = TL /\ StoredItems' = TI
  BY StoredSets, StoredSetsNext
<1>4. CASE UNCHANGED durable
  BY <1>4 DEF Data!vars, StoredLists, StoredItems
<1>5. CASE FileAddList
  <2>1. PICK t \in Names :
           /\ nextList \in 1..MaxLists
           /\ durable' = [durable EXCEPT !.lists = AddRow(@, [listId |-> nextList, name |-> t])]
    BY <1>5 DEF FileAddList
  <2> DEFINE x == [listId |-> nextList, name |-> t]
  <2>2. /\ x \in List
        /\ \A k \in 1..Len(durable.items) : durable.items[k].listId # x.listId
    <3>1. \A k \in 1..Len(durable.items) : durable.items[k].listId \in Nat
      BY <1>1, DBFacts, BoundsAssumption
    <3> QED BY <1>1, <2>1, <3>1 DEF List, OldOwners
  <2>3. TL = SL \cup {x} /\ TI = SI
    <3>1. /\ durable'.items = durable.items
          /\ Len(durable.lists) \in Nat /\ Len(durable'.lists) = Len(durable.lists) + 1
          /\ \A i \in 1..Len(durable'.lists) :
                durable'.lists[i] = IF i <= Len(durable.lists) THEN durable.lists[i] ELSE x
      BY <1>1, <2>1, <2>2, AddListDB
    <3>2. \A k \in 1..Len(durable.items) : durable.items[k].listId # x.listId
      BY <2>2
    <3> HIDE DEF x
    <3> QED BY <1>1, <3>1, <3>2, AddListSets
  <2>4. \A z \in SL : z.listId # nextList
    <3>1. \A i \in 1..Len(durable.lists) : durable.lists[i].listId \in Nat
      BY <1>1, DBFacts
    <3>2. \A i \in 1..Len(durable.lists) : durable.lists[i].listId # nextList
      BY <1>1, <3>1 DEF UniqueIds
    <3> QED BY <1>1, <3>2, SetsIff
  <2>5. Data!AddList
    <3> HIDE DEF SL, SI, TL, TI
    <3> QED BY <1>s, <2>1, <2>3, <2>4 DEF Data!AddList
  <2> QED BY <2>5 DEF Data!Next
<1>6. CASE FileRenameList
  <2>1. PICK k \in 1..Len(durable.lists), t \in Names :
           /\ t # durable.lists[k].name
           /\ durable' = [durable EXCEPT !.lists[k].name = t]
    BY <1>6 DEF FileRenameList
  <2> DEFINE y == [durable.lists[k] EXCEPT !.name = t]
  <2>2. durable'.lists = [durable.lists EXCEPT ![k] = y] /\ durable'.items = durable.items
    BY <1>1, <2>1 DEF DB
  <2>3. y.listId = durable.lists[k].listId
    <3>1. durable.lists[k] \in List
      BY <1>1
    <3> QED BY <3>1 DEF List
  <2> HIDE DEF y
  <2>4. /\ Len(durable'.lists) = Len(durable.lists)
        /\ \A i \in 1..Len(durable.lists) :
              durable'.lists[i] = IF i = k THEN y ELSE durable.lists[i]
    BY <1>1, <2>2
  <2>5. /\ durable.lists[k] \in SL /\ TI = SI
        /\ TL = (SL \ {durable.lists[k]}) \cup {y}
    <3>1. durable'.items = durable.items
      BY <2>2
    <3> QED BY <1>1, <1>2, <2>3, <2>4, <3>1, RenameListSets
  <2>6. Data!RenameList
    <3> HIDE DEF SL, SI, TL, TI
    <3> QED BY <1>s, <2>1, <2>5 DEF Data!RenameList, y
  <2> QED BY <2>6 DEF Data!Next
<1>7. CASE FileDeleteList
  <2>1. PICK k \in 1..Len(durable.lists) :
           durable' = [durable EXCEPT !.lists = MoveLastOver(@, k)]
    BY <1>7 DEF FileDeleteList
  <2>2. durable'.items = durable.items /\ durable'.lists = MoveLastOver(durable.lists, k)
    BY <1>1, <2>1 DEF DB
  <2>3. RowGone(durable.lists, durable'.lists, k)
    BY <1>1, <2>2, MovedRows
  <2>4. /\ durable.lists[k] \in SL /\ TL = SL \ {durable.lists[k]}
        /\ TI = {y \in SI : y.listId # durable.lists[k].listId}
    BY <1>1, <1>2, <2>2, <2>3, DeleteListSets
  <2>5. Data!DeleteList
    <3> HIDE DEF SL, SI, TL, TI
    <3> QED BY <1>s, <2>4 DEF Data!DeleteList
  <2> QED BY <2>5 DEF Data!Next
<1>8. CASE FileAddItem
  <2>1. PICK t \in Names, j \in 1..Len(durable.lists) :
           /\ nextItem \in 1..MaxItems
           /\ durable' = [durable EXCEPT !.items =
                            AddRow(@, [oid |-> nextItem, listId |-> durable.lists[j].listId,
                                       name |-> t])]
    BY <1>8 DEF FileAddItem
  <2> DEFINE x == [oid |-> nextItem, listId |-> durable.lists[j].listId, name |-> t]
  <2>2. x \in Item
    BY <1>1, <2>1, DBFacts DEF Item
  <2>3. /\ durable'.lists = durable.lists
        /\ Len(durable.items) \in Nat /\ Len(durable'.items) = Len(durable.items) + 1
        /\ \A i \in 1..Len(durable'.items) :
              durable'.items[i] = IF i <= Len(durable.items) THEN durable.items[i] ELSE x
    BY <1>1, <2>1, <2>2, AddItemDB
  <2>4. TL = SL /\ TI = SI \cup {x}
    <3>1. \E m \in 1..Len(durable.lists) : durable.lists[m].listId = x.listId
      OBVIOUS
    <3> HIDE DEF x
    <3> QED BY <1>1, <2>3, <3>1, AddItemSets
  <2>5. \A y \in SI : y.oid # nextItem
    <3>1. \A i \in 1..Len(durable.items) : durable.items[i].oid \in Nat
      BY <1>1, DBFacts
    <3>2. \A i \in 1..Len(durable.items) : durable.items[i].oid # nextItem
      BY <1>1, <3>1 DEF UniqueIds
    <3> QED BY <1>1, <3>2, ItemOut
  <2>6. durable.lists[j] \in SL
    BY <1>1, SetsIff
  <2>7. Data!AddItem
    <3> HIDE DEF SL, SI, TL, TI
    <3> QED BY <1>s, <2>1, <2>4, <2>5, <2>6 DEF Data!AddItem
  <2> QED BY <2>7 DEF Data!Next
<1>9. CASE FileEditItem
  <2>1. PICK k \in 1..Len(durable.items), t \in Names :
           /\ Owned(k) /\ t # durable.items[k].name
           /\ durable' = [durable EXCEPT !.items[k].name = t]
    BY <1>9 DEF FileEditItem
  <2> DEFINE y == [durable.items[k] EXCEPT !.name = t]
  <2>2. durable'.items = [durable.items EXCEPT ![k] = y] /\ durable'.lists = durable.lists
    BY <1>1, <2>1 DEF DB
  <2>3. y.listId = durable.items[k].listId
    <3>1. durable.items[k] \in Item
      BY <1>1
    <3> QED BY <3>1 DEF Item
  <2> HIDE DEF y
  <2>4. /\ Len(durable'.items) = Len(durable.items)
        /\ \A i \in 1..Len(durable.items) :
              durable'.items[i] = IF i = k THEN y ELSE durable.items[i]
    BY <1>1, <2>2
  <2>5. /\ durable.items[k] \in SI /\ TL = SL
        /\ TI = (SI \ {durable.items[k]}) \cup {y}
    <3>1. \E j \in 1..Len(durable.lists) : durable.lists[j].listId = durable.items[k].listId
      BY <2>1 DEF Owned
    <3>2. durable'.lists = durable.lists
      BY <2>2
    <3> QED BY <1>1, <1>2, <2>3, <2>4, <3>1, <3>2, EditItemSets
  <2>6. Data!EditItem
    <3> HIDE DEF SL, SI, TL, TI
    <3> QED BY <1>s, <2>5 DEF Data!EditItem, y
  <2> QED BY <2>6 DEF Data!Next
<1>10. CASE FileDeleteItem
  <2>1. PICK k \in 1..Len(durable.items) :
           Owned(k) /\ durable' = [durable EXCEPT !.items = MoveLastOver(@, k)]
    BY <1>10 DEF FileDeleteItem
  <2>2. durable'.lists = durable.lists /\ durable'.items = MoveLastOver(durable.items, k)
    BY <1>1, <2>1 DEF DB
  <2>3. RowGone(durable.items, durable'.items, k)
    BY <1>1, <2>2, MovedRows
  <2>4. durable.items[k] \in SI /\ TL = SL /\ TI = SI \ {durable.items[k]}
    <3>1. \E j \in 1..Len(durable.lists) : durable.lists[j].listId = durable.items[k].listId
      BY <2>1 DEF Owned
    <3>2. durable'.lists = durable.lists
      BY <2>2
    <3> QED BY <1>1, <1>2, <2>3, <3>1, <3>2, DeleteItemSets
  <2>5. Data!DeleteItem
    <3> HIDE DEF SL, SI, TL, TI
    <3> QED BY <1>s, <2>4 DEF Data!DeleteItem
  <2> QED BY <2>5 DEF Data!Next
<1> QED BY <1>3, <1>4, <1>5, <1>6, <1>7, <1>8, <1>9, <1>10 DEF FileStep

\* Whatever is typed, tapped, refused by the file or killed, the file changes
\* only by whole operations on the user's lists and items: the app implements
\* ToDoData.
THEOREM Refinement == Spec => ImplementsToDoData
<1>1. Init => OldOwners
  BY DEF Init, OldOwners
<1>2. IInv /\ OldOwners /\ [Next]_vars => OldOwners'
  BY OldOwnersInv
<1>3. Init => Data!Init
  BY DEF Init, Data!Init, StoredLists, StoredItems
<1>4. IInv /\ OldOwners /\ [Next]_vars => [Data!Next]_(Data!vars)
  BY DataStep
<1> QED BY <1>1, <1>2, <1>3, <1>4, Invariance, PTL DEF Spec, ImplementsToDoData, Data!Spec
=============================================================================
