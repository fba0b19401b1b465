-------------------------- MODULE DeepChangesProofs --------------------------
(***************************************************************************)
(* The checker's answers are exact for any tables, links and depth, and in  *)
(* whatever order rows are asked about.                                     *)
(***************************************************************************)
EXTENDS DeepChanges, FiniteSetTheorems, WellFoundedInduction, TLAPS

-----------------------------------------------------------------------------
(* Induction and recursion *)

LEMMA LeastNumber ==
    ASSUME NEW T \in SUBSET Nat, T # {}
    PROVE  \E x \in T : \A y \in T : x <= y
<1>1. PICK x \in T : \A y \in T : ~(<<y, x>> \in OpToRel(<, Nat))
  BY WFMin, NatLessThanWellFounded
<1>2. ASSUME NEW y \in T PROVE x <= y
  <2>1. ~(y < x)
    BY <1>1 DEF OpToRel
  <2> QED BY <2>1
<1> QED BY <1>2

LEMMA Induction ==
    ASSUME NEW n \in Nat, NEW S, 0 \in S, \A k \in 0 .. n - 1 : k \in S => k + 1 \in S
    PROVE  \A k \in 0 .. n : k \in S
<1> DEFINE T == {k \in 0 .. n : k \notin S}
<1> SUFFICES ASSUME T # {} PROVE FALSE
  OBVIOUS
<1>1. T \in SUBSET Nat
  OBVIOUS
<1>2. PICK x \in T : \A y \in T : x <= y
  BY <1>1, LeastNumber
<1>3. x \in 0 .. n /\ x \notin S /\ x # 0
  BY <1>2
<1>4. x - 1 \in 0 .. n - 1 /\ x - 1 \in S
  BY <1>2, <1>3
<1>5. (x - 1) + 1 \in S
  BY <1>4
<1> QED BY <1>3, <1>5

(* g begins with b and its k-th step is F[k]. *)
Unfolds(g, b, F, n) == g[0] = b /\ \A k \in 1 .. n : g[k] = F[k][g[k - 1]]

(* A function may be defined from its value one step before. *)
LEMMA Recursion ==
    ASSUME NEW n \in Nat, NEW V, NEW b \in V, NEW F \in [1 .. n -> [V -> V]]
    PROVE  \E g \in [0 .. n -> V] : Unfolds(g, b, F, n)
<1> DEFINE Upto(m, g) == Unfolds(g, b, F, m)
           S == {m \in 0 .. n : \E g \in [0 .. m -> V] : Upto(m, g)}
<1>1. 0 \in S
  <2> DEFINE g == [k \in 0 .. 0 |-> b]
  <2>1. g \in [0 .. 0 -> V] /\ g[0] = b
    OBVIOUS
  <2>2. Upto(0, g)
    BY <2>1 DEF Unfolds
  <2>3. \E f \in [0 .. 0 -> V] : Upto(0, f)
    <3> HIDE DEF g, Upto
    <3> QED BY <2>1, <2>2
  <2> QED BY <2>3
<1>2. ASSUME NEW m \in 0 .. n - 1, m \in S PROVE m + 1 \in S
  <2>1. PICK g \in [0 .. m -> V] : Upto(m, g)
    BY <1>2
  <2> DEFINE h == [k \in 0 .. m + 1 |-> IF k = m + 1 THEN F[m + 1][g[m]] ELSE g[k]]
  <2>2. F[m + 1] \in [V -> V] /\ g[m] \in V
    BY <1>2
  <2>3. h \in [0 .. m + 1 -> V]
    BY <2>2
  <2>4. h[0] = b
    BY <2>1 DEF Unfolds
  <2>5. ASSUME NEW k \in 1 .. m + 1 PROVE h[k] = F[k][h[k - 1]]
    <3>1. k - 1 \in 0 .. m /\ h[k - 1] = g[k - 1]
      OBVIOUS
    <3>2. CASE k = m + 1
      BY <3>1, <3>2
    <3>3. CASE k # m + 1
      <4>1. k \in 1 .. m
        BY <3>3
      <4>2. g[k] = F[k][g[k - 1]]
        BY <2>1, <4>1 DEF Unfolds
      <4> QED BY <3>1, <4>1, <4>2
    <3> QED BY <3>2, <3>3
  <2>6. Upto(m + 1, h)
    <3> HIDE DEF h
    <3> QED BY <2>4, <2>5 DEF Unfolds
  <2>7. \E f \in [0 .. m + 1 -> V] : Upto(m + 1, f)
    <3> HIDE DEF h, Upto
    <3> QED BY <2>3, <2>6
  <2>8. m + 1 \in 0 .. n
    OBVIOUS
  <2> HIDE DEF Upto
  <2> QED BY <2>7, <2>8
<1>3. \A m \in 0 .. n : m \in S
  <2> HIDE DEF S
  <2> QED BY <1>1, <1>2, Induction
<1>4. \E g \in [0 .. n -> V] : Upto(n, g)
  <2> HIDE DEF Upto
  <2> QED BY <1>3
<1> QED BY <1>4

(* A loop passes through one value per step. *)
LEMMA LoopTrace ==
    ASSUME NEW n \in Nat, NEW V, NEW b \in V, NEW F \in [1 .. n -> [V -> V]]
    PROVE  \E g \in [0 .. n -> V] : Unfolds(g, b, F, n) /\ Loop(F, b) = g[n]
<1> DEFINE Body(f) == [k \in 0 .. n |-> IF k = 0 THEN b ELSE F[k][f[k - 1]]]
           f == CHOOSE h : h = Body(h)
<1>1. Len(F) = n
  OBVIOUS
<1>2. Loop(F, b) = f[n]
  BY <1>1 DEF Loop
<1>3. PICK g \in [0 .. n -> V] : Unfolds(g, b, F, n)
  BY Recursion
<1>4. g = Body(g)
  <2>1. \A k \in 0 .. n : g[k] = Body(g)[k]
    BY <1>3 DEF Unfolds
  <2> QED BY <2>1
<1>5. f = Body(f)
  BY <1>4
<1>6. f[0] = b /\ \A k \in 1 .. n : f[k] = F[k][f[k - 1]]
  <2>1. \A k \in 0 .. n : f[k] = IF k = 0 THEN b ELSE F[k][f[k - 1]]
    BY <1>5
  <2> HIDE DEF f
  <2> QED BY <2>1
<1>7. \A k \in 0 .. n : f[k] = g[k]
  <2> DEFINE S == {k \in 0 .. n : f[k] = g[k]}
  <2> HIDE DEF f
  <2>1. 0 \in S
    BY <1>3, <1>6 DEF Unfolds
  <2>2. ASSUME NEW k \in 0 .. n - 1, k \in S PROVE k + 1 \in S
    <3>1. k + 1 \in 1 .. n /\ (k + 1) - 1 = k
      OBVIOUS
    <3>2. f[k + 1] = F[k + 1][f[k]] /\ g[k + 1] = F[k + 1][g[k]]
      BY <1>3, <1>6, <3>1 DEF Unfolds
    <3> QED BY <2>2, <3>1, <3>2
  <2>3. \A k \in 0 .. n : k \in S
    <3> HIDE DEF S
    <3> QED BY <2>1, <2>2, Induction
  <2> QED BY <2>3
<1> QED BY <1>2, <1>3, <1>7

-----------------------------------------------------------------------------
(* Tables, rows and links fit each other. *)

LayoutOK ==
    /\ columns \in Seq(Seq(1 .. Len(columns))) /\ columns # <<>>
    /\ tableOf \in Seq(1 .. Len(columns))

LinksOK ==
    \A r \in Rows :
        /\ links[r] \in Seq(Seq(Rows)) /\ DOMAIN links[r] = DOMAIN columns[tableOf[r]]
        /\ \A c \in DOMAIN links[r] :
              \A k \in DOMAIN links[r][c] : tableOf[links[r][c][k]] = columns[tableOf[r]][c]

Setting == LayoutOK /\ LinksOK /\ modified \subseteq Rows

LEMMA TablesNumbered ==
    ASSUME LayoutOK
    PROVE  /\ Len(columns) \in Nat \ {0} /\ Tables = 1 .. Len(columns)
           /\ \A t \in Tables : /\ Len(columns[t]) \in Nat
                                /\ DOMAIN columns[t] = 1 .. Len(columns[t])
                                /\ \A c \in DOMAIN columns[t] : columns[t][c] \in Tables
           /\ Rows = 1 .. Len(tableOf) /\ \A r \in Rows : tableOf[r] \in Tables
BY DEF LayoutOK, Tables, Rows

-----------------------------------------------------------------------------
(* find_related_tables *)

Finders == [Seq(Tables) -> [Tables -> Seq(Tables)]]

(* The search from one table, as a loop over its links. *)
LEMMA FindLoop ==
    ASSUME LayoutOK, NEW d \in Finders, NEW out \in Seq(Tables), NEW t \in Tables,
           t \notin ToSet(out)
    PROVE  \E g \in [0 .. Len(columns[t]) -> Seq(Tables)] :
              /\ g[0] = Append(out, t)
              /\ \A c \in 1 .. Len(columns[t]) : g[c] = d[g[c - 1]][columns[t][c]]
              /\ FindRelatedTables(d, out, t) = g[Len(columns[t])]
<1> DEFINE n == Len(columns[t])
           F == [c \in DOMAIN columns[t] |-> [o \in Seq(Tables) |-> d[o][columns[t][c]]]]
           V == Seq(Tables)
           b == Append(out, t)
<1>1. n \in Nat /\ DOMAIN columns[t] = 1 .. n /\ \A c \in 1 .. n : columns[t][c] \in Tables
  BY TablesNumbered
<1>2. F \in [1 .. n -> [Seq(Tables) -> Seq(Tables)]]
  BY <1>1 DEF Finders
<1>3. b \in V
  OBVIOUS
<1>4. FindRelatedTables(d, out, t) = Loop(F, b)
  BY DEF FindRelatedTables
<1> HIDE DEF F, n, b
<1>5. PICK g \in [0 .. n -> V] : Unfolds(g, b, F, n) /\ Loop(F, b) = g[n]
  BY <1>1, <1>2, <1>3, LoopTrace
<1>6. g[0] = b /\ \A c \in 1 .. n : g[c] = F[c][g[c - 1]]
  BY <1>5 DEF Unfolds
<1>7. ASSUME NEW c \in 1 .. n PROVE g[c] = d[g[c - 1]][columns[t][c]]
  <2>1. c - 1 \in 0 .. n /\ g[c - 1] \in Seq(Tables)
    BY <1>1
  <2>2. F[c][g[c - 1]] = d[g[c - 1]][columns[t][c]]
    BY <1>1, <2>1 DEF F
  <2> QED BY <1>6, <2>2
<1> QED BY <1>4, <1>5, <1>6, <1>7 DEF n, b

LEMMA FindType ==
    ASSUME LayoutOK, NEW d \in Finders, NEW out \in Seq(Tables), NEW t \in Tables
    PROVE  FindRelatedTables(d, out, t) \in Seq(Tables)
<1>1. CASE t \in ToSet(out)
  BY <1>1 DEF FindRelatedTables
<1>2. CASE t \notin ToSet(out)
  <2>1. PICK g \in [0 .. Len(columns[t]) -> Seq(Tables)] :
            FindRelatedTables(d, out, t) = g[Len(columns[t])]
    BY <1>2, FindLoop
  <2> QED BY <2>1, TablesNumbered
<1> QED BY <1>1, <1>2

LEMMA FindUnfolds ==
    ASSUME LayoutOK
    PROVE  /\ \A n \in 0 .. Len(columns) : Find[n] \in Finders
           /\ \A out \in Seq(Tables), t \in Tables : Find[0][out][t] = out
           /\ \A n \in 1 .. Len(columns), out \in Seq(Tables), t \in Tables :
                Find[n][out][t] = FindRelatedTables(Find[n - 1], out, t)
<1> DEFINE N == Len(columns)
           Step(d) == [out \in Seq(Tables) |-> [t \in Tables |-> FindRelatedTables(d, out, t)]]
           Body(f) == [n \in 0 .. N |->
                        [out \in Seq(Tables) |-> [t \in Tables |->
                            IF n = 0 THEN out ELSE FindRelatedTables(f[n - 1], out, t)]]]
           b == [out \in Seq(Tables) |-> [t \in Tables |-> out]]
           F == [k \in 1 .. N |-> [d \in Finders |-> Step(d)]]
<1>1. N \in Nat
  BY TablesNumbered
<1>2. b \in Finders
  BY DEF Finders
<1>3. \A d \in Finders : Step(d) \in Finders
  <2> SUFFICES ASSUME NEW d \in Finders PROVE Step(d) \in Finders
    OBVIOUS
  <2>1. \A out \in Seq(Tables), t \in Tables : FindRelatedTables(d, out, t) \in Seq(Tables)
    BY FindType
  <2> QED BY <2>1 DEF Finders
<1>4. F \in [1 .. N -> [Finders -> Finders]]
  <2> HIDE DEF Step
  <2> QED BY <1>3
<1>5. PICK g \in [0 .. N -> Finders] : Unfolds(g, b, F, N)
  <2> HIDE DEF F, b, N
  <2> QED BY <1>1, <1>2, <1>4, Recursion
<1>6. g[0] = b /\ \A n \in 1 .. N : g[n] = Step(g[n - 1])
  <2>1. g[0] = b /\ \A n \in 1 .. N : g[n] = F[n][g[n - 1]]
    <3> HIDE DEF F, b
    <3> QED BY <1>5 DEF Unfolds
  <2>2. ASSUME NEW n \in 1 .. N PROVE F[n][g[n - 1]] = Step(g[n - 1])
    <3>1. g[n - 1] \in Finders
      BY <1>1
    <3> HIDE DEF Step
    <3> QED BY <3>1
  <2> HIDE DEF F, b, Step
  <2> QED BY <2>1, <2>2
<1>7. g = Body(g)
  <2>1. ASSUME NEW n \in 0 .. N PROVE g[n] = Body(g)[n]
    <3>1. CASE n = 0
      BY <1>6, <3>1
    <3>2. CASE n # 0
      <4>1. n \in 1 .. N
        BY <1>1, <3>2
      <4>2. Body(g)[n] = Step(g[n - 1])
        BY <3>2
      <4> QED BY <1>6, <4>1, <4>2
    <3> QED BY <3>1, <3>2
  <2> HIDE DEF N
  <2> QED BY <2>1
<1>8. Find = Body(Find)
  <2>1. Find = CHOOSE f : f = Body(f)
    BY DEF Find
  <2> HIDE DEF Body
  <2> QED BY <1>7, <2>1
<1>9. Find[0] = b /\ \A n \in 1 .. N : Find[n] = Step(Find[n - 1])
  <2>1. \A n \in 0 .. N : Find[n] = Body(Find)[n]
    BY <1>8
  <2>2. Find[0] = b
    BY <1>1, <2>1
  <2>3. ASSUME NEW n \in 1 .. N PROVE Find[n] = Step(Find[n - 1])
    BY <2>1
  <2> QED BY <2>2, <2>3
<1>10. \A n \in 0 .. N : Find[n] \in Finders
  <2> DEFINE S == {n \in 0 .. N : Find[n] \in Finders}
  <2> HIDE DEF Step, b
  <2>1. 0 \in S
    BY <1>1, <1>2, <1>9
  <2>2. ASSUME NEW n \in 0 .. N - 1, n \in S PROVE n + 1 \in S
    <3>1. n + 1 \in 1 .. N /\ (n + 1) - 1 = n /\ n + 1 \in 0 .. N
      BY <1>1
    <3>2. Find[n + 1] = Step(Find[n])
      BY <1>9, <3>1
    <3> QED BY <1>3, <2>2, <3>1, <3>2
  <2>3. \A n \in 0 .. N : n \in S
    <3> HIDE DEF S, N
    <3> QED BY <1>1, <2>1, <2>2, Induction
  <2> QED BY <2>3
<1>11. \A out \in Seq(Tables), t \in Tables : Find[0][out][t] = out
  BY <1>9
<1>12. \A n \in 1 .. N, out \in Seq(Tables), t \in Tables :
            Find[n][out][t] = FindRelatedTables(Find[n - 1], out, t)
  <2> SUFFICES ASSUME NEW n \in 1 .. N, NEW out \in Seq(Tables), NEW t \in Tables
               PROVE  Find[n][out][t] = FindRelatedTables(Find[n - 1], out, t)
    OBVIOUS
  <2>1. Step(Find[n - 1])[out][t] = FindRelatedTables(Find[n - 1], out, t)
    OBVIOUS
  <2> HIDE DEF Step
  <2> QED BY <1>9, <2>1
<1> QED BY <1>10, <1>11, <1>12

(* What follows o in o2 has its targets in o2. *)
Grown(o, o2) ==
    /\ ToSet(o) \subseteq ToSet(o2)
    /\ \A x \in ToSet(o2) \ ToSet(o) : \A c \in DOMAIN columns[x] : columns[x][c] \in ToSet(o2)

Left(out) == Tables \ ToSet(out)

LEMMA LeftFinite ==
    ASSUME LayoutOK, NEW out
    PROVE  IsFiniteSet(Left(out)) /\ Cardinality(Left(out)) \in Nat
<1>1. IsFiniteSet(Tables)
  BY TablesNumbered, FS_Interval
<1>2. Left(out) \subseteq Tables
  BY DEF Left
<1> QED BY <1>1, <1>2, FS_Subset, FS_CardinalityType

LEMMA LeftShrinks ==
    ASSUME LayoutOK, NEW o, NEW o2, ToSet(o) \subseteq ToSet(o2)
    PROVE  Cardinality(Left(o2)) <= Cardinality(Left(o))
<1>1. Left(o2) \subseteq Left(o)
  BY DEF Left
<1> QED BY <1>1, LeftFinite, FS_Subset

LEMMA LeftAppend ==
    ASSUME LayoutOK, NEW out \in Seq(Tables), NEW t \in Tables, t \notin ToSet(out)
    PROVE  /\ ToSet(Append(out, t)) = ToSet(out) \cup {t}
           /\ Cardinality(Left(Append(out, t))) = Cardinality(Left(out)) - 1
<1>1. ToSet(Append(out, t)) = ToSet(out) \cup {t}
  <2> DEFINE a == Append(out, t)
             n == Len(out)
  <2>1. /\ n \in Nat /\ DOMAIN out = 1 .. n /\ DOMAIN a = 1 .. n + 1
        /\ a[n + 1] = t /\ \A k \in 1 .. n : a[k] = out[k]
    OBVIOUS
  <2> HIDE DEF a, n
  <2>2. \A x : (\E k \in 1 .. n + 1 : a[k] = x) <=> (\E k \in 1 .. n : out[k] = x) \/ x = t
    <3> TAKE x
    <3>1. ASSUME NEW k \in 1 .. n + 1, a[k] = x
          PROVE  (\E j \in 1 .. n : out[j] = x) \/ x = t
      BY <2>1, <3>1
    <3>2. ASSUME (\E j \in 1 .. n : out[j] = x) \/ x = t
          PROVE  \E k \in 1 .. n + 1 : a[k] = x
      BY <2>1, <3>2
    <3> QED BY <3>1, <3>2
  <2> QED BY <2>1, <2>2 DEF ToSet, a
<1>2. Left(Append(out, t)) = Left(out) \ {t} /\ t \in Left(out)
  BY <1>1 DEF Left
<1>3. Cardinality(Left(out) \ {t}) = Cardinality(Left(out)) - 1
  BY <1>2, LeftFinite, FS_RemoveElement
<1> QED BY <1>1, <1>2, <1>3

(* What the search with n nested calls left has to do: n is enough while no more
   tables are left to find. *)
Finds(n) ==
    \A out \in Seq(Tables), t \in Tables : Cardinality(Left(out)) <= n =>
        Grown(out, Find[n][out][t]) /\ t \in ToSet(Find[n][out][t])

LEMMA FindsNone == ASSUME LayoutOK PROVE Finds(0)
<1> SUFFICES ASSUME NEW out \in Seq(Tables), NEW t \in Tables, Cardinality(Left(out)) <= 0
             PROVE  Grown(out, Find[0][out][t]) /\ t \in ToSet(Find[0][out][t])
  BY DEF Finds
<1>1. Find[0][out][t] = out
  BY FindUnfolds
<1>2. Left(out) = {}
  <2>1. Cardinality(Left(out)) = 0
    BY LeftFinite
  <2> QED BY <2>1, LeftFinite, FS_EmptySet
<1> QED BY <1>1, <1>2 DEF Left, Grown

LEMMA FindsMore ==
    ASSUME LayoutOK, NEW n \in 1 .. Len(columns), Finds(n - 1)
    PROVE  Finds(n)
<1> SUFFICES ASSUME NEW out \in Seq(Tables), NEW t \in Tables, Cardinality(Left(out)) <= n
             PROVE  Grown(out, Find[n][out][t]) /\ t \in ToSet(Find[n][out][t])
  BY DEF Finds
<1> DEFINE d == Find[n - 1]
<1>1. Find[n][out][t] = FindRelatedTables(d, out, t) /\ d \in Finders
  <2>1. n - 1 \in 0 .. Len(columns)
    BY TablesNumbered
  <2> QED BY <2>1, FindUnfolds
<1>2. CASE t \in ToSet(out)
  BY <1>1, <1>2 DEF FindRelatedTables, Grown
<1>3. CASE t \notin ToSet(out)
  <2> DEFINE m == Len(columns[t])
  <2>1. m \in Nat /\ DOMAIN columns[t] = 1 .. m /\ \A c \in 1 .. m : columns[t][c] \in Tables
    BY TablesNumbered
  <2>2. PICK g \in [0 .. m -> Seq(Tables)] :
            /\ g[0] = Append(out, t)
            /\ \A c \in 1 .. m : g[c] = d[g[c - 1]][columns[t][c]]
            /\ FindRelatedTables(d, out, t) = g[m]
    <3> HIDE DEF d
    <3> QED BY <1>1, <1>3, FindLoop
  <2>3. Cardinality(Left(g[0])) <= n - 1 /\ ToSet(g[0]) = ToSet(out) \cup {t}
    BY <1>3, <2>2, LeftAppend, LeftFinite
  <2> DEFINE Found(c) == /\ Grown(g[0], g[c])
                         /\ \A k \in 1 .. c : columns[t][k] \in ToSet(g[c])
             S == {c \in 0 .. m : Found(c)}
  <2>4. 0 \in S
    BY <2>1 DEF Grown
  <2>5. ASSUME NEW c \in 0 .. m - 1, c \in S PROVE c + 1 \in S
    <3>1. c + 1 \in 1 .. m /\ (c + 1) - 1 = c /\ g[c] \in Seq(Tables) /\ g[c + 1] \in Seq(Tables)
      BY <2>1, SMTT(30)
    <3>2. Grown(g[0], g[c]) /\ \A k \in 1 .. c : columns[t][k] \in ToSet(g[c])
      BY <2>5
    <3>3. Cardinality(Left(g[c])) <= n - 1
      <4>1. Cardinality(Left(g[c])) <= Cardinality(Left(g[0]))
        BY <3>2, LeftShrinks DEF Grown
      <4> QED BY <2>3, <4>1, LeftFinite
    <3>4. Grown(g[c], g[c + 1]) /\ columns[t][c + 1] \in ToSet(g[c + 1])
      <4>1. g[c + 1] = Find[n - 1][g[c]][columns[t][c + 1]]
        BY <2>2, <3>1
      <4> QED BY <2>1, <3>1, <3>3, <4>1 DEF Finds
    <3>5. Grown(g[0], g[c + 1])
      BY <3>2, <3>4 DEF Grown
    <3>6. \A k \in 1 .. c + 1 : columns[t][k] \in ToSet(g[c + 1])
      <4> SUFFICES ASSUME NEW k \in 1 .. c + 1 PROVE columns[t][k] \in ToSet(g[c + 1])
        OBVIOUS
      <4>1. CASE k = c + 1
        BY <3>4, <4>1
      <4>2. CASE k # c + 1
        <5>1. k \in 1 .. c
          BY <4>2
        <5> QED BY <3>2, <3>4, <5>1 DEF Grown
      <4> QED BY <4>1, <4>2
    <3> QED BY <3>1, <3>5, <3>6
  <2>6. Found(m)
    <3>1. \A c \in 0 .. m : c \in S
      <4> HIDE DEF S, m
      <4> QED BY <2>1, <2>4, <2>5, Induction
    <3> QED BY <2>1, <3>1
  <2>7. Grown(out, g[m]) /\ t \in ToSet(g[m])
    <3>1. ToSet(out) \subseteq ToSet(g[m]) /\ t \in ToSet(g[m])
      BY <2>3, <2>6 DEF Grown
    <3>2. ASSUME NEW x \in ToSet(g[m]) \ ToSet(out), NEW c \in DOMAIN columns[x]
          PROVE  columns[x][c] \in ToSet(g[m])
      <4>1. CASE x = t
        BY <2>1, <2>6, <4>1
      <4>2. CASE x # t
        BY <2>3, <2>6, <4>2 DEF Grown
      <4> QED BY <4>1, <4>2
    <3> QED BY <3>1, <3>2 DEF Grown
  <2> QED BY <1>1, <2>2, <2>7
<1> QED BY <1>2, <1>3

(* The related tables are those of the collection and of all links that lead on. *)
LEMMA RelatedClosed ==
    ASSUME LayoutOK
    PROVE  /\ RelatedTables \in Seq(Tables) /\ 1 \in ToSet(RelatedTables)
           /\ \A t \in ToSet(RelatedTables) : /\ t \in Tables
                                              /\ \A c \in DOMAIN columns[t] :
                                                    columns[t][c] \in ToSet(RelatedTables)
<1> DEFINE N == Len(columns)
           S == {n \in 0 .. N : Finds(n)}
<1>1. N \in Nat \ {0} /\ Tables = 1 .. N /\ 1 \in Tables
  BY TablesNumbered
<1>2. 0 \in S
  BY <1>1, FindsNone
<1>3. ASSUME NEW n \in 0 .. N - 1, n \in S PROVE n + 1 \in S
  <2>1. n + 1 \in 1 .. N /\ (n + 1) - 1 = n /\ Finds(n)
    BY <1>1, <1>3
  <2>2. Finds(n + 1)
    BY <2>1, FindsMore
  <2> QED BY <2>1, <2>2
<1>4. \A n \in 0 .. N : n \in S
  <2> HIDE DEF S, N
  <2> QED BY <1>1, <1>2, <1>3, Induction
<1>5. Finds(N)
  BY <1>1, <1>4
<1>6. ToSet(<<>>) = {} /\ <<>> \in Seq(Tables)
  BY DEF ToSet
<1>7. Cardinality(Left(<<>>)) <= N
  <2>1. Left(<<>>) = 1 .. N
    BY <1>1, <1>6 DEF Left
  <2> QED BY <1>1, <2>1, FS_Interval
<1>8. Grown(<<>>, RelatedTables) /\ 1 \in ToSet(RelatedTables)
  BY <1>1, <1>5, <1>6, <1>7 DEF Finds, RelatedTables
<1>9. RelatedTables \in Seq(Tables)
  <2>1. Find[N] \in Finders
    BY <1>1, FindUnfolds
  <2> QED BY <1>1, <1>6, <2>1 DEF RelatedTables, Finders
<1>10. ToSet(RelatedTables) \subseteq Tables
  BY <1>9 DEF ToSet
<1> QED BY <1>6, <1>8, <1>9, <1>10 DEF Grown

-----------------------------------------------------------------------------
(* Rows near a modified one *)

LEMMA NearUnfolds ==
    ASSUME Setting
    PROVE  /\ Near[0] = modified
           /\ \A n \in 1 .. Depth :
                Near[n] = Near[n - 1] \cup {r \in Rows : LinkedFrom(r) \cap Near[n - 1] # {}}
           /\ \A n \in 0 .. Depth : Near[n] \in SUBSET Rows
<1> DEFINE V == SUBSET Rows
           Step(S) == S \cup {r \in Rows : LinkedFrom(r) \cap S # {}}
           Body(f) == [n \in 0 .. Depth |-> IF n = 0 THEN modified ELSE Step(f[n - 1])]
           F == [k \in 1 .. Depth |-> [S \in V |-> Step(S)]]
<1>1. Depth \in Nat /\ modified \in V
  BY DepthAssumption DEF Setting
<1>2. \A S \in V : Step(S) \in V
  OBVIOUS
<1> HIDE DEF Step
<1>3. F \in [1 .. Depth -> [V -> V]]
  BY <1>2
<1>4. PICK g \in [0 .. Depth -> V] : Unfolds(g, modified, F, Depth)
  <2> HIDE DEF F, V
  <2> QED BY <1>1, <1>3, Recursion
<1>5. g[0] = modified /\ \A n \in 1 .. Depth : g[n] = Step(g[n - 1])
  <2>1. g[0] = modified /\ \A n \in 1 .. Depth : g[n] = F[n][g[n - 1]]
    <3> HIDE DEF F
    <3> QED BY <1>4 DEF Unfolds
  <2>2. ASSUME NEW n \in 1 .. Depth PROVE F[n][g[n - 1]] = Step(g[n - 1])
    <3>1. g[n - 1] \in V
      BY <1>1
    <3> QED BY <3>1
  <2> HIDE DEF F
  <2> QED BY <2>1, <2>2
<1>6. g = Body(g)
  <2>1. \A n \in 0 .. Depth : g[n] = Body(g)[n]
    BY <1>1, <1>5
  <2> QED BY <2>1
<1>7. Near = Body(Near)
  <2>1. Near = CHOOSE f : f = Body(f)
    BY DEF Near, Step
  <2> HIDE DEF Body
  <2> QED BY <1>6, <2>1
<1>8. Near[0] = modified /\ \A n \in 1 .. Depth : Near[n] = Step(Near[n - 1])
  <2>1. \A n \in 0 .. Depth : Near[n] = IF n = 0 THEN modified ELSE Step(Near[n - 1])
    BY <1>7
  <2> QED BY <1>1, <2>1
<1>9. \A n \in 0 .. Depth : Near[n] \in V
  <2> DEFINE S == {n \in 0 .. Depth : Near[n] \in V}
  <2>1. 0 \in S
    BY <1>1, <1>8
  <2>2. ASSUME NEW n \in 0 .. Depth - 1, n \in S PROVE n + 1 \in S
    <3>1. n + 1 \in 1 .. Depth /\ (n + 1) - 1 = n /\ n + 1 \in 0 .. Depth
      BY <1>1
    <3>2. Near[n + 1] = Step(Near[n])
      BY <1>8, <3>1
    <3> HIDE DEF V
    <3> QED BY <1>2, <2>2, <3>1, <3>2
  <2>3. \A n \in 0 .. Depth : n \in S
    <3> HIDE DEF S
    <3> QED BY <1>1, <2>1, <2>2, Induction
  <2> QED BY <2>3
<1> QED BY <1>8, <1>9 DEF Step

LEMMA NearGrows ==
    ASSUME Setting, NEW m \in 0 .. Depth, NEW n \in m .. Depth
    PROVE  Near[m] \subseteq Near[n]
<1> DEFINE S == {k \in 0 .. Depth - m : Near[m] \subseteq Near[m + k]}
<1>1. Depth \in Nat /\ Depth - m \in Nat /\ n - m \in 0 .. Depth - m /\ m + (n - m) = n
  BY DepthAssumption
<1>2. 0 \in S
  BY <1>1
<1>3. ASSUME NEW k \in 0 .. (Depth - m) - 1, k \in S PROVE k + 1 \in S
  <2>1. m + (k + 1) \in 1 .. Depth /\ (m + (k + 1)) - 1 = m + k /\ k + 1 \in 0 .. Depth - m
    BY <1>1
  <2>2. Near[m + k] \subseteq Near[m + (k + 1)]
    BY <2>1, NearUnfolds
  <2> QED BY <1>3, <2>1, <2>2
<1>4. \A k \in 0 .. Depth - m : k \in S
  <2> HIDE DEF S
  <2> QED BY <1>1, <1>2, <1>3, Induction
<1>5. Near[m] \subseteq Near[m + (n - m)]
  BY <1>1, <1>4
<1> QED BY <1>1, <1>5

-----------------------------------------------------------------------------
(* The search, as a function on states *)

Entry == [row : Nat, col : Nat, exceeded : BOOLEAN]
Checkers == [States -> [Rows -> States]]

LEMMA StateType ==
    ASSUME NEW s \in States
    PROVE  /\ s.path \in [1 .. Depth -> Entry] /\ s.not \in SUBSET Rows /\ s.found \in BOOLEAN
           /\ \A p \in [1 .. Depth -> Entry] : [s EXCEPT !.path = p] \in States
           /\ \A r \in Rows : [s EXCEPT !.not = @ \cup {r}] \in States
           /\ [s EXCEPT !.found = TRUE] \in States
BY DEF States, Entry

LEMMA ExceededType ==
    ASSUME NEW path \in [1 .. Depth -> Entry], NEW from, NEW to
    PROVE  Exceeded(path, from, to) \in [1 .. Depth -> Entry]
BY DEF Exceeded, Entry

(* A link that is followed is written on the path. *)
Following(s, row, col, depth) ==
    [s EXCEPT !.path[depth + 1] = [row |-> row, col |-> col, exceeded |-> FALSE]]

LEMMA FollowingType ==
    ASSUME NEW s \in States, NEW row \in Nat, NEW col \in Nat, NEW depth \in 0 .. Depth - 1
    PROVE  /\ Following(s, row, col, depth) \in States
           /\ Following(s, row, col, depth).not = s.not
           /\ Following(s, row, col, depth).found = s.found
           /\ Following(s, row, col, depth).path[depth + 1] =
                    [row |-> row, col |-> col, exceeded |-> FALSE]
           /\ \A k \in 1 .. depth : Following(s, row, col, depth).path[k] = s.path[k]
<1> DEFINE e == [row |-> row, col |-> col, exceeded |-> FALSE]
           p == [s.path EXCEPT ![depth + 1] = e]
<1>1. e \in Entry /\ depth + 1 \in 1 .. Depth /\ Depth \in Nat
  BY DepthAssumption DEF Entry
<1>2. s.path \in [1 .. Depth -> Entry]
  BY StateType
<1>3. p \in [1 .. Depth -> Entry] /\ p[depth + 1] = e /\ \A k \in 1 .. depth : p[k] = s.path[k]
  BY <1>1, <1>2
<1>4. Following(s, row, col, depth) = [s EXCEPT !.path = p]
  BY DEF Following
<1> HIDE DEF p
<1>5. /\ [s EXCEPT !.path = p].path = p /\ [s EXCEPT !.path = p].not = s.not
      /\ [s EXCEPT !.path = p].found = s.found
  BY DEF States
<1> QED BY <1>3, <1>4, <1>5, StateType

LEMMA LinkTypes ==
    ASSUME Setting, NEW row \in Rows
    PROVE  /\ Len(links[row]) \in Nat /\ DOMAIN links[row] = 1 .. Len(links[row])
           /\ row \in Nat
           /\ \A c \in DOMAIN links[row] :
                /\ Len(links[row][c]) \in Nat /\ DOMAIN links[row][c] = 1 .. Len(links[row][c])
                /\ \A k \in DOMAIN links[row][c] : links[row][c][k] \in Rows
BY TablesNumbered DEF Setting, LinksOK

LEMMA CheckColumnLoop ==
    ASSUME Setting, NEW d \in Checkers, NEW s \in States, NEW row \in Rows,
           NEW col \in DOMAIN links[row], NEW depth \in 0 .. Depth - 1,
           AlreadyChecking(s.path, row, col, depth) = {}
    PROVE  \E g \in [0 .. Len(links[row][col]) -> States] :
              /\ g[0] = Following(s, row, col, depth)
              /\ \A k \in 1 .. Len(links[row][col]) :
                    g[k] = IF g[k - 1].found THEN g[k - 1] ELSE d[g[k - 1]][links[row][col][k]]
              /\ CheckColumn(d, s, row, col, depth) = g[Len(links[row][col])]
<1> DEFINE dst == links[row][col]
           n == Len(dst)
           Step(t, k) == IF t.found THEN t ELSE d[t][dst[k]]
           F == [k \in DOMAIN dst |-> [t \in States |-> Step(t, k)]]
           b == Following(s, row, col, depth)
<1>1. n \in Nat /\ DOMAIN dst = 1 .. n /\ (\A k \in 1 .. n : dst[k] \in Rows) /\ row \in Nat /\ col \in Nat
  BY LinkTypes
<1>2. ASSUME NEW k \in 1 .. n, NEW t \in States PROVE Step(t, k) \in States
  BY <1>1, <1>2 DEF Checkers
<1>3. b \in States
  BY <1>1, FollowingType
<1>4. CheckColumn(d, s, row, col, depth) = Loop(F, b)
  BY DEF CheckColumn, Following
<1> HIDE DEF Step, b, n
<1>5. F \in [1 .. n -> [States -> States]]
  BY <1>1, <1>2
<1>6. PICK g \in [0 .. n -> States] : Unfolds(g, b, F, n) /\ Loop(F, b) = g[n]
  <2> HIDE DEF F
  <2> QED BY <1>1, <1>3, <1>5, LoopTrace
<1>7. g[0] = b /\ \A k \in 1 .. n : g[k] = F[k][g[k - 1]]
  <2> HIDE DEF F
  <2> QED BY <1>6 DEF Unfolds
<1>8. ASSUME NEW k \in 1 .. n PROVE g[k] = Step(g[k - 1], k)
  <2>1. g[k - 1] \in States
    BY <1>1
  <2>2. F[k][g[k - 1]] = Step(g[k - 1], k)
    BY <1>1, <2>1
  <2> HIDE DEF F
  <2> QED BY <1>7, <2>2
<1> HIDE DEF F
<1> QED BY <1>4, <1>6, <1>7, <1>8 DEF Step, b, n

LEMMA CheckColumnType ==
    ASSUME Setting, NEW d \in Checkers, NEW s \in States, NEW row \in Rows,
           NEW col \in DOMAIN links[row], NEW depth \in 0 .. Depth - 1
    PROVE  CheckColumn(d, s, row, col, depth) \in States
<1> DEFINE match == AlreadyChecking(s.path, row, col, depth)
<1>1. CASE match # {}
  <2>1. CheckColumn(d, s, row, col, depth) = [s EXCEPT !.path = Exceeded(s.path, Min(match), depth)]
    BY <1>1 DEF CheckColumn
  <2> DEFINE p == Exceeded(s.path, Min(match), depth)
  <2>2. p \in [1 .. Depth -> Entry]
    <3>1. s.path \in [1 .. Depth -> Entry]
      BY StateType
    <3> HIDE DEF match
    <3> QED BY <3>1, ExceededType
  <2>3. [s EXCEPT !.path = p] \in States
    <3> HIDE DEF p
    <3> QED BY <2>2, StateType
  <2> QED BY <2>1, <2>3
<1>2. CASE match = {}
  <2>1. PICK g \in [0 .. Len(links[row][col]) -> States] :
            CheckColumn(d, s, row, col, depth) = g[Len(links[row][col])]
    BY <1>2, CheckColumnLoop
  <2> QED BY <2>1, LinkTypes
<1> QED BY <1>1, <1>2

LEMMA CheckLinksLoop ==
    ASSUME Setting, NEW d \in Checkers, NEW s \in States, NEW row \in Rows,
           NEW depth \in 0 .. Depth - 1, tableOf[row] \in ToSet(RelatedTables)
    PROVE  \E g \in [0 .. Len(links[row]) -> States] :
              /\ g[0] = s
              /\ \A c \in 1 .. Len(links[row]) :
                    g[c] = IF g[c - 1].found THEN g[c - 1]
                           ELSE CheckColumn(d, g[c - 1], row, c, depth)
              /\ CheckOutgoingLinks(d, s, row, depth) = g[Len(links[row])]
<1> DEFINE n == Len(links[row])
           Step(t, c) == IF t.found THEN t ELSE CheckColumn(d, t, row, c, depth)
           F == [c \in DOMAIN links[row] |-> [t \in States |-> Step(t, c)]]
<1>1. n \in Nat /\ DOMAIN links[row] = 1 .. n
  BY LinkTypes
<1>2. ASSUME NEW c \in 1 .. n, NEW t \in States PROVE Step(t, c) \in States
  BY <1>1, <1>2, CheckColumnType
<1>4. CheckOutgoingLinks(d, s, row, depth) = Loop(F, s)
  BY DEF CheckOutgoingLinks
<1> HIDE DEF Step, n
<1>5. F \in [1 .. n -> [States -> States]]
  BY <1>1, <1>2
<1>6. PICK g \in [0 .. n -> States] : Unfolds(g, s, F, n) /\ Loop(F, s) = g[n]
  <2> HIDE DEF F
  <2> QED BY <1>1, <1>5, LoopTrace
<1>7. g[0] = s /\ \A c \in 1 .. n : g[c] = F[c][g[c - 1]]
  <2> HIDE DEF F
  <2> QED BY <1>6 DEF Unfolds
<1>8. ASSUME NEW c \in 1 .. n PROVE g[c] = Step(g[c - 1], c)
  <2>1. g[c - 1] \in States
    BY <1>1
  <2>2. F[c][g[c - 1]] = Step(g[c - 1], c)
    BY <1>1, <2>1
  <2> HIDE DEF F
  <2> QED BY <1>7, <2>2
<1> HIDE DEF F
<1> QED BY <1>4, <1>6, <1>7, <1>8 DEF Step, n

LEMMA CheckRowType ==
    ASSUME Setting, NEW d, NEW s \in States, NEW row \in Rows, NEW depth \in 0 .. Depth,
           depth < Depth => d \in Checkers
    PROVE  CheckRow(d, s, row, depth) \in States
<1> DEFINE t == CheckOutgoingLinks(d, s, row, depth)
<1>1. CASE depth >= Depth
  <2>1. CheckRow(d, s, row, depth) = [s EXCEPT !.path = Exceeded(s.path, 1, Depth)]
    BY <1>1 DEF CheckRow
  <2> DEFINE p == Exceeded(s.path, 1, Depth)
  <2>2. p \in [1 .. Depth -> Entry]
    <3>1. s.path \in [1 .. Depth -> Entry]
      BY StateType
    <3> QED BY <3>1, ExceededType
  <2>3. [s EXCEPT !.path = p] \in States
    <3> HIDE DEF p
    <3> QED BY <2>2, StateType
  <2> QED BY <2>1, <2>3
<1>2. CASE ~(depth >= Depth)
  <2>1. depth \in 0 .. Depth - 1 /\ d \in Checkers
    BY <1>2, DepthAssumption
  <2>2. t \in States
    <3>1. CASE tableOf[row] \in ToSet(RelatedTables)
      <4>1. PICK g \in [0 .. Len(links[row]) -> States] : t = g[Len(links[row])]
        BY <2>1, <3>1, CheckLinksLoop
      <4> QED BY <4>1, LinkTypes
    <3>2. CASE tableOf[row] \notin ToSet(RelatedTables)
      BY <3>2 DEF CheckOutgoingLinks
    <3> QED BY <3>1, <3>2
  <2>3. CheckRow(d, s, row, depth) \in {[s EXCEPT !.found = TRUE], s, t, [t EXCEPT !.not = @ \cup {row}]}
    BY <1>2 DEF CheckRow
  <2> HIDE DEF t
  <2> QED BY <2>2, <2>3, StateType
<1> QED BY <1>1, <1>2

LEMMA CheckUnfolds ==
    ASSUME Setting
    PROVE  /\ \A n \in 0 .. Depth : Check[n] \in Checkers
           /\ \A s \in States, row \in Rows :
                Check[0][s][row] = [s EXCEPT !.path = Exceeded(s.path, 1, Depth)]
           /\ \A n \in 1 .. Depth, s \in States, row \in Rows :
                Check[n][s][row] = CheckRow(Check[n - 1], s, row, Depth - n)
<1> DEFINE At(d, n) == [s \in States |-> [row \in Rows |-> CheckRow(d, s, row, Depth - n)]]
           Body(f) == [n \in 0 .. Depth |->
                        [s \in States |-> [row \in Rows |->
                            CheckRow(IF n = 0 THEN <<>> ELSE f[n - 1], s, row, Depth - n)]]]
           b == At(<<>>, 0)
           F == [n \in 1 .. Depth |-> [d \in Checkers |-> At(d, n)]]
<1>1. Depth \in Nat
  BY DepthAssumption
<1>2. ASSUME NEW n \in 0 .. Depth, NEW d, n > 0 => d \in Checkers
      PROVE  At(d, n) \in Checkers
  <2>1. Depth - n \in 0 .. Depth /\ (Depth - n < Depth => d \in Checkers)
    BY <1>1, <1>2
  <2>2. \A s \in States, row \in Rows : CheckRow(d, s, row, Depth - n) \in States
    BY <2>1, CheckRowType
  <2> QED BY <2>2 DEF Checkers
<1>3. b \in Checkers
  <2> HIDE DEF At
  <2> QED BY <1>1, <1>2
<1>4. F \in [1 .. Depth -> [Checkers -> Checkers]]
  <2>1. \A n \in 1 .. Depth, d \in Checkers : At(d, n) \in Checkers
    <3> HIDE DEF At
    <3> QED BY <1>1, <1>2
  <2> HIDE DEF At
  <2> QED BY <2>1
<1>5. PICK g \in [0 .. Depth -> Checkers] : Unfolds(g, b, F, Depth)
  <2> HIDE DEF F, b
  <2> QED BY <1>1, <1>3, <1>4, Recursion
<1>6. g[0] = b /\ \A n \in 1 .. Depth : g[n] = At(g[n - 1], n)
  <2>1. g[0] = b /\ \A n \in 1 .. Depth : g[n] = F[n][g[n - 1]]
    <3> HIDE DEF F, b
    <3> QED BY <1>5 DEF Unfolds
  <2>2. ASSUME NEW n \in 1 .. Depth PROVE F[n][g[n - 1]] = At(g[n - 1], n)
    <3>1. g[n - 1] \in Checkers
      BY <1>1
    <3> HIDE DEF At
    <3> QED BY <3>1
  <2> HIDE DEF F, b, At
  <2> QED BY <2>1, <2>2
<1>7. \A f : \A n \in 0 .. Depth : Body(f)[n] = IF n = 0 THEN b ELSE At(f[n - 1], n)
  <2> SUFFICES ASSUME NEW f, NEW n \in 0 .. Depth
               PROVE  Body(f)[n] = IF n = 0 THEN b ELSE At(f[n - 1], n)
    OBVIOUS
  <2>1. CASE n = 0
    BY <2>1
  <2>2. CASE n # 0
    BY <2>2
  <2> QED BY <2>1, <2>2
<1>8. g = Body(g)
  <2>1. \A n \in 0 .. Depth : g[n] = Body(g)[n]
    <3> HIDE DEF Body, b, At
    <3> QED BY <1>1, <1>6, <1>7
  <2> QED BY <2>1
<1>9. Check = Body(Check)
  <2>1. Check = CHOOSE f : f = Body(f)
    BY DEF Check
  <2> HIDE DEF Body
  <2> QED BY <1>8, <2>1
<1>10. Check[0] = b /\ \A n \in 1 .. Depth : Check[n] = At(Check[n - 1], n)
  <2> HIDE DEF Body, b, At
  <2>1. \A n \in 0 .. Depth : Check[n] = IF n = 0 THEN b ELSE At(Check[n - 1], n)
    BY <1>7, <1>9
  <2> QED BY <1>1, <2>1
<1>11. \A n \in 0 .. Depth : Check[n] \in Checkers
  <2> DEFINE S == {n \in 0 .. Depth : Check[n] \in Checkers}
  <2> HIDE DEF At, b
  <2>1. 0 \in S
    BY <1>1, <1>3, <1>10
  <2>2. ASSUME NEW n \in 0 .. Depth - 1, n \in S PROVE n + 1 \in S
    <3>1. n + 1 \in 1 .. Depth /\ (n + 1) - 1 = n /\ n + 1 \in 0 .. Depth
      BY <1>1
    <3>2. Check[n + 1] = At(Check[n], n + 1)
      BY <1>10, <3>1
    <3>3. At(Check[n], n + 1) \in Checkers
      BY <1>2, <2>2, <3>1
    <3> QED BY <3>1, <3>2, <3>3
  <2>3. \A n \in 0 .. Depth : n \in S
    <3> HIDE DEF S
    <3> QED BY <1>1, <2>1, <2>2, Induction
  <2> QED BY <2>3
<1>12. ASSUME NEW s \in States, NEW row \in Rows
       PROVE  Check[0][s][row] = [s EXCEPT !.path = Exceeded(s.path, 1, Depth)]
  <2>1. Check[0][s][row] = CheckRow(<<>>, s, row, Depth - 0)
    BY <1>10
  <2> QED BY <1>1, <2>1 DEF CheckRow
<1>13. ASSUME NEW n \in 1 .. Depth, NEW s \in States, NEW row \in Rows
       PROVE  Check[n][s][row] = CheckRow(Check[n - 1], s, row, Depth - n)
  <2>1. At(Check[n - 1], n)[s][row] = CheckRow(Check[n - 1], s, row, Depth - n)
    OBVIOUS
  <2> HIDE DEF At
  <2> QED BY <1>10, <2>1
<1> QED BY <1>11, <1>12, <1>13

-----------------------------------------------------------------------------
(* What a search may do to the path above it, and what it must find *)

Close == Near[Depth - 1]

(* Nothing that should be found is remembered as not modified. *)
MemoOK(s) == s.not \cap Close = {}

(* t comes after s: the first links of the path are still followed. *)
Kept(s, t, depth) ==
    /\ s.found => t.found
    /\ \A k \in 1 .. depth : /\ t.path[k].row = s.path[k].row
                             /\ s.path[k].exceeded => t.path[k].exceeded

(* A change was found, or the search says that it was cut short below link b. *)
Caught(t, b) == t.found \/ (b > 0 /\ t.path[b].exceeded)

(* No row on the path below link b has a modified row within L links: the way
   to it does not come back to them. *)
Clear(s, b, L, depth) == \A k \in b + 1 .. depth : s.path[k].row \notin Near[L]

(* What check_row promises, with room for n links, if it goes from s to t *)
Sound(n, s, row, t) ==
    /\ t.found => n >= 1 /\ row \in Near[n - 1]
    /\ Kept(s, t, Depth - n)
    /\ MemoOK(t)
    /\ \A b \in 0 .. Depth - n, L \in 0 .. Depth - 1 :
          row \in Near[L] /\ (b = 0 => L <= n - 1) /\ Clear(s, b, L, Depth - n) => Caught(t, b)

(* Where check_row is called *)
Asked(n, s, row) ==
    /\ ~s.found /\ MemoOK(s)
    /\ tableOf[row] \in ToSet(RelatedTables)
    /\ n < Depth \/ row \notin modified

Good(n) == \A s \in States, row \in Rows : Asked(n, s, row) => Sound(n, s, row, Check[n][s][row])

LEMMA KeptTransitive ==
    ASSUME NEW s, NEW t, NEW u, NEW depth, Kept(s, t, depth), Kept(t, u, depth)
    PROVE  Kept(s, u, depth)
BY DEF Kept

LEMMA KeptReflexive == ASSUME NEW s, NEW depth PROVE Kept(s, s, depth)
BY DEF Kept

LEMMA KeptAbove ==
    ASSUME NEW s, NEW t, NEW depth \in Nat, Kept(s, t, depth + 1)
    PROVE  Kept(s, t, depth)
BY DEF Kept

LEMMA CaughtKept ==
    ASSUME NEW s, NEW t, NEW depth \in Nat, Kept(s, t, depth), NEW b \in 0 .. depth, Caught(s, b)
    PROVE  Caught(t, b)
BY DEF Kept, Caught

LEMMA ClearKept ==
    ASSUME NEW s, NEW t, NEW depth \in Nat, Kept(s, t, depth), NEW b \in Nat, NEW L,
           Clear(s, b, L, depth)
    PROVE  Clear(t, b, L, depth)
BY DEF Kept, Clear

(* Steps that each keep the path keep it together. *)
LEMMA KeptChain ==
    ASSUME NEW m \in Nat, NEW g, NEW depth,
           \A k \in 1 .. m : Kept(g[k - 1], g[k], depth),
           NEW i \in 0 .. m, NEW j \in i .. m
    PROVE  Kept(g[i], g[j], depth)
<1> DEFINE S == {k \in 0 .. m - i : Kept(g[i], g[i + k], depth)}
<1>1. m - i \in Nat /\ j - i \in 0 .. m - i /\ i + (j - i) = j
  OBVIOUS
<1>2. 0 \in S
  BY <1>1, KeptReflexive
<1>3. ASSUME NEW k \in 0 .. (m - i) - 1, k \in S PROVE k + 1 \in S
  <2>1. i + (k + 1) \in 1 .. m /\ (i + (k + 1)) - 1 = i + k /\ k + 1 \in 0 .. m - i
    OBVIOUS
  <2>2. Kept(g[i + k], g[i + (k + 1)], depth)
    BY <2>1
  <2>3. Kept(g[i], g[i + k], depth)
    BY <1>3
  <2>4. Kept(g[i], g[i + (k + 1)], depth)
    BY <2>2, <2>3, KeptTransitive
  <2> QED BY <2>1, <2>4
<1>4. \A k \in 0 .. m - i : k \in S
  <2> HIDE DEF S
  <2> QED BY <1>1, <1>2, <1>3, Induction
<1>5. Kept(g[i], g[i + (j - i)], depth)
  BY <1>1, <1>4
<1> QED BY <1>1, <1>5

(* Marking links of the path as cut short *)
LEMMA ExceededKept ==
    ASSUME NEW s \in States, NEW from \in Nat, NEW to \in Nat, NEW depth \in 0 .. Depth
    PROVE  LET t == [s EXCEPT !.path = Exceeded(s.path, from, to)]
           IN  /\ Kept(s, t, depth) /\ t.not = s.not /\ t.found = s.found
               /\ \A b \in 1 .. Depth : b \in from .. to => t.path[b].exceeded
<1> DEFINE p == Exceeded(s.path, from, to)
           t == [s EXCEPT !.path = p]
<1>1. s.path \in [1 .. Depth -> Entry]
  BY StateType
<1>2. \A k \in 1 .. Depth : /\ p[k].row = s.path[k].row
                            /\ s.path[k].exceeded => p[k].exceeded
                            /\ k \in from .. to => p[k].exceeded
  BY <1>1 DEF Exceeded, Entry
<1>3. t.path = p /\ t.not = s.not /\ t.found = s.found
  <2> HIDE DEF p
  <2> QED BY DEF States
<1>4. \A k \in 1 .. depth : k \in 1 .. Depth
  BY DepthAssumption
<1> HIDE DEF p
<1>5. Kept(s, t, depth)
  BY <1>2, <1>3, <1>4 DEF Kept
<1> QED BY <1>2, <1>3, <1>5 DEF p

(* At the limit every link of the path is marked. *)
LEMMA GoodAtLimit == ASSUME Setting PROVE Good(0)
<1> SUFFICES ASSUME NEW s \in States, NEW row \in Rows, Asked(0, s, row)
             PROVE  Sound(0, s, row, Check[0][s][row])
  BY DEF Good
<1> DEFINE t == [s EXCEPT !.path = Exceeded(s.path, 1, Depth)]
<1>1. Depth \in Nat /\ Depth \in 0 .. Depth /\ Depth - 0 = Depth
  BY DepthAssumption
<1>2. Check[0][s][row] = t
  BY CheckUnfolds
<1>3. /\ Kept(s, t, Depth) /\ t.not = s.not /\ t.found = s.found
      /\ \A b \in 1 .. Depth : b \in 1 .. Depth => t.path[b].exceeded
  BY <1>1, ExceededKept
<1> HIDE DEF t
<1>4. \A b \in 0 .. Depth, L \in 0 .. Depth - 1 : (b = 0 => L <= 0 - 1) => Caught(t, b)
  BY <1>1, <1>3 DEF Caught
<1>5. ~t.found /\ MemoOK(t)
  BY <1>3 DEF Asked, MemoOK
<1> QED BY <1>1, <1>2, <1>3, <1>4, <1>5 DEF Sound

-----------------------------------------------------------------------------
(* From one row to the rows it links to *)

LEMMA Linked ==
    ASSUME Setting, NEW row \in Rows, tableOf[row] \in ToSet(RelatedTables),
           NEW c \in DOMAIN links[row], NEW k \in DOMAIN links[row][c]
    PROVE  /\ links[row][c][k] \in Rows /\ tableOf[links[row][c][k]] \in ToSet(RelatedTables)
           /\ \A n \in 1 .. Depth : links[row][c][k] \in Near[n - 1] => row \in Near[n]
<1> DEFINE dst == links[row][c][k]
<1>1. dst \in Rows
  BY LinkTypes
<1>2. tableOf[dst] = columns[tableOf[row]][c] /\ c \in DOMAIN columns[tableOf[row]]
  BY DEF Setting, LinksOK
<1>3. tableOf[dst] \in ToSet(RelatedTables)
  BY <1>2, RelatedClosed DEF Setting
<1>4. dst \in LinkedFrom(row)
  BY DEF LinkedFrom, ToSet
<1> HIDE DEF dst
<1>5. \A n \in 1 .. Depth : dst \in Near[n - 1] => row \in Near[n]
  BY <1>4, NearUnfolds
<1> QED BY <1>1, <1>3, <1>5 DEF dst

LEMMA NextLink ==
    ASSUME Setting, NEW row \in Rows, NEW L \in 1 .. Depth, row \in Near[L], row \notin Near[L - 1]
    PROVE  \E c \in DOMAIN links[row] : \E k \in DOMAIN links[row][c] :
                links[row][c][k] \in Near[L - 1]
<1>1. PICK x \in LinkedFrom(row) : x \in Near[L - 1]
  BY NearUnfolds
<1>2. PICK c \in DOMAIN links[row] : x \in ToSet(links[row][c])
  BY DEF LinkedFrom
<1>3. PICK k \in DOMAIN links[row][c] : links[row][c][k] = x
  BY <1>2 DEF ToSet
<1> QED BY <1>1, <1>3

(* The way from row to a modified row goes on over a link of this column. *)
Leads(row, col, L) == \E k \in DOMAIN links[row][col] : links[row][col][k] \in Near[L - 1]

(* linked_object_changed keeps check_row's promise for its links. *)
LEMMA GoodColumn ==
    ASSUME Setting, NEW n \in 1 .. Depth, Good(n - 1),
           NEW s \in States, NEW row \in Rows, NEW col \in DOMAIN links[row],
           ~s.found, MemoOK(s), tableOf[row] \in ToSet(RelatedTables)
    PROVE  LET u == CheckColumn(Check[n - 1], s, row, col, Depth - n)
           IN  /\ u.found => row \in Near[n - 1]
               /\ Kept(s, u, Depth - n) /\ MemoOK(u)
               /\ \A b \in 0 .. Depth - n, L \in 1 .. Depth - 1 :
                     /\ row \in Near[L] /\ row \notin Near[L - 1] /\ (b = 0 => L <= n - 1)
                     /\ Clear(s, b, L, Depth - n) /\ Leads(row, col, L)
                     => Caught(u, b)
<1> DEFINE depth == Depth - n
           d == Check[n - 1]
           u == CheckColumn(d, s, row, col, depth)
           match == AlreadyChecking(s.path, row, col, depth)
           dst == links[row][col]
           m == Len(dst)
<1>1. /\ Depth \in Nat /\ depth \in 0 .. Depth - 1 /\ depth \in Nat /\ depth + 1 \in 1 .. Depth
      /\ n - 1 \in 0 .. Depth /\ Depth - (n - 1) = depth + 1
  BY DepthAssumption
<1>2. d \in Checkers
  BY <1>1, CheckUnfolds
<1>3. m \in Nat /\ DOMAIN dst = 1 .. m /\ row \in Nat /\ col \in Nat
  BY LinkTypes
<1> HIDE DEF depth, d, m, dst
<1>4. CASE match # {}
  <2> DEFINE from == Min(match)
             t == [s EXCEPT !.path = Exceeded(s.path, from, depth)]
  <2>1. u = t
    BY <1>4 DEF CheckColumn
  <2>2. match \subseteq 1 .. depth
    BY DEF AlreadyChecking
  <2>3. from \in match /\ \A k \in match : from <= k
    <3>1. \E x \in match : \A y \in match : x <= y
      <4> HIDE DEF match
      <4> QED BY <1>1, <1>4, <2>2, LeastNumber
    <3> HIDE DEF match
    <3> QED BY <3>1 DEF Min
  <2>4. from \in Nat /\ from \in 1 .. depth /\ s.path[from].row = row
    BY <2>2, <2>3 DEF AlreadyChecking
  <2> HIDE DEF from
  <2>5. /\ Kept(s, t, depth) /\ t.not = s.not /\ t.found = s.found
        /\ \A b \in 1 .. Depth : b \in from .. depth => t.path[b].exceeded
    BY <1>1, <2>4, ExceededKept
  <2> HIDE DEF t, u
  <2>6. ASSUME NEW b \in 0 .. depth, NEW L \in 1 .. Depth - 1, row \in Near[L], Clear(s, b, L, depth)
        PROVE  Caught(u, b)
    <3>1. ~(from \in b + 1 .. depth)
      BY <2>4, <2>6 DEF Clear
    <3>2. b \in from .. depth /\ b \in 1 .. Depth /\ b > 0
      BY <1>1, <2>4, <3>1
    <3> QED BY <2>1, <2>5, <3>2 DEF Caught
  <2>7. ~u.found /\ Kept(s, u, depth) /\ MemoOK(u)
    BY <2>1, <2>5 DEF MemoOK
  <2> QED BY <2>6, <2>7 DEF u, depth, d
<1>5. CASE match = {}
  <2> DEFINE f == Following(s, row, col, depth)
  <2>1. /\ f \in States /\ f.not = s.not /\ f.found = s.found
        /\ f.path[depth + 1].row = row
        /\ \A k \in 1 .. depth : f.path[k] = s.path[k]
    <3>1. depth \in 0 .. Depth - 1 /\ row \in Nat /\ col \in Nat
      BY <1>1, <1>3
    <3>2. /\ f \in States /\ f.not = s.not /\ f.found = s.found
          /\ f.path[depth + 1] = [row |-> row, col |-> col, exceeded |-> FALSE]
          /\ \A k \in 1 .. depth : f.path[k] = s.path[k]
      BY <3>1, FollowingType
    <3> HIDE DEF f
    <3> QED BY <3>2
  <2>2. PICK g \in [0 .. m -> States] :
            /\ g[0] = f
            /\ \A k \in 1 .. m : g[k] = IF g[k - 1].found THEN g[k - 1] ELSE d[g[k - 1]][dst[k]]
            /\ u = g[m]
    BY <1>1, <1>2, <1>5, CheckColumnLoop DEF dst, m
  <2> HIDE DEF f, u
  <2>3. Kept(s, f, depth)
    BY <2>1 DEF Kept
  <2>4. ASSUME NEW k \in 1 .. m
        PROVE  /\ dst[k] \in Rows /\ tableOf[dst[k]] \in ToSet(RelatedTables)
               /\ \A j \in 1 .. Depth : dst[k] \in Near[j - 1] => row \in Near[j]
    BY <1>3, Linked DEF dst
  <2>5. ASSUME NEW k \in 1 .. m, ~g[k - 1].found, MemoOK(g[k - 1])
        PROVE  Sound(n - 1, g[k - 1], dst[k], g[k])
    <3>1. g[k - 1] \in States
      BY <1>3
    <3>2. Asked(n - 1, g[k - 1], dst[k])
      BY <1>1, <2>4, <2>5 DEF Asked
    <3>3. Sound(n - 1, g[k - 1], dst[k], d[g[k - 1]][dst[k]])
      BY <2>4, <3>1, <3>2 DEF Good, d
    <3> QED BY <2>2, <2>5, <3>3
  <2> DEFINE S == {k \in 0 .. m : MemoOK(g[k]) /\ (g[k].found => row \in Near[n - 1])}
  <2>6. \A k \in 0 .. m : k \in S
    <3>1. 0 \in S
      BY <1>3, <2>1, <2>2 DEF MemoOK
    <3>2. ASSUME NEW k \in 0 .. m - 1, k \in S PROVE k + 1 \in S
      <4>1. k + 1 \in 1 .. m /\ (k + 1) - 1 = k /\ k + 1 \in 0 .. m
        BY <1>3
      <4>2. CASE g[k].found
        BY <2>2, <3>2, <4>1, <4>2
      <4>3. CASE ~g[k].found
        <5>1. Sound(n - 1, g[k], dst[k + 1], g[k + 1])
          BY <2>5, <3>2, <4>1, <4>3
        <5>2. MemoOK(g[k + 1])
          BY <5>1 DEF Sound
        <5>3. ASSUME g[k + 1].found PROVE row \in Near[n - 1]
          <6>1. n - 1 >= 1 /\ dst[k + 1] \in Near[(n - 1) - 1]
            BY <5>1, <5>3 DEF Sound
          <6>2. n - 1 \in 1 .. Depth
            BY <1>1, <6>1
          <6> QED BY <2>4, <4>1, <6>1, <6>2
        <5> QED BY <4>1, <5>2, <5>3
      <4> QED BY <4>2, <4>3
    <3> HIDE DEF S
    <3> QED BY <1>3, <3>1, <3>2, Induction
  <2>7. ASSUME NEW k \in 1 .. m PROVE Kept(g[k - 1], g[k], depth + 1)
    <3>1. CASE g[k - 1].found
      BY <2>2, <3>1, KeptReflexive
    <3>2. CASE ~g[k - 1].found
      <4>1. k - 1 \in S
        BY <1>3, <2>6
      <4>2. Sound(n - 1, g[k - 1], dst[k], g[k])
        BY <2>5, <3>2, <4>1
      <4> QED BY <1>1, <4>2 DEF Sound
    <3> QED BY <3>1, <3>2
  <2>8. \A i \in 0 .. m : \A j \in i .. m : Kept(g[i], g[j], depth + 1)
    BY <1>3, <2>7, KeptChain
  <2>9. Kept(s, u, depth)
    <3>1. Kept(f, u, depth + 1)
      <4>1. 0 \in 0 .. m /\ m \in 0 .. m
        BY <1>3
      <4> QED BY <2>2, <2>8, <4>1
    <3> QED BY <1>1, <2>3, <3>1, KeptAbove, KeptTransitive
  <2>10. MemoOK(u) /\ (u.found => row \in Near[n - 1])
    BY <1>3, <2>2, <2>6
  <2>11. ASSUME NEW b \in 0 .. depth, NEW L \in 1 .. Depth - 1,
                row \in Near[L], row \notin Near[L - 1], b = 0 => L <= n - 1,
                Clear(s, b, L, depth), Leads(row, col, L)
         PROVE  Caught(u, b)
    <3>1. PICK k \in 1 .. m : dst[k] \in Near[L - 1]
      BY <1>3, <2>11 DEF Leads, dst
    <3>2. k - 1 \in 0 .. m /\ k \in 0 .. m /\ k - 1 \in S
      BY <1>3, <2>6
    <3>3. CASE g[k - 1].found
      <4>1. Kept(g[k - 1], g[m], depth + 1)
        BY <1>3, <2>8, <3>2
      <4> QED BY <2>2, <3>3, <4>1 DEF Kept, Caught
    <3>4. CASE ~g[k - 1].found
      <4>1. Sound(n - 1, g[k - 1], dst[k], g[k])
        BY <2>5, <3>2, <3>4
      <4>2. Kept(f, g[k - 1], depth + 1)
        BY <1>3, <2>2, <2>8, <3>2
      <4>3. Near[L - 1] \subseteq Near[L] /\ L - 1 \in 0 .. Depth - 1
        BY <1>1, NearGrows
      <4>4. Clear(f, b, L - 1, depth + 1)
        <5> SUFFICES ASSUME NEW j \in b + 1 .. depth + 1 PROVE f.path[j].row \notin Near[L - 1]
          BY DEF Clear
        <5>1. CASE j = depth + 1
          BY <2>1, <2>11, <5>1
        <5>2. CASE j # depth + 1
          <6>1. j \in b + 1 .. depth /\ j \in 1 .. depth
            BY <1>1, <5>2
          <6>2. s.path[j].row \notin Near[L]
            BY <2>11, <6>1 DEF Clear
          <6> QED BY <2>1, <4>3, <6>1, <6>2
        <5> QED BY <5>1, <5>2
      <4>5. Clear(g[k - 1], b, L - 1, depth + 1)
        BY <1>1, <4>2, <4>4, ClearKept
      <4>6. b \in 0 .. Depth - (n - 1) /\ (b = 0 => L - 1 <= (n - 1) - 1)
        BY <1>1, <2>11
      <4>7. Caught(g[k], b)
        BY <1>1, <3>1, <4>1, <4>3, <4>5, <4>6 DEF Sound
      <4>8. Kept(g[k], u, depth + 1)
        BY <1>3, <2>2, <2>8, <3>2
      <4> QED BY <1>1, <4>7, <4>8, CaughtKept
    <3> QED BY <3>3, <3>4
  <2> QED BY <2>9, <2>10, <2>11 DEF u, depth, d
<1> QED BY <1>4, <1>5

-----------------------------------------------------------------------------
(* check_outgoing_links and check_row keep the promise too. *)

LEMMA Nearest ==
    ASSUME Setting, NEW row \in Rows, row \notin modified, NEW L \in 0 .. Depth - 1, row \in Near[L]
    PROVE  \E l \in 1 .. L : row \in Near[l] /\ row \notin Near[l - 1]
<1> DEFINE T == {l \in 0 .. L : row \in Near[l]}
<1>1. Depth \in Nat /\ L \in T /\ T \in SUBSET Nat
  BY DepthAssumption
<1>2. PICK l \in T : \A y \in T : l <= y
  BY <1>1, LeastNumber
<1>3. l # 0
  BY <1>2, NearUnfolds
<1>4. l \in 1 .. L /\ l - 1 \in 0 .. L /\ ~(l <= l - 1)
  BY <1>2, <1>3
<1> QED BY <1>2, <1>4

LEMMA GoodLinks ==
    ASSUME Setting, NEW n \in 1 .. Depth, Good(n - 1),
           NEW s \in States, NEW row \in Rows, row \notin modified,
           ~s.found, MemoOK(s), tableOf[row] \in ToSet(RelatedTables)
    PROVE  LET u == CheckOutgoingLinks(Check[n - 1], s, row, Depth - n)
           IN  u \in States /\ Sound(n, s, row, u)
<1> DEFINE depth == Depth - n
           d == Check[n - 1]
           u == CheckOutgoingLinks(d, s, row, depth)
           m == Len(links[row])
           Step(t, c) == CheckColumn(d, t, row, c, depth)
<1>1. Depth \in Nat /\ depth \in 0 .. Depth - 1 /\ depth \in Nat /\ n - 1 \in 0 .. Depth
  BY DepthAssumption
<1>2. d \in Checkers
  BY <1>1, CheckUnfolds
<1>3. m \in Nat /\ DOMAIN links[row] = 1 .. m
  BY LinkTypes
<1>4. ASSUME NEW t \in States, NEW c \in 1 .. m, ~t.found, MemoOK(t)
      PROVE  /\ Step(t, c).found => row \in Near[n - 1]
             /\ Kept(t, Step(t, c), depth) /\ MemoOK(Step(t, c))
             /\ \A b \in 0 .. depth, L \in 1 .. Depth - 1 :
                   /\ row \in Near[L] /\ row \notin Near[L - 1] /\ (b = 0 => L <= n - 1)
                   /\ Clear(t, b, L, depth) /\ Leads(row, c, L)
                   => Caught(Step(t, c), b)
  BY <1>3, <1>4, GoodColumn
<1> HIDE DEF depth, d, m
<1>5. PICK g \in [0 .. m -> States] :
          /\ g[0] = s
          /\ \A c \in 1 .. m : g[c] = IF g[c - 1].found THEN g[c - 1] ELSE Step(g[c - 1], c)
          /\ u = g[m]
  BY <1>1, <1>2, CheckLinksLoop DEF m
<1> HIDE DEF u, Step
<1> DEFINE S == {c \in 0 .. m : MemoOK(g[c]) /\ (g[c].found => row \in Near[n - 1])}
<1>6. \A c \in 0 .. m : c \in S
  <2>1. 0 \in S
    BY <1>3, <1>5
  <2>2. ASSUME NEW c \in 0 .. m - 1, c \in S PROVE c + 1 \in S
    <3>1. c + 1 \in 1 .. m /\ (c + 1) - 1 = c /\ c + 1 \in 0 .. m /\ g[c] \in States
      BY <1>3
    <3>2. CASE g[c].found
      BY <1>5, <2>2, <3>1, <3>2
    <3>3. CASE ~g[c].found
      BY <1>4, <1>5, <2>2, <3>1, <3>3
    <3> QED BY <3>2, <3>3
  <2> HIDE DEF S
  <2> QED BY <1>3, <2>1, <2>2, Induction
<1>7. ASSUME NEW c \in 1 .. m PROVE Kept(g[c - 1], g[c], depth)
  <2>1. c - 1 \in 0 .. m /\ c - 1 \in S /\ g[c - 1] \in States
    BY <1>3, <1>6
  <2>2. CASE g[c - 1].found
    BY <1>5, <2>2, KeptReflexive
  <2>3. CASE ~g[c - 1].found
    BY <1>4, <1>5, <2>1, <2>3
  <2> QED BY <2>2, <2>3
<1>8. \A i \in 0 .. m : \A j \in i .. m : Kept(g[i], g[j], depth)
  BY <1>3, <1>7, KeptChain
<1>9. u \in States /\ Kept(s, u, depth) /\ MemoOK(u) /\ (u.found => row \in Near[n - 1])
  <2>1. 0 \in 0 .. m /\ m \in 0 .. m
    BY <1>3
  <2> QED BY <1>5, <1>6, <1>8, <2>1
<1>10. ASSUME NEW b \in 0 .. depth, NEW L \in 0 .. Depth - 1,
              row \in Near[L], b = 0 => L <= n - 1, Clear(s, b, L, depth)
       PROVE  Caught(u, b)
  <2>1. PICK l \in 1 .. L : row \in Near[l] /\ row \notin Near[l - 1]
    BY <1>10, Nearest
  <2>2. /\ l \in 1 .. Depth - 1 /\ l \in 1 .. Depth /\ l \in 0 .. Depth /\ L \in l .. Depth
        /\ (b = 0 => l <= n - 1)
    BY <1>1, <1>10, <2>1
  <2>3. Clear(s, b, l, depth)
    BY <1>10, <2>2, NearGrows DEF Clear
  <2>4. PICK c \in 1 .. m : Leads(row, c, l)
    BY <1>3, <2>1, <2>2, NextLink DEF Leads
  <2>5. c - 1 \in 0 .. m /\ c \in 0 .. m /\ c - 1 \in S /\ g[c - 1] \in States
    BY <1>3, <1>6
  <2>6. Kept(s, g[c - 1], depth) /\ Kept(g[c], u, depth)
    BY <1>3, <1>5, <1>8, <2>5
  <2>7. Caught(g[c], b)
    <3>1. CASE g[c - 1].found
      BY <1>5, <3>1 DEF Caught
    <3>2. CASE ~g[c - 1].found
      <4>1. Clear(g[c - 1], b, l, depth)
        BY <1>1, <2>3, <2>6, ClearKept
      <4>2. Caught(Step(g[c - 1], c), b)
        BY <1>4, <2>1, <2>2, <2>4, <2>5, <3>2, <4>1
      <4> QED BY <1>5, <3>2, <4>2
    <3> QED BY <3>1, <3>2
  <2> QED BY <1>1, <2>6, <2>7, CaughtKept
<1>11. Sound(n, s, row, u)
  BY <1>9, <1>10 DEF Sound, depth
<1> QED BY <1>9, <1>11 DEF u, depth, d

LEMMA GoodRow ==
    ASSUME Setting, NEW n \in 1 .. Depth, Good(n - 1)
    PROVE  Good(n)
<1> SUFFICES ASSUME NEW s \in States, NEW row \in Rows, Asked(n, s, row)
             PROVE  Sound(n, s, row, Check[n][s][row])
  BY DEF Good
<1> DEFINE depth == Depth - n
           d == Check[n - 1]
           u == CheckOutgoingLinks(d, s, row, depth)
           t == Check[n][s][row]
<1>1. /\ Depth \in Nat /\ depth \in 0 .. Depth - 1 /\ depth \in Nat /\ ~(depth >= Depth)
      /\ (depth > 0 <=> n < Depth)
  BY DepthAssumption
<1>2. t = CheckRow(d, s, row, depth)
  BY CheckUnfolds
<1>3. ~s.found /\ MemoOK(s) /\ tableOf[row] \in ToSet(RelatedTables)
  BY DEF Asked
<1> HIDE DEF depth, t
<1>4. CASE depth > 0 /\ row \in modified
  <2>1. t = [s EXCEPT !.found = TRUE]
    BY <1>1, <1>2, <1>4 DEF CheckRow
  <2>2. t.found /\ t.path = s.path /\ t.not = s.not
    BY <2>1 DEF States
  <2>3. row \in Near[n - 1]
    <3>1. 0 \in 0 .. Depth /\ n - 1 \in 0 .. Depth
      BY <1>1
    <3> QED BY <1>4, <3>1, NearUnfolds, NearGrows
  <2>4. Kept(s, t, Depth - n) /\ MemoOK(t)
    BY <1>3, <2>2 DEF Kept, MemoOK
  <2> QED BY <2>2, <2>3, <2>4 DEF Sound, Caught, t
<1>5. CASE ~(depth > 0 /\ row \in modified) /\ row \in s.not
  <2>1. t = s
    BY <1>1, <1>2, <1>5 DEF CheckRow
  <2>2. \A L \in 0 .. Depth - 1 : row \notin Near[L]
    <3> SUFFICES ASSUME NEW L \in 0 .. Depth - 1, row \in Near[L] PROVE FALSE
      OBVIOUS
    <3>1. L \in 0 .. Depth /\ Depth - 1 \in L .. Depth
      BY <1>1
    <3>2. row \in Close
      BY <3>1, NearGrows DEF Close
    <3> QED BY <1>3, <1>5, <3>2 DEF MemoOK
  <2> QED BY <1>3, <2>1, <2>2, KeptReflexive DEF Sound, t
<1>6. CASE ~(depth > 0 /\ row \in modified) /\ row \notin s.not
  <2>1. row \notin modified
    BY <1>1, <1>6 DEF Asked
  <2>2. u \in States /\ Sound(n, s, row, u)
    BY <1>3, <2>1, GoodLinks DEF depth
  <2> HIDE DEF u
  <2>3. t = IF MayRemember(u, depth) THEN [u EXCEPT !.not = @ \cup {row}] ELSE u
    BY <1>1, <1>2, <1>6 DEF CheckRow, u
  <2>4. CASE ~MayRemember(u, depth)
    BY <2>2, <2>3, <2>4 DEF t
  <2>5. CASE MayRemember(u, depth)
    <3>1. t.found = u.found /\ t.path = u.path /\ t.not = u.not \cup {row}
      BY <2>2, <2>3, <2>5 DEF States
    <3>2. row \notin Close
      <4> SUFFICES ASSUME row \in Close PROVE FALSE
        OBVIOUS
      <4>1. /\ depth \in 0 .. Depth - n /\ Depth - 1 \in 0 .. Depth - 1
            /\ (depth = 0 => Depth - 1 <= n - 1)
        BY <1>1 DEF depth
      <4>2. Clear(s, depth, Depth - 1, Depth - n)
        <5>1. depth + 1 .. Depth - n = {}
          BY <1>1 DEF depth
        <5> QED BY <5>1 DEF Clear
      <4>3. Caught(u, depth)
        BY <2>2, <4>1, <4>2 DEF Sound, Close
      <4> QED BY <1>1, <2>5, <4>3 DEF Caught, MayRemember
    <3>3. MemoOK(t)
      BY <2>2, <3>1, <3>2 DEF Sound, MemoOK
    <3>4. Kept(s, t, Depth - n)
      BY <2>2, <3>1 DEF Sound, Kept
    <3>5. \A b : Caught(u, b) => Caught(t, b)
      BY <3>1 DEF Caught
    <3> QED BY <2>2, <3>1, <3>3, <3>4, <3>5 DEF Sound, t
  <2> QED BY <2>4, <2>5
<1> QED BY <1>4, <1>5, <1>6

LEMMA CheckIsGood == ASSUME Setting PROVE \A n \in 0 .. Depth : Good(n)
<1> DEFINE S == {n \in 0 .. Depth : Good(n)}
<1>1. Depth \in Nat
  BY DepthAssumption
<1>2. 0 \in S
  BY <1>1, GoodAtLimit
<1>3. ASSUME NEW n \in 0 .. Depth - 1, n \in S PROVE n + 1 \in S
  <2>1. n + 1 \in 1 .. Depth /\ (n + 1) - 1 = n /\ n + 1 \in 0 .. Depth
    BY <1>1
  <2>2. Good(n + 1)
    BY <1>3, <2>1, GoodRow
  <2> QED BY <2>1, <2>2
<1>4. \A n \in 0 .. Depth : n \in S
  <2> HIDE DEF S
  <2> QED BY <1>1, <1>2, <1>3, Induction
<1> QED BY <1>4

-----------------------------------------------------------------------------
(* One question *)

LEMMA SearchIsExact ==
    ASSUME Setting, notModified \in SUBSET Rows, notModified \cap Close = {}, NEW row \in RowsOf(1)
    PROVE  /\ Search(row).found <=> row \in Close
           /\ Search(row).not \in SUBSET Rows /\ Search(row).not \cap Close = {}
<1> DEFINE new == [path |-> NewPath, not |-> notModified, found |-> FALSE]
<1>1. row \in Rows /\ tableOf[row] = 1
  BY DEF RowsOf
<1>2. Depth \in Nat \ {0}
  BY DepthAssumption
<1>3. new \in States
  <2>1. NewPath \in [1 .. Depth -> Entry]
    BY DEF NewPath, Entry
  <2> QED BY <2>1 DEF States, Entry
<1>4. CASE row \in modified
  <2>1. Search(row) = [new EXCEPT !.found = TRUE]
    BY <1>4 DEF Search
  <2>2. Search(row).found /\ Search(row).not = notModified
    BY <2>1
  <2>3. row \in Close
    <3>1. 0 \in 0 .. Depth /\ Depth - 1 \in 0 .. Depth
      BY <1>2
    <3> QED BY <1>4, <3>1, NearUnfolds, NearGrows DEF Close
  <2> QED BY <2>2, <2>3
<1>5. CASE row \notin modified
  <2> DEFINE t == Check[Depth][new][row]
  <2>1. Search(row) = t
    BY <1>5 DEF Search
  <2>2. ~new.found /\ MemoOK(new)
    BY DEF MemoOK
  <2> HIDE DEF new
  <2>3. Asked(Depth, new, row)
    BY <1>1, <1>5, <2>2, RelatedClosed DEF Asked, Setting
  <2>4. Sound(Depth, new, row, t) /\ t \in States
    BY <1>1, <1>2, <1>3, <2>3, CheckIsGood, CheckUnfolds DEF Good, Checkers
  <2> HIDE DEF t
  <2>5. t.not \in SUBSET Rows
    BY <2>4, StateType
  <2>6. ASSUME row \in Close PROVE t.found
    <3>1. 0 \in 0 .. Depth - Depth /\ Depth - 1 \in 0 .. Depth - 1 /\ Depth - 1 <= Depth - 1
      BY <1>2
    <3>2. Clear(new, 0, Depth - 1, Depth - Depth)
      <4>1. 0 + 1 .. Depth - Depth = {}
        BY <1>2
      <4> QED BY <4>1 DEF Clear
    <3>3. Caught(t, 0)
      BY <2>4, <2>6, <3>1, <3>2 DEF Sound, Close
    <3> QED BY <3>3 DEF Caught
  <2> QED BY <2>1, <2>4, <2>5, <2>6 DEF Sound, MemoOK, Close
<1> QED BY <1>4, <1>5

(* The rows with a change in reach have one in a related table. *)
LEMMA CloseIsRelated ==
    ASSUME Setting, NEW row \in RowsOf(1), row \in Close
    PROVE  \E t \in ToSet(RelatedTables) : TableModified(t)
<1> DEFINE Seen == \E t \in ToSet(RelatedTables) : TableModified(t)
           S == {n \in 0 .. Depth : \A r \in Near[n] : tableOf[r] \in ToSet(RelatedTables) => Seen}
<1>1. Depth \in Nat /\ Depth - 1 \in 0 .. Depth
  BY DepthAssumption
<1>2. 0 \in S
  <2>1. Near[0] = modified /\ modified \subseteq Rows
    BY NearUnfolds DEF Setting
  <2> QED BY <1>1, <2>1 DEF TableModified, RowsOf
<1>3. ASSUME NEW n \in 0 .. Depth - 1, n \in S PROVE n + 1 \in S
  <2>1. n + 1 \in 1 .. Depth /\ (n + 1) - 1 = n /\ n + 1 \in 0 .. Depth
    BY <1>1
  <2>2. ASSUME NEW r \in Near[n + 1], tableOf[r] \in ToSet(RelatedTables) PROVE Seen
    <3>1. r \in Rows
      BY <2>1, NearUnfolds
    <3>2. CASE r \in Near[n]
      BY <1>3, <2>2, <3>2
    <3>3. CASE r \notin Near[n]
      <4>1. PICK c \in DOMAIN links[r] : \E k \in DOMAIN links[r][c] : links[r][c][k] \in Near[n]
        BY <2>1, <3>1, <3>3, NextLink
      <4>2. PICK k \in DOMAIN links[r][c] : links[r][c][k] \in Near[n]
        BY <4>1
      <4>3. tableOf[links[r][c][k]] \in ToSet(RelatedTables)
        BY <2>2, <3>1, Linked
      <4> HIDE DEF Seen
      <4> QED BY <1>3, <4>2, <4>3
    <3> QED BY <3>2, <3>3
  <2> HIDE DEF Seen
  <2> QED BY <2>1, <2>2
<1>4. \A n \in 0 .. Depth : n \in S
  <2> HIDE DEF S
  <2> QED BY <1>1, <1>2, <1>3, Induction
<1>5. tableOf[row] \in ToSet(RelatedTables)
  BY RelatedClosed DEF RowsOf, Setting
<1> HIDE DEF Seen
<1>6. Seen
  BY <1>1, <1>4, <1>5 DEF Close
<1> QED BY <1>6 DEF Seen

(* The first table has no links, or not only to itself. *)
Outward == columns[1] = <<>> \/ \E c \in DOMAIN columns[1] : columns[1][c] # 1

(* No links are followed if no table is related to the first: there are none. *)
LEMMA ShallowIsExact ==
    ASSUME Setting, Outward, IsShallow, NEW row \in RowsOf(1)
    PROVE  row \in modified <=> row \in Close
<1>1. ToSet(RelatedTables) = {1}
  <2>1. RelatedTables \in Seq(Tables) /\ 1 \in ToSet(RelatedTables) /\ Len(RelatedTables) = 1
    BY RelatedClosed DEF Setting, IsShallow
  <2>2. DOMAIN RelatedTables = {1}
    BY <2>1
  <2> QED BY <2>1, <2>2 DEF ToSet
<1>2. 1 \in Tables /\ \A c \in DOMAIN columns[1] : columns[1][c] = 1
  BY <1>1, RelatedClosed DEF Setting
<1>3. DOMAIN columns[1] = {}
  BY <1>2 DEF Outward
<1>4. row \in Rows /\ DOMAIN links[row] = {}
  BY <1>3 DEF RowsOf, Setting, LinksOK
<1>5. Depth \in Nat /\ Depth - 1 \in 0 .. Depth - 1 /\ Depth - 1 \in 0 .. Depth /\ 0 \in 0 .. Depth
  BY DepthAssumption
<1>6. ASSUME row \in Close, row \notin modified PROVE FALSE
  <2>1. PICK l \in 1 .. Depth - 1 : row \in Near[l] /\ row \notin Near[l - 1]
    BY <1>4, <1>5, <1>6, Nearest DEF Close
  <2>2. l \in 1 .. Depth
    BY <1>5
  <2> QED BY <1>4, <2>1, <2>2, NextLink
<1>7. ASSUME row \in modified PROVE row \in Close
  BY <1>5, <1>7, NearUnfolds, NearGrows DEF Close
<1> QED BY <1>6, <1>7

-----------------------------------------------------------------------------
(* The specification *)

(* What is remembered never hides a change. *)
IInv == Setting /\ Outward /\ notModified \in SUBSET Rows /\ notModified \cap Close = {}

LEMMA InvImpliesExact == ASSUME IInv PROVE DeepChangesAreExact
<1> SUFFICES ASSUME NEW row \in RowsOf(1) PROVE RowDidChange(row) <=> row \in Close
  BY DEF DeepChangesAreExact, Close
<1>1. Setting /\ Outward /\ notModified \in SUBSET Rows /\ notModified \cap Close = {}
  BY DEF IInv
<1>2. Search(row).found <=> row \in Close
  BY <1>1, SearchIsExact
<1>3. IsShallow => (row \in modified <=> row \in Close)
  BY <1>1, ShallowIsExact
<1>4. row \in Close => \E t \in ToSet(RelatedTables) : TableModified(t)
  BY <1>1, CloseIsRelated
<1> QED BY <1>2, <1>3, <1>4 DEF RowDidChange, AnyRelatedTableModified

(* Every table that only links to itself is left out: for it the shallow checker is
   used although there are links. *)
NoneOnlyToItself ==
    \A l \in Layouts : l.columns[1] = <<>> \/ \E c \in DOMAIN l.columns[1] : l.columns[1][c] # 1

LEMMA InitImpliesInv == ASSUME NoneOnlyToItself, Init PROVE IInv
<1>1. PICK layout \in Layouts : columns = layout.columns /\ tableOf = layout.tableOf
  BY DEF Init
<1>2. LayoutOK /\ Outward
  BY <1>1, LayoutsAssumption DEF LayoutOK, Outward, NoneOnlyToItself
<1>3. modified \subseteq Rows /\ notModified = {}
  BY DEF Init
<1> DEFINE free == Rows \ modified
           none(r) == [c \in DOMAIN columns[tableOf[r]] |-> <<>>]
<1>4. PICK f : /\ \A r \in free : Fits(f[r], r) /\ \E t \in DOMAIN columns : f[r] \in [DOMAIN columns[t] -> Lists]
               /\ links = [r \in Rows |-> IF r \in free THEN f[r] ELSE none(r)]
  BY DEF Init
<1>5. ASSUME NEW ls \in Lists PROVE ls \in Seq(Rows)
  BY DEF Lists
<1>6. ASSUME NEW r \in Rows
      PROVE  /\ links[r] \in Seq(Seq(Rows)) /\ DOMAIN links[r] = DOMAIN columns[tableOf[r]]
             /\ \A c \in DOMAIN links[r] :
                   \A k \in DOMAIN links[r][c] : tableOf[links[r][c][k]] = columns[tableOf[r]][c]
  <2> DEFINE m == Len(columns[tableOf[r]])
  <2>1. m \in Nat /\ DOMAIN columns[tableOf[r]] = 1 .. m
    BY <1>2, TablesNumbered
  <2> HIDE DEF m
  <2>2. CASE r \in free
    <3>1. links[r] = f[r] /\ Fits(f[r], r)
      BY <1>4, <2>2
    <3>2. DOMAIN f[r] = 1 .. m
      BY <2>1, <3>1 DEF Fits
    <3>3. PICK t \in DOMAIN columns : f[r] \in [DOMAIN columns[t] -> Lists]
      BY <1>4, <2>2
    <3>4. f[r] \in [1 .. m -> Seq(Rows)]
      <4> HIDE DEF free
      <4> QED BY <1>5, <3>2, <3>3
    <3>5. f[r] \in Seq(Seq(Rows))
      BY <2>1, <3>4
    <3> QED BY <2>1, <3>1, <3>2, <3>5 DEF Fits
  <2>3. CASE r \notin free
    <3>1. links[r] = none(r)
      BY <1>4, <2>3
    <3>2. none(r) \in [1 .. m -> Seq(Rows)] /\ \A c \in 1 .. m : DOMAIN none(r)[c] = {}
      BY <2>1
    <3>3. none(r) \in Seq(Seq(Rows)) /\ DOMAIN none(r) = 1 .. m
      <4> HIDE DEF none
      <4> QED BY <2>1, <3>2
    <3> HIDE DEF none
    <3> QED BY <2>1, <3>1, <3>2, <3>3
  <2> QED BY <2>2, <2>3
<1> QED BY <1>2, <1>3, <1>6 DEF IInv, Setting, LinksOK

(* Near depends on these only. *)
NearIn(rows, lnk, mod) ==
    CHOOSE f : f = [n \in 0 .. Depth |->
        IF n = 0 THEN mod
        ELSE LET nearer == f[n - 1]
             IN  nearer \cup {r \in rows : (UNION {ToSet(lnk[r][c]) : c \in DOMAIN lnk[r]}) \cap nearer # {}}]

LEMMA NextKeepsInv == ASSUME IInv, [Next]_vars PROVE IInv'
<1>1. UNCHANGED <<columns, tableOf, links, modified>>
  BY DEF Next, Ask, vars
<1>2. Setting' /\ Outward'
  BY <1>1 DEF IInv, Setting, LayoutOK, LinksOK, Outward, Rows
<1>3. Rows' = Rows
  BY <1>1 DEF Rows
<1>4. Close' = Close
  <2>1. Near = NearIn(Rows, links, modified)
    BY DEF Near, NearIn, LinkedFrom
  <2>2. Near' = NearIn(Rows', links', modified')
    BY DEF Near, NearIn, LinkedFrom
  <2>3. Near' = Near
    BY <1>1, <1>3, <2>1, <2>2
  <2> QED BY <2>3 DEF Close
<1>5. notModified' \in SUBSET Rows /\ notModified' \cap Close = {}
  <2>1. CASE Next
    <3>1. PICK r \in RowsOf(1) : Ask(r)
      BY <2>1 DEF Next
    <3>2. notModified' = Search(r).not
      BY <3>1 DEF Ask
    <3> QED BY <3>2, SearchIsExact DEF IInv
  <2>2. CASE UNCHANGED vars
    BY <2>2 DEF vars, IInv
  <2> QED BY <2>1, <2>2
<1> QED BY <1>2, <1>3, <1>4, <1>5 DEF IInv

(* In whatever order rows are asked about, for any tables, links and depth, a row is
   reported exactly if it or a row less than Depth links away was modified: the rows
   remembered and the circles cut short never hide a change.  The tables whose links
   all lead to themselves are the exception. *)
THEOREM DeepExact ==
    ASSUME NoneOnlyToItself
    PROVE  Spec => []DeepChangesAreExact
<1>1. Init => IInv
  BY InitImpliesInv
<1>2. IInv /\ [Next]_vars => IInv'
  BY NextKeepsInv
<1>3. IInv => DeepChangesAreExact
  BY InvImpliesExact
<1> QED BY <1>1, <1>2, <1>3, PTL DEF Spec
=============================================================================
