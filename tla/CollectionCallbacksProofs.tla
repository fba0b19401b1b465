----------------------- MODULE CollectionCallbacksProofs -----------------------
(***************************************************************************)
(* Proofs about CollectionCallbacks, for any number of callbacks and any    *)
(* width of size_t that can count them.  What LateRemoval breaks is proved  *)
(* without it.                                                              *)
(***************************************************************************)
EXTENDS CollectionCallbacks, FiniteSetTheorems, TLAPS

Loops == {"before", "after", "error"}
Phases == {"idle", "packaged", "before", "advanced", "after", "error"}

\* Tokens are handed out in ascending order, and every callback has its own.
Ordered(q, n) ==
    /\ n \in 1 .. MaxTokens + 1 /\ q \in Seq(Nat) /\ Len(q) <= n - 1
    /\ \A i \in 1..Len(q) : q[i] \in 1 .. n - 1
    /\ \A i, j \in 1..Len(q) : i < j => q[i] < q[j]

\* The loop stands at a callback, unless it has run past their end.
LoopInv ==
    /\ index \in 0..Npos /\ count \in 0..Npos /\ phase \in Phases
    /\ phase \notin Loops => index = Npos /\ calling = Nobody /\ ~fault
    /\ fault \/ index = Npos \/ index < Len(callbacks)
    /\ calling \in Tokens \cup {Nobody}
    /\ fault => calling = Nobody

\* A callback that was given an error is gone when it returns.
FailedInv ==
    /\ failed \subseteq 1 .. next - 1
    /\ \A t \in failed : t \in Registered => t = calling /\ phase = "error"

\* What holds even if a callback is removed in the delivery that it was added in.
IInv == Ordered(callbacks, next) /\ LoopInv /\ FailedInv /\ HaveCallbacksExact

\* The packaged callbacks are the first ones, as many as the count says.
PackagedInv ==
    /\ ~fault /\ packaged \subseteq 1 .. next - 1
    /\ phase = "idle" => packaged = {}
    /\ phase # "idle" => count <= Len(callbacks)
    /\ phase # "idle" => \A i \in 1..Len(callbacks) : callbacks[i] \in packaged <=> i <= count
    /\ calling # Nobody => calling \in packaged

\* Nothing is about to be delivered to the i-th callback.
Delivered(i) ==
    \/ phase \in {"idle", "error"} \/ i > count
    \/ phase = "after" /\ index # Npos /\ i <= index + 1

\* A change is accumulated or, until the callback is called, about to be delivered.
ChangesInv ==
    /\ {acc, out, due} \subseteq [Tokens -> SUBSET Nat]
    /\ \A t \in Tokens \ Registered : due[t] = {}
    /\ \A i \in 1..Len(callbacks) :
          due[callbacks[i]] \subseteq acc[callbacks[i]] \cup out[callbacks[i]]
    /\ \A i \in 1..Len(callbacks) :
          Delivered(i) => due[callbacks[i]] \subseteq acc[callbacks[i]]

\* What holds as long as no callback is removed in the delivery it was added in.
DeliveryInv == PackagedInv /\ ChangesInv

-----------------------------------------------------------------------------
(* size_t arithmetic, and erasing from the callbacks *)

LEMMA Bounds == MaxTokens \in Nat /\ Npos \in Nat /\ Npos > MaxTokens + 1
BY CallbacksAssumption

LEMMA Remainder ==
    ASSUME NEW m \in Nat, m > 0, NEW a \in 0 .. m - 1
    PROVE  a % m = a /\ (a + m) % m = a
OBVIOUS

LEMMA Wraps ==
    ASSUME NEW n \in 0..Npos
    PROVE  /\ Incremented(n) = IF n = Npos THEN 0 ELSE n + 1
           /\ Decremented(n) = IF n = 0 THEN Npos ELSE n - 1
<1> DEFINE m == Npos + 1
<1>1. m \in Nat /\ m > 0 /\ n \in Nat /\ m = Npos + 1
  BY Bounds
<1> HIDE DEF m
<1>2. n # Npos => (n + 1) % m = n + 1
  <2>1. n # Npos => n + 1 \in 0 .. m - 1
    BY <1>1, Bounds
  <2> QED BY <1>1, <2>1, Remainder
<1>3. (0 + m) % m = 0
  BY <1>1, Remainder
<1>4. n # 0 => (n - 1 + m) % m = n - 1
  <2>1. n # 0 => n - 1 \in 0 .. m - 1
    BY <1>1, Bounds
  <2> QED BY <1>1, <2>1, Remainder
<1>5. n = 0 => Npos % m = Npos
  BY <1>1, Remainder, Bounds
<1>6. n = Npos => n + 1 = 0 + m
  BY <1>1, Bounds
<1>7. n # 0 => n + Npos = n - 1 + m
  BY <1>1, Bounds
<1>8. n = 0 => n + Npos = Npos
  BY Bounds
<1> QED BY <1>1, <1>2, <1>3, <1>4, <1>5, <1>6, <1>7, <1>8 DEF Incremented, Decremented


LEMMA PlaceOf ==
    ASSUME NEW q, NEW n, Ordered(q, n), NEW t \in ToSet(q)
    PROVE  LET p == SelectInSeq(q, LAMBDA x : x = t)
           IN  p \in 1..Len(q) /\ q[p] = t
<1> DEFINE I == {i \in 1..Len(q) : q[i] = t}
<1>1. q \in Seq(Nat) /\ \A i, j \in 1..Len(q) : i < j => q[i] < q[j]
  BY DEF Ordered
<1>2. PICK p \in 1..Len(q) : q[p] = t
  BY <1>1 DEF ToSet
<1>3. Len(q) \in Nat
  BY <1>1
<1>4. \A i \in I : i = p
  <2> SUFFICES ASSUME NEW i \in 1..Len(q), q[i] = t, i # p PROVE FALSE
    OBVIOUS
  <2>1. q[i] \in Nat /\ i \in Int /\ p \in Int
    BY <1>1, <1>3
  <2>2. i < p \/ p < i
    BY <2>1
  <2> QED BY <1>1, <1>2, <2>1, <2>2
<1>5. I = {p}
  BY <1>2, <1>4
<1>6. Min(I) = p
  <2>1. p <= p
    BY <1>3
  <2> QED BY <1>5, <2>1 DEF Min
<1> HIDE DEF I
<1>7. SelectInSeq(q, LAMBDA x : x = t) = Min(I)
  BY <1>5 DEF SelectInSeq, I
<1> QED BY <1>2, <1>6, <1>7

\* r is q without its p-th element.
Without(q, p, r) ==
    /\ r \in Seq(Nat) /\ Len(r) = Len(q) - 1
    /\ \A j \in 1..Len(r) : r[j] = IF j < p THEN q[j] ELSE q[j + 1]

LEMMA Removal ==
    ASSUME NEW q \in Seq(Nat), NEW p \in 1..Len(q)
    PROVE  Without(q, p, RemoveAt(q, p))
<1> DEFINE a == SubSeq(q, 1, p - 1)
           b == SubSeq(q, p + 1, Len(q))
<1>1. Len(q) \in Nat /\ p \in Nat /\ p >= 1 /\ p <= Len(q)
  OBVIOUS
<1>2. a \in Seq(Nat) /\ Len(a) = p - 1 /\ \A i \in 1 .. p - 1 : a[i] = q[i]
  BY <1>1
<1>3. b \in Seq(Nat) /\ Len(b) = Len(q) - p /\ \A i \in 1 .. Len(q) - p : b[i] = q[p + i]
  BY <1>1
<1> HIDE DEF a, b
<1>4. /\ a \o b \in Seq(Nat) /\ Len(a \o b) = Len(a) + Len(b)
      /\ \A i \in 1 .. Len(a) + Len(b) :
            (a \o b)[i] = IF i <= Len(a) THEN a[i] ELSE b[i - Len(a)]
  <2>1. ASSUME NEW u \in Seq(Nat), NEW v \in Seq(Nat)
        PROVE  /\ u \o v \in Seq(Nat) /\ Len(u \o v) = Len(u) + Len(v)
               /\ \A i \in 1 .. Len(u) + Len(v) :
                     (u \o v)[i] = IF i <= Len(u) THEN u[i] ELSE v[i - Len(u)]
    OBVIOUS
  <2> QED BY <1>2, <1>3, <2>1
<1>n. Len(a) + Len(b) = Len(q) - 1
  BY <1>1, <1>2, <1>3
<1>5. RemoveAt(q, p) = a \o b
  BY DEF RemoveAt, a, b
<1>6. ASSUME NEW j \in 1 .. Len(q) - 1 PROVE (a \o b)[j] = IF j < p THEN q[j] ELSE q[j + 1]
  <2>0. j \in Nat /\ j >= 1 /\ j <= Len(q) - 1
    BY <1>1
  <2>1. CASE j < p
    <3>1. j \in 1 .. p - 1 /\ j <= Len(a)
      BY <1>1, <1>2, <2>0, <2>1
    <3>2. (a \o b)[j] = a[j]
      BY <1>4, <1>n, <3>1
    <3> QED BY <1>2, <2>1, <3>1, <3>2
  <2>2. CASE ~(j < p)
    <3> DEFINE k == j - Len(a)
    <3>1. k \in 1 .. Len(q) - p /\ p + k = j + 1 /\ ~(j <= Len(a))
      BY <1>1, <1>2, <2>0, <2>2
    <3>2. (a \o b)[j] = b[k]
      BY <1>4, <1>n, <3>1
    <3> HIDE DEF k
    <3>3. b[k] = q[p + k]
      BY <1>3, <3>1
    <3> QED BY <2>2, <3>1, <3>2, <3>3
  <2> QED BY <2>1, <2>2
<1> QED BY <1>4, <1>n, <1>5, <1>6 DEF Without

LEMMA WithoutOrdered ==
    ASSUME NEW q, NEW n, Ordered(q, n), NEW p \in 1..Len(q), NEW r, Without(q, p, r)
    PROVE  Ordered(r, n) /\ ToSet(r) = ToSet(q) \ {q[p]}
<1>1. /\ q \in Seq(Nat) /\ n \in Nat /\ Len(q) \in Nat /\ p \in Nat /\ p >= 1 /\ p <= Len(q)
      /\ n \in 1 .. MaxTokens + 1 /\ Len(q) <= n - 1
      /\ \A i \in 1..Len(q) : q[i] \in 1 .. n - 1
      /\ \A i, j \in 1..Len(q) : i < j => q[i] < q[j]
  BY Bounds DEF Ordered
<1>2. /\ r \in Seq(Nat) /\ Len(r) = Len(q) - 1
      /\ \A j \in 1..Len(r) : r[j] = IF j < p THEN q[j] ELSE q[j + 1]
  BY DEF Without
<1> DEFINE from(j) == IF j < p THEN j ELSE j + 1
<1>3. \A j \in 1..Len(r) : from(j) \in 1..Len(q) /\ from(j) # p /\ r[j] = q[from(j)]
  <2> SUFFICES ASSUME NEW j \in 1..Len(r)
               PROVE  from(j) \in 1..Len(q) /\ from(j) # p /\ r[j] = q[from(j)]
    OBVIOUS
  <2>1. j \in Nat /\ j >= 1 /\ j <= Len(q) - 1
    BY <1>1, <1>2
  <2>2. from(j) \in 1..Len(q) /\ from(j) # p
    BY <1>1, <2>1
  <2>3. r[j] = q[from(j)]
    BY <1>2
  <2> QED BY <2>2, <2>3
<1>4. \A i, j \in 1..Len(r) : i < j => from(i) < from(j)
  <2> SUFFICES ASSUME NEW i \in 1..Len(r), NEW j \in 1..Len(r), i < j
               PROVE  from(i) < from(j)
    OBVIOUS
  <2>1. i \in Nat /\ j \in Nat
    BY <1>1, <1>2
  <2> QED BY <1>1, <2>1
<1>5. \A i \in 1..Len(q) : i # p => \E j \in 1..Len(r) : from(j) = i
  <2> SUFFICES ASSUME NEW i \in 1..Len(q), i # p PROVE \E j \in 1..Len(r) : from(j) = i
    OBVIOUS
  <2>1. CASE i < p
    <3>1. i \in 1..Len(r) /\ from(i) = i
      BY <1>1, <1>2, <2>1
    <3> QED BY <3>1
  <2>2. CASE i > p
    <3>1. i - 1 \in 1..Len(r) /\ from(i - 1) = i
      BY <1>1, <1>2, <2>2
    <3> QED BY <3>1
  <2>3. i \in Int /\ p \in Int
    BY <1>1
  <2> QED BY <2>1, <2>2, <2>3
<1>6. \A i \in 1..Len(q) : q[i] = q[p] => i = p
  <2> SUFFICES ASSUME NEW i \in 1..Len(q), q[i] = q[p], i # p PROVE FALSE
    OBVIOUS
  <2>1. q[i] \in Nat /\ i \in Int /\ p \in Int /\ p \in 1..Len(q)
    BY <1>1
  <2>2. i < p \/ p < i
    BY <2>1
  <2> QED BY <1>1, <2>1, <2>2
<1> HIDE DEF from
<1>7. ToSet(r) = ToSet(q) \ {q[p]}
  <2>1. DOMAIN r = 1..Len(r) /\ DOMAIN q = 1..Len(q)
    BY <1>1, <1>2
  <2>2. ToSet(r) = {r[j] : j \in 1..Len(r)} /\ ToSet(q) = {q[i] : i \in 1..Len(q)}
    BY <2>1 DEF ToSet
  <2>3. ASSUME NEW x \in ToSet(r) PROVE x \in ToSet(q) \ {q[p]}
    <3>1. PICK j \in 1..Len(r) : x = r[j]
      BY <2>2
    <3> QED BY <1>3, <1>6, <2>2, <3>1
  <2>4. ASSUME NEW x \in ToSet(q) \ {q[p]} PROVE x \in ToSet(r)
    <3>1. PICK i \in 1..Len(q) : x = q[i] /\ i # p
      BY <2>2
    <3>2. PICK j \in 1..Len(r) : from(j) = i
      BY <1>5, <3>1
    <3> QED BY <1>3, <2>2, <3>1, <3>2
  <2> QED BY <2>3, <2>4
<1>8. \A j \in 1..Len(r) : r[j] \in 1 .. n - 1
  BY <1>1, <1>3
<1>9. \A i, j \in 1..Len(r) : i < j => r[i] < r[j]
  BY <1>1, <1>3, <1>4
<1>10. Len(r) <= n - 1
  BY <1>1, <1>2
<1> QED BY <1>1, <1>2, <1>7, <1>8, <1>9, <1>10 DEF Ordered

\* What erasing the callback at place p does.
Erased(t, p) ==
    /\ p \in 1..Len(callbacks) /\ callbacks[p] = t
    /\ Without(callbacks, p, callbacks')
    /\ index' = IndexAfterErase(p - 1)
    /\ count' = Decremented(count)
    /\ have' = (callbacks' # <<>>)
    /\ acc' = [acc EXCEPT ![t] = {}] /\ out' = [out EXCEPT ![t] = {}]
    /\ due' = [due EXCEPT ![t] = {}]

LEMMA Erasing ==
    ASSUME Ordered(callbacks, next), NEW t \in Registered, Erase(t)
    PROVE  /\ \E p \in 1..Len(callbacks) : Erased(t, p)
           /\ Ordered(callbacks', next) /\ Registered' = Registered \ {t}
<1> DEFINE p == SelectInSeq(callbacks, LAMBDA x : x = t)
<1>1. p \in 1..Len(callbacks) /\ callbacks[p] = t
  BY PlaceOf DEF Registered
<1>2. /\ callbacks' = RemoveAt(callbacks, p)
      /\ index' = IndexAfterErase(p - 1) /\ count' = Decremented(count)
      /\ have' = (callbacks' # <<>>)
      /\ acc' = [acc EXCEPT ![t] = {}] /\ out' = [out EXCEPT ![t] = {}]
      /\ due' = [due EXCEPT ![t] = {}]
  BY DEF Erase, HaveAfterErase
<1> HIDE DEF p
<1>3. Without(callbacks, p, callbacks')
  BY <1>1, <1>2, Removal DEF Ordered
<1>4. Erased(t, p)
  BY <1>1, <1>2, <1>3 DEF Erased
<1>5. Ordered(callbacks', next) /\ ToSet(callbacks') = ToSet(callbacks) \ {t}
  BY <1>1, <1>3, WithoutOrdered
<1> QED BY <1>1, <1>4, <1>5 DEF Registered

LEMMA Adding ==
    ASSUME Ordered(callbacks, next), AddCallback
    PROVE  /\ Ordered(callbacks', next') /\ Registered' = Registered \cup {next}
           /\ next \in Tokens /\ next \notin Registered /\ next' = next + 1 /\ next \in Nat
           /\ callbacks' # <<>> /\ Len(callbacks') = Len(callbacks) + 1
           /\ callbacks'[Len(callbacks) + 1] = next
           /\ \A i \in 1..Len(callbacks) : callbacks'[i] = callbacks[i]
<1> DEFINE q == callbacks
           r == callbacks'
<1>1. /\ q \in Seq(Nat) /\ next \in Nat /\ Len(q) \in Nat
      /\ next \in 1 .. MaxTokens + 1 /\ Len(q) <= next - 1
      /\ \A i \in 1..Len(q) : q[i] \in 1 .. next - 1
      /\ \A i, j \in 1..Len(q) : i < j => q[i] < q[j]
  BY Bounds DEF Ordered
<1>2. r = Append(q, next) /\ next \in 1..MaxTokens /\ next' = next + 1
  BY DEF AddCallback, Tokens
<1>3. /\ r \in Seq(Nat) /\ Len(r) = Len(q) + 1 /\ r[Len(q) + 1] = next
      /\ \A i \in 1..Len(q) : r[i] = q[i]
  BY <1>1, <1>2
<1> HIDE DEF q, r
<1>4. next' \in 1 .. MaxTokens + 1 /\ Len(r) <= next' - 1
  BY <1>1, <1>2, <1>3, Bounds
<1>5. \A i \in 1..Len(r) : i \in 1..Len(q) \/ i = Len(q) + 1
  BY <1>1, <1>3
<1>6. \A i \in 1..Len(r) : r[i] \in 1 .. next' - 1
  <2> SUFFICES ASSUME NEW i \in 1..Len(r) PROVE r[i] \in 1 .. next' - 1
    OBVIOUS
  <2>1. CASE i \in 1..Len(q)
    <3>1. r[i] \in 1 .. next - 1
      BY <1>1, <1>3, <2>1
    <3> QED BY <1>1, <1>2, <3>1
  <2>2. CASE i = Len(q) + 1
    BY <1>1, <1>2, <1>3, <2>2
  <2> QED BY <1>5, <2>1, <2>2
<1>7. \A i, j \in 1..Len(r) : i < j => r[i] < r[j]
  <2> SUFFICES ASSUME NEW i \in 1..Len(r), NEW j \in 1..Len(r), i < j PROVE r[i] < r[j]
    OBVIOUS
  <2>1. i \in 1..Len(q)
    BY <1>1, <1>3
  <2>2. CASE j \in 1..Len(q)
    BY <1>1, <1>3, <2>1, <2>2
  <2>3. CASE j = Len(q) + 1
    <3>1. r[i] \in 1 .. next - 1 /\ r[j] = next
      BY <1>1, <1>3, <2>1, <2>3
    <3> QED BY <1>1, <3>1
  <2> QED BY <1>5, <2>2, <2>3
<1>8. Ordered(r, next')
  BY <1>3, <1>4, <1>6, <1>7 DEF Ordered
<1>9. ToSet(r) = ToSet(q) \cup {next}
  <2>1. DOMAIN r = 1..Len(r) /\ DOMAIN q = 1..Len(q)
    BY <1>1, <1>3
  <2>2. ToSet(r) = {r[i] : i \in 1..Len(r)} /\ ToSet(q) = {q[i] : i \in 1..Len(q)}
    BY <2>1 DEF ToSet
  <2>3. 1..Len(q) \subseteq 1..Len(r) /\ Len(q) + 1 \in 1..Len(r)
    BY <1>1, <1>3
  <2> QED BY <1>3, <1>5, <2>2, <2>3
<1>10. next \notin ToSet(q)
  <2>1. \A i \in 1..Len(q) : q[i] # next
    BY <1>1
  <2>2. DOMAIN q = 1..Len(q)
    BY <1>1
  <2> QED BY <2>1, <2>2 DEF ToSet
<1>11. r # <<>>
  <2>1. Len(r) # 0
    BY <1>1, <1>3
  <2> QED BY <1>3, <2>1
<1> QED BY <1>1, <1>2, <1>3, <1>8, <1>9, <1>10, <1>11 DEF q, r, Registered, Tokens

-----------------------------------------------------------------------------
(* The loop and the registration, whoever removes what *)

LEMMA InitInv == Init => IInv /\ (~LateRemoval => DeliveryInv)
<1> SUFFICES ASSUME Init PROVE IInv /\ DeliveryInv
  OBVIOUS
<1>1. /\ callbacks = <<>> /\ Len(callbacks) = 0 /\ Registered = {} /\ callbacks \in Seq(Nat)
      /\ 1..Len(callbacks) = {} /\ next = 1
  BY DEF Init, Registered, ToSet
<1>2. Ordered(callbacks, next)
  BY <1>1, Bounds DEF Ordered
<1>3. LoopInv
  BY Bounds DEF Init, LoopInv, Phases, Loops
<1>4. FailedInv
  BY DEF Init, FailedInv
<1>5. HaveCallbacksExact
  BY DEF Init, HaveCallbacksExact
<1>6. PackagedInv
  BY DEF Init, PackagedInv
<1>7. ChangesInv
  <2>1. acc \in [Tokens -> SUBSET Nat] /\ due = acc /\ out = acc /\ \A t \in Tokens : due[t] = {}
    BY DEF Init
  <2> QED BY <1>1, <2>1 DEF ChangesInv
<1> QED BY <1>2, <1>3, <1>4, <1>5, <1>6, <1>7 DEF IInv, DeliveryInv

LEMMA ErasingLoop ==
    ASSUME IInv, ~fault, NEW t \in Registered, Erase(t)
    PROVE  /\ Ordered(callbacks', next) /\ Registered' = Registered \ {t}
           /\ index' \in 0..Npos /\ count' \in 0..Npos
           /\ index' = Npos \/ index' < Len(callbacks')
           /\ index = Npos => index' = Npos
           /\ have' = (callbacks' # <<>>)
<1>1. /\ Ordered(callbacks, next) /\ callbacks \in Seq(Nat) /\ Len(callbacks) \in Nat
      /\ index \in 0..Npos /\ count \in 0..Npos
      /\ index = Npos \/ index < Len(callbacks)
  BY DEF IInv, LoopInv, Ordered
<1>2. PICK p \in 1..Len(callbacks) : Erased(t, p)
  BY <1>1, Erasing
<1>3. Ordered(callbacks', next) /\ Registered' = Registered \ {t}
  BY <1>1, Erasing
<1>4. /\ Len(callbacks') = Len(callbacks) - 1 /\ index' = IndexAfterErase(p - 1)
      /\ count' = Decremented(count) /\ have' = (callbacks' # <<>>)
  BY <1>2 DEF Erased, Without
<1>5. index' = IF index # Npos /\ index >= p - 1 THEN (IF index = 0 THEN Npos ELSE index - 1)
               ELSE index
  BY <1>1, <1>4, Wraps DEF IndexAfterErase
<1>6. count' \in 0..Npos
  <2>1. count' = IF count = 0 THEN Npos ELSE count - 1
    BY <1>1, <1>4, Wraps
  <2> QED BY <1>1, <2>1, Bounds
<1>7. index' \in 0..Npos /\ (index = Npos => index' = Npos)
  BY <1>1, <1>5, Bounds
<1>8. index' = Npos \/ index' < Len(callbacks')
  BY <1>1, <1>2, <1>4, <1>5, Bounds
<1> QED BY <1>3, <1>4, <1>6, <1>7, <1>8

LEMMA NextInv == IInv /\ [Next]_vars => IInv'
<1> SUFFICES ASSUME IInv, [Next]_vars PROVE IInv'
  OBVIOUS
<1> USE DEF Loops, Phases, flags, data, loop
<1>0. /\ Ordered(callbacks, next) /\ LoopInv /\ FailedInv /\ HaveCallbacksExact
      /\ callbacks \in Seq(Nat) /\ Len(callbacks) \in Nat /\ next \in Nat
      /\ Len(callbacks) < Npos
  BY Bounds DEF IInv, Ordered
<1>s. ASSUME UNCHANGED <<callbacks, next, have, failed>>, LoopInv',
             calling' = calling \/ (calling = Nobody /\ failed \cap Registered = {}),
             phase' = phase \/ (calling = Nobody /\ failed \cap Registered = {})
      PROVE  IInv'
  <2>1. FailedInv'
    BY <1>0, <1>s DEF FailedInv, Registered
  <2> QED BY <1>0, <1>s, <2>1 DEF IInv, HaveCallbacksExact, Ordered
<1>n. calling = Nobody => failed \cap Registered = {}
  <2>1. 0 \notin failed
    BY <1>0 DEF FailedInv
  <2> QED BY <1>0, <2>1 DEF FailedInv, Nobody
<1>c. UNCHANGED <<callbacks, next, have, failed, index, count, phase, calling, fault>> => IInv'
  BY <1>0, <1>s DEF LoopInv
<1>1. CASE UNCHANGED vars
  BY <1>1, <1>c DEF vars
<1>2. CASE PackageForDelivery
  <2>1. LoopInv'
    BY <1>0, <1>2, Bounds DEF LoopInv, PackageForDelivery
  <2>2. calling = Nobody
    BY <1>0, <1>2 DEF LoopInv, PackageForDelivery
  <2> QED BY <1>2, <1>s, <1>n, <2>1, <2>2 DEF PackageForDelivery
<1>3. CASE BeforeAdvance \/ AfterAdvance
  <2>1. LoopInv'
    BY <1>0, <1>3 DEF LoopInv, BeforeAdvance, AfterAdvance
  <2>2. calling = Nobody
    BY <1>0, <1>3 DEF LoopInv, BeforeAdvance, AfterAdvance
  <2> QED BY <1>3, <1>s, <1>n, <2>1, <2>2 DEF BeforeAdvance, AfterAdvance
<1>4. CASE DeliverError
  <2>1. LoopInv'
    BY <1>0, <1>4, Bounds DEF LoopInv, DeliverError
  <2>2. calling = Nobody
    BY <1>0, <1>4 DEF LoopInv, DeliverError
  <2> QED BY <1>4, <1>s, <1>n, <2>1, <2>2 DEF DeliverError
<1>5. CASE Visit
  <2>1. /\ index' = Incremented(index) /\ index' < count /\ phase \in Loops /\ phase' = phase
        /\ calling = Nobody /\ ~fault /\ UNCHANGED <<callbacks, next, have, count>>
    BY <1>5 DEF Visit, Looping
  <2>2. index' \in 0..Npos
    BY <1>0, <2>1, Wraps, Bounds DEF LoopInv
  <2>3. CASE index' >= Len(callbacks)
    <3>1. fault' = TRUE /\ UNCHANGED <<calling, failed>>
      BY <1>5, <2>3 DEF Visit
    <3>2. LoopInv'
      BY <1>0, <2>1, <2>2, <3>1 DEF LoopInv
    <3> QED BY <1>s, <1>n, <2>1, <3>1, <3>2
  <2>4. CASE ~(index' >= Len(callbacks))
    <3> DEFINE t == callbacks[index' + 1]
    <3>0. index' \in Nat /\ Len(callbacks) \in Nat
      BY <1>0, <2>2, Bounds
    <3>1. index' + 1 \in 1..Len(callbacks)
      <4>1. \A i, l \in Nat : ~(i >= l) => i + 1 \in 1..l
        OBVIOUS
      <4> QED BY <2>4, <3>0, <4>1
    <3>2. t \in Registered /\ t \in 1 .. next - 1 /\ t \in Tokens
      BY <1>0, <3>1, Bounds DEF Registered, ToSet, Ordered, Tokens
    <3>3. /\ fault' = fault /\ calling' \in {Nobody, t}
          /\ \/ failed' = failed
             \/ failed' = failed \cup {t} /\ calling' = t /\ phase = "error"
      BY <1>5, <2>1, <2>4 DEF Visit
    <3> HIDE DEF t
    <3>4. LoopInv'
      BY <1>0, <2>1, <2>2, <2>4, <3>2, <3>3 DEF LoopInv
    <3>5. FailedInv'
      BY <1>0, <1>n, <2>1, <3>2, <3>3 DEF FailedInv, Registered
    <3> QED BY <1>0, <2>1, <3>4, <3>5 DEF IInv, HaveCallbacksExact, Ordered
  <2> QED BY <2>3, <2>4
<1>6. CASE LoopEnds
  <2>1. LoopInv'
    BY <1>0, <1>6, Bounds DEF LoopInv, LoopEnds, Looping
  <2> QED BY <1>6, <1>s, <1>n, <2>1 DEF LoopEnds, Looping
<1>7. ASSUME NEW t \in Registered, ~fault, Erase(t),
             UNCHANGED <<fault, phase, failed, next>>,
             calling' = calling \/ (calling' = Nobody /\ (phase = "error" => t = calling))
      PROVE  IInv'
  <2>1. /\ Ordered(callbacks', next) /\ Registered' = Registered \ {t}
        /\ index' \in 0..Npos /\ count' \in 0..Npos
        /\ index' = Npos \/ index' < Len(callbacks')
        /\ index = Npos => index' = Npos
        /\ have' = (callbacks' # <<>>)
    BY <1>7, ErasingLoop
  <2>2. LoopInv'
    BY <1>0, <1>7, <2>1 DEF LoopInv
  <2>3. FailedInv'
    BY <1>0, <1>7, <2>1 DEF FailedInv
  <2> QED BY <1>7, <2>1, <2>2, <2>3 DEF IInv, HaveCallbacksExact, Ordered
<1>8. CASE Return
  <2>0. phase \in Loops /\ calling # Nobody
    BY <1>0, <1>8 DEF LoopInv, Return
  <2>1. CASE phase = "error" /\ RemovedOnError(calling)
    <3>1. Erase(calling) /\ calling \in Registered /\ calling' = Nobody
          /\ UNCHANGED <<fault, phase, failed, next>>
      BY <1>8, <2>1 DEF Return, RemovedOnError
    <3>2. ~fault
      BY <1>0, <2>0 DEF LoopInv
    <3> QED BY <1>7, <3>1, <3>2
  <2>2. CASE ~(phase = "error" /\ RemovedOnError(calling))
    <3>1. /\ UNCHANGED <<callbacks, next, have, failed, index, count, fault, phase>>
          /\ calling' = Nobody
      BY <1>8, <2>2 DEF Return
    <3>2. LoopInv'
      BY <1>0, <3>1 DEF LoopInv
    <3>3. FailedInv'
      BY <1>0, <2>2, <3>1 DEF FailedInv, RemovedOnError, Registered
    <3> QED BY <1>0, <3>1, <3>2, <3>3 DEF IInv, HaveCallbacksExact, Ordered
  <2> QED BY <2>1, <2>2
<1>9. CASE AddCallback
  <2>1. /\ Ordered(callbacks', next') /\ Registered' = Registered \cup {next}
        /\ next' = next + 1 /\ callbacks' # <<>> /\ Len(callbacks') = Len(callbacks) + 1
    BY <1>0, <1>9, Adding
  <2>2. /\ ~fault /\ UNCHANGED <<index, fault, phase, calling, failed>> /\ count' = count
        /\ have' = (have \/ index = Npos)
    BY <1>9 DEF AddCallback, UserCode, CountAfterAdd, HaveAfterAdd
  <2>3. LoopInv'
    BY <1>0, <2>1, <2>2 DEF LoopInv
  <2>4. FailedInv'
    <3>1. next \notin failed /\ failed \subseteq 1 .. next' - 1
      BY <1>0, <2>1 DEF FailedInv
    <3> QED BY <1>0, <2>1, <2>2, <3>1 DEF FailedInv
  <2>5. have' = TRUE
    <3>1. index # Npos => callbacks # <<>>
      BY <1>0, <2>2 DEF LoopInv
    <3> QED BY <1>0, <2>2, <3>1 DEF HaveCallbacksExact
  <2> QED BY <2>1, <2>3, <2>4, <2>5 DEF IInv, HaveCallbacksExact
<1>10. ASSUME NEW t \in Tokens, RemoveCallback(t) PROVE IInv'
  BY <1>7, <1>10 DEF RemoveCallback, UserCode
<1>11. ASSUME NEW t \in Tokens, SuppressNext(t) PROVE IInv'
  BY <1>c, <1>11 DEF SuppressNext
<1>12. ASSUME NEW new, AddChanges(new) PROVE IInv'
  BY <1>c, <1>12 DEF AddChanges
<1> QED BY <1>1, <1>2, <1>3, <1>4, <1>5, <1>6, <1>8, <1>9, <1>10, <1>11, <1>12 DEF Next

LEMMA Invariance == Spec => []IInv
BY InitInv, NextInv, PTL DEF Spec

\* The flag the worker looks at says whether there is a callback, also after
\* removals and additions in mid-loop and whoever removes what when.
THEOREM HaveExact == Spec => []HaveCallbacksExact
BY Invariance, PTL DEF IInv

\* A callback that was given an error is not called again.
THEOREM NoneAfterError == Spec => NoCallAfterError
<1>1. IInv /\ [Next]_vars => [\A t \in failed : calling' = t => calling = t]_vars
  <2> SUFFICES ASSUME IInv, Next, NEW t \in failed, calling' = t PROVE calling = t
    OBVIOUS
  <2>1. /\ failed \subseteq 1 .. next - 1 /\ next \in Nat /\ callbacks \in Seq(Nat)
        /\ \A u \in failed : u \in Registered => u = calling
    BY Bounds DEF IInv, FailedInv, Ordered
  <2>2. t # 0
    BY <2>1
  <2>3. CASE Visit
    <3>1. calling = Nobody /\ index \in 0..Npos
      BY <2>3 DEF Visit, Looping, IInv, LoopInv
    <3>2. index' \in Nat /\ Len(callbacks) \in Nat
      <4>1. index' = Incremented(index)
        BY <2>3 DEF Visit
      <4>2. index' = IF index = Npos THEN 0 ELSE index + 1
        BY <3>1, <4>1, Wraps
      <4> QED BY <2>1, <3>1, <4>2, Bounds
    <3>3. index' < Len(callbacks) /\ t = callbacks[index' + 1]
      <4>1. CASE index' >= Len(callbacks)
        BY <2>2, <2>3, <3>1, <4>1 DEF Visit, Nobody
      <4>2. CASE ~(index' >= Len(callbacks))
        <5>1. t = callbacks[index' + 1]
          BY <2>2, <2>3, <4>2 DEF Visit, Nobody, Looping
        <5>2. \A i, l \in Nat : ~(i >= l) => i < l
          OBVIOUS
        <5> QED BY <3>2, <4>2, <5>1, <5>2
      <4> QED BY <4>1, <4>2
    <3>4. index' + 1 \in 1..Len(callbacks)
      <4>1. \A i, l \in Nat : i < l => i + 1 \in 1..l
        OBVIOUS
      <4> QED BY <3>2, <3>3, <4>1
    <3>5. t \in Registered
      BY <2>1, <3>3, <3>4 DEF Registered, ToSet
    <3> QED BY <2>1, <3>5
  <2>4. CASE calling' = calling \/ calling' = Nobody
    BY <2>2, <2>4 DEF Nobody
  <2> QED BY <2>3, <2>4 DEF Next, loop, PackageForDelivery, BeforeAdvance, AfterAdvance, DeliverError,
             LoopEnds, Return, AddCallback, RemoveCallback, SuppressNext, AddChanges
<1> QED BY <1>1, Invariance, PTL DEF Spec, NoCallAfterError

-----------------------------------------------------------------------------
(* A delivery, with nobody removed in the delivery that he was added in *)

LEMMA RegisteredAt ==
    ASSUME Ordered(callbacks, next)
    PROVE  /\ Registered = {callbacks[i] : i \in 1..Len(callbacks)}
           /\ \A i \in 1..Len(callbacks) : callbacks[i] \in Tokens /\ callbacks[i] \in Registered
           /\ \A i, j \in 1..Len(callbacks) : callbacks[i] = callbacks[j] => i = j
           /\ callbacks \in Seq(Nat) /\ Len(callbacks) \in Nat /\ next \in Nat
           /\ Registered \subseteq 1 .. next - 1 /\ Registered \subseteq Tokens
<1>1. /\ callbacks \in Seq(Nat) /\ next \in 1 .. MaxTokens + 1 /\ Len(callbacks) \in Nat
      /\ \A i \in 1..Len(callbacks) : callbacks[i] \in 1 .. next - 1
      /\ \A i, j \in 1..Len(callbacks) : i < j => callbacks[i] < callbacks[j]
  BY DEF Ordered
<1>2. DOMAIN callbacks = 1..Len(callbacks)
  BY <1>1
<1>3. Registered = {callbacks[i] : i \in 1..Len(callbacks)}
  BY <1>2 DEF Registered, ToSet
<1>4. \A i \in 1..Len(callbacks) : callbacks[i] \in Tokens
  BY <1>1, Bounds DEF Tokens
<1>5. ASSUME NEW i \in 1..Len(callbacks), NEW j \in 1..Len(callbacks), callbacks[i] = callbacks[j]
      PROVE  i = j
  <2>1. i \in Int /\ j \in Int /\ callbacks[i] \in Int
    BY <1>1, Bounds
  <2>2. ~(i < j) /\ ~(j < i)
    BY <1>1, <1>5, <2>1
  <2> QED BY <2>1, <2>2
<1>6. next \in Nat
  BY <1>1, Bounds
<1>7. Registered \subseteq Tokens /\ Registered \subseteq 1 .. next - 1
  BY <1>1, <1>3, <1>4
<1> QED BY <1>1, <1>3, <1>4, <1>5, <1>6, <1>7

\* Where the j-th callback was before the p-th was erased.
Before(j, p) == IF j < p THEN j ELSE j + 1

LEMMA Places ==
    ASSUME IInv, NEW t, NEW p, Erased(t, p)
    PROVE  \A j \in 1..Len(callbacks') :
              /\ Before(j, p) \in 1..Len(callbacks) /\ Before(j, p) # p
              /\ callbacks'[j] = callbacks[Before(j, p)] /\ callbacks'[j] # t
<1>1. /\ Ordered(callbacks, next) /\ Len(callbacks) \in Nat /\ callbacks \in Seq(Nat)
      /\ \A i, j \in 1..Len(callbacks) : callbacks[i] = callbacks[j] => i = j
  BY RegisteredAt DEF IInv
<1>2. /\ p \in 1..Len(callbacks) /\ callbacks[p] = t /\ Len(callbacks') = Len(callbacks) - 1
      /\ \A j \in 1..Len(callbacks') :
            callbacks'[j] = IF j < p THEN callbacks[j] ELSE callbacks[j + 1]
  BY DEF Erased, Without
<1> SUFFICES ASSUME NEW j \in 1..Len(callbacks')
             PROVE  /\ Before(j, p) \in 1..Len(callbacks) /\ Before(j, p) # p
                    /\ callbacks'[j] = callbacks[Before(j, p)] /\ callbacks'[j] # t
  OBVIOUS
<1>3. j \in Nat /\ j >= 1 /\ j <= Len(callbacks) - 1 /\ p \in Nat
  BY <1>1, <1>2
<1>4. Before(j, p) \in 1..Len(callbacks) /\ Before(j, p) # p
  BY <1>1, <1>3 DEF Before
<1>5. callbacks'[j] = callbacks[Before(j, p)]
  BY <1>2 DEF Before
<1> QED BY <1>1, <1>2, <1>4, <1>5

LEMMA Numbers ==
    ASSUME IInv, NEW t, NEW p, Erased(t, p)
    PROVE  /\ index' = IF index # Npos /\ index >= p - 1
                       THEN (IF index = 0 THEN Npos ELSE index - 1) ELSE index
           /\ count' = IF count = 0 THEN Npos ELSE count - 1
           /\ index \in Nat /\ count \in Nat /\ Npos \in Nat /\ p \in Nat /\ p >= 1
           /\ index <= Npos /\ count <= Npos /\ p <= Len(callbacks)
           /\ Len(callbacks) \in Nat /\ Len(callbacks') = Len(callbacks) - 1
<1>1. index \in 0..Npos /\ count \in 0..Npos /\ Len(callbacks) \in Nat /\ Npos \in Nat
  BY RegisteredAt, Bounds DEF IInv, LoopInv
<1>2. /\ p \in 1..Len(callbacks) /\ index' = IndexAfterErase(p - 1)
      /\ count' = Decremented(count) /\ Len(callbacks') = Len(callbacks) - 1
  BY DEF Erased, Without
<1>3. index' = IF index # Npos /\ index >= p - 1
               THEN (IF index = 0 THEN Npos ELSE index - 1) ELSE index
  BY <1>1, <1>2, Wraps DEF IndexAfterErase
<1>4. count' = IF count = 0 THEN Npos ELSE count - 1
  BY <1>1, <1>2, Wraps
<1>5. index \in Nat /\ count \in Nat /\ p \in Nat /\ p >= 1
      /\ index <= Npos /\ count <= Npos /\ p <= Len(callbacks)
  BY <1>1, <1>2
<1> QED BY <1>1, <1>2, <1>3, <1>4, <1>5

LEMMA ErasingDelivery ==
    ASSUME IInv, DeliveryInv, NEW t \in Registered, Erase(t), phase = "idle" \/ t \in packaged,
           UNCHANGED <<fault, phase, packaged, next>>, calling' \in {calling, Nobody}
    PROVE  DeliveryInv'
<1>0. PackagedInv /\ ChangesInv /\ Ordered(callbacks, next)
  BY DEF DeliveryInv, IInv
<1>1. PICK p \in 1..Len(callbacks) : Erased(t, p)
  BY <1>0, Erasing
<1>2. Registered' = Registered \ {t} /\ t \in Tokens
  <2>1. Registered' = Registered \ {t}
    BY <1>0, Erasing
  <2>2. t \in Tokens
    BY <1>0, RegisteredAt
  <2> QED BY <2>1, <2>2
<1>3. \A j \in 1..Len(callbacks') :
         /\ Before(j, p) \in 1..Len(callbacks) /\ Before(j, p) # p
         /\ callbacks'[j] = callbacks[Before(j, p)] /\ callbacks'[j] # t
  BY <1>1, Places
<1>4. /\ index' = IF index # Npos /\ index >= p - 1
                  THEN (IF index = 0 THEN Npos ELSE index - 1) ELSE index
      /\ count' = IF count = 0 THEN Npos ELSE count - 1
      /\ index \in Nat /\ count \in Nat /\ Npos \in Nat /\ p \in Nat /\ p >= 1
      /\ index <= Npos /\ count <= Npos /\ p <= Len(callbacks)
      /\ Len(callbacks) \in Nat /\ Len(callbacks') = Len(callbacks) - 1
  BY <1>1, Numbers
<1>5. ASSUME phase # "idle"
      PROVE  p <= count /\ count' = count - 1 /\ count <= Len(callbacks)
  <2>1. callbacks[p] \in packaged /\ count <= Len(callbacks)
    BY <1>0, <1>1, <1>5 DEF Erased, PackagedInv
  <2>2. p <= count
    BY <1>0, <1>5, <2>1 DEF PackagedInv
  <2> QED BY <1>4, <2>1, <2>2
<1>6. PackagedInv'
  <2>1. phase # "idle" => count' <= Len(callbacks')
    BY <1>4, <1>5
  <2>2. ASSUME phase # "idle", NEW j \in 1..Len(callbacks')
        PROVE  callbacks'[j] \in packaged <=> j <= count'
    <3>1. callbacks'[j] \in packaged <=> Before(j, p) <= count
      BY <1>0, <1>3, <2>2 DEF PackagedInv
    <3>2. j \in Nat
      BY <1>4
    <3>3. Before(j, p) <= count <=> j <= count'
      BY <1>4, <1>5, <2>2, <3>2 DEF Before
    <3> QED BY <3>1, <3>3
  <2> QED BY <1>0, <2>1, <2>2 DEF PackagedInv
<1>7. /\ acc' = [acc EXCEPT ![t] = {}] /\ out' = [out EXCEPT ![t] = {}]
      /\ due' = [due EXCEPT ![t] = {}]
      /\ acc \in [Tokens -> SUBSET Nat] /\ out \in [Tokens -> SUBSET Nat]
      /\ due \in [Tokens -> SUBSET Nat]
  BY <1>0, <1>1 DEF Erased, ChangesInv
<1>8. /\ acc' \in [Tokens -> SUBSET Nat] /\ out' \in [Tokens -> SUBSET Nat]
      /\ due' \in [Tokens -> SUBSET Nat] /\ due'[t] = {}
      /\ \A u \in Tokens : u # t => acc'[u] = acc[u] /\ out'[u] = out[u] /\ due'[u] = due[u]
  BY <1>2, <1>7
<1>9. \A u \in Tokens \ Registered' : due'[u] = {}
  BY <1>0, <1>2, <1>8 DEF ChangesInv
<1>10. ASSUME NEW j \in 1..Len(callbacks')
       PROVE  /\ due'[callbacks'[j]] \subseteq acc'[callbacks'[j]] \cup out'[callbacks'[j]]
              /\ Delivered(j)' => due'[callbacks'[j]] \subseteq acc'[callbacks'[j]]
  <2> DEFINE i == Before(j, p)
             u == callbacks[i]
  <2>1. i \in 1..Len(callbacks) /\ callbacks'[j] = u /\ u # t
    BY <1>3
  <2>2. u \in Tokens
    BY <1>0, <2>1, RegisteredAt
  <2>3. Delivered(j)' => Delivered(i)
    <3>1. j \in Nat
      BY <1>4
    <3>2. CASE phase \in {"idle", "error"}
      BY <3>2 DEF Delivered
    <3>3. CASE phase \notin {"idle", "error"} /\ j > count'
      <4>1. i > count
        BY <1>4, <1>5, <3>1, <3>3 DEF Before
      <4> QED BY <4>1 DEF Delivered
    <3>4. CASE phase = "after" /\ index' # Npos /\ j <= index' + 1
      <4>1. index # Npos /\ i <= index + 1
        BY <1>4, <3>1, <3>4 DEF Before
      <4> QED BY <3>4, <4>1 DEF Delivered
    <3> QED BY <3>2, <3>3, <3>4 DEF Delivered
  <2>4. /\ due[u] \subseteq acc[u] \cup out[u]
        /\ Delivered(i) => due[u] \subseteq acc[u]
    BY <1>0, <2>1 DEF ChangesInv
  <2> HIDE DEF i, u
  <2> QED BY <1>8, <2>1, <2>2, <2>3, <2>4
<1>11. ChangesInv'
  BY <1>8, <1>9, <1>10 DEF ChangesInv
<1> QED BY <1>6, <1>11 DEF DeliveryInv

LEMMA AddingDelivery ==
    ASSUME IInv, DeliveryInv, AddCallback
    PROVE  DeliveryInv'
<1>0. PackagedInv /\ ChangesInv /\ Ordered(callbacks, next) /\ count \in 0..Npos
  BY DEF DeliveryInv, IInv, LoopInv
<1>1. /\ Registered' = Registered \cup {next} /\ next \in Tokens /\ next \notin Registered
      /\ next' = next + 1 /\ next \in Nat /\ Len(callbacks') = Len(callbacks) + 1
      /\ callbacks'[Len(callbacks) + 1] = next
      /\ \A i \in 1..Len(callbacks) : callbacks'[i] = callbacks[i]
  BY <1>0, Adding
<1>2. UNCHANGED <<index, count, phase, calling, packaged, fault, acc, out, due>>
  BY DEF AddCallback, CountAfterAdd, data, loop
<1>3. Len(callbacks) \in Nat /\ count \in Nat
  BY <1>0, RegisteredAt, Bounds
<1>4. next \notin packaged /\ packaged \subseteq 1 .. next' - 1
  BY <1>0, <1>1 DEF PackagedInv
<1>5. \A i \in 1..Len(callbacks') : i \in 1..Len(callbacks) \/ i = Len(callbacks) + 1
  BY <1>1, <1>3
<1>6. PackagedInv'
  <2>1. phase # "idle" => count <= Len(callbacks')
    BY <1>0, <1>1, <1>3 DEF PackagedInv
  <2>2. ASSUME phase # "idle", NEW i \in 1..Len(callbacks')
        PROVE  callbacks'[i] \in packaged <=> i <= count
    <3>1. CASE i \in 1..Len(callbacks)
      BY <1>0, <1>1, <2>2, <3>1 DEF PackagedInv
    <3>2. CASE i = Len(callbacks) + 1
      <4>1. ~(i <= count)
        BY <1>0, <1>3, <2>2, <3>2 DEF PackagedInv
      <4> QED BY <1>1, <1>4, <3>2, <4>1
    <3> QED BY <1>5, <3>1, <3>2
  <2> QED BY <1>0, <1>2, <1>4, <2>1, <2>2 DEF PackagedInv
<1>7. ASSUME NEW i \in 1..Len(callbacks')
      PROVE  /\ due[callbacks'[i]] \subseteq acc[callbacks'[i]] \cup out[callbacks'[i]]
             /\ Delivered(i)' => due[callbacks'[i]] \subseteq acc[callbacks'[i]]
  <2>1. CASE i \in 1..Len(callbacks)
    <3>1. Delivered(i)' <=> Delivered(i)
      BY <1>2 DEF Delivered
    <3> QED BY <1>0, <1>1, <2>1, <3>1 DEF ChangesInv
  <2>2. CASE i = Len(callbacks) + 1
    <3>1. due[next] = {}
      BY <1>0, <1>1 DEF ChangesInv
    <3> QED BY <1>1, <2>2, <3>1
  <2> QED BY <1>5, <2>1, <2>2
<1>8. \A t \in Tokens \ Registered' : due[t] = {}
  BY <1>0, <1>1 DEF ChangesInv
<1>9. ChangesInv'
  BY <1>0, <1>2, <1>7, <1>8 DEF ChangesInv
<1> QED BY <1>6, <1>9 DEF DeliveryInv

LEMMA VisitingDelivery ==
    ASSUME IInv, DeliveryInv, Visit
    PROVE  /\ DeliveryInv'
           /\ index' = Incremented(index) /\ index' + 1 \in 1..Len(callbacks)
           /\ index' + 1 <= count /\ calling = Nobody
           /\ calling' \in {Nobody, callbacks[index' + 1]}
           /\ UNCHANGED <<callbacks, count, phase, packaged>> /\ phase \in Loops
<1>0. /\ PackagedInv /\ ChangesInv /\ Ordered(callbacks, next) /\ index \in 0..Npos
      /\ count \in 0..Npos
  BY DEF DeliveryInv, IInv, LoopInv
<1>1. /\ phase \in Loops /\ calling = Nobody /\ index' = Incremented(index) /\ index' < count
      /\ UNCHANGED <<callbacks, count, acc, phase, packaged, next>>
  BY DEF Visit, Looping, Loops
<1>2. /\ Len(callbacks) \in Nat /\ count \in Nat /\ count <= Npos /\ index \in Nat
      /\ Npos \in Nat /\ count <= Len(callbacks)
  BY <1>0, <1>1, RegisteredAt, Bounds DEF PackagedInv, Loops
<1>3. index' = IF index = Npos THEN 0 ELSE index + 1
  BY <1>0, <1>1, Wraps
<1>4. index' \in Nat
  BY <1>2, <1>3
<1>5. index' + 1 \in 1..Len(callbacks) /\ ~(index' >= Len(callbacks)) /\ index' # Npos
      /\ index' + 1 <= count
  <2>1. \A i, c, l, n \in Nat : i < c /\ c <= l /\ c <= n
           => i + 1 \in 1..l /\ ~(i >= l) /\ i # n /\ i + 1 <= c
    OBVIOUS
  <2> QED BY <1>1, <1>2, <1>4, <2>1
<1> DEFINE t == callbacks[index' + 1]
<1>6. t \in Tokens /\ t \in Registered /\ t \in packaged
  <2>1. t \in packaged
    BY <1>0, <1>1, <1>5 DEF PackagedInv, Loops
  <2> QED BY <1>0, <1>5, <2>1, RegisteredAt
<1>7. /\ fault' = fault /\ calling' \in {Nobody, t}
      /\ \/ phase # "after" /\ UNCHANGED <<out, due>>
         \/ /\ phase = "after" /\ out' = [out EXCEPT ![t] = {}]
            /\ due' = [due EXCEPT ![t] = due[t] \ out[t]]
  <2>1. CASE phase = "after"
    BY <1>5, <2>1 DEF Visit
  <2>2. CASE phase = "before"
    BY <1>5, <2>2 DEF Visit
  <2>3. CASE phase = "error"
    BY <1>5, <2>3 DEF Visit
  <2> QED BY <1>1, <2>1, <2>2, <2>3 DEF Loops
<1> HIDE DEF t
<1>8. PackagedInv'
  BY <1>0, <1>1, <1>6, <1>7 DEF PackagedInv
<1>9. CASE phase # "after"
  <2>1. UNCHANGED <<out, due>>
    BY <1>7, <1>9
  <2>2. \A i : Delivered(i)' => Delivered(i)
    BY <1>1, <1>9 DEF Delivered
  <2>3. ChangesInv'
    BY <1>0, <1>1, <2>1, <2>2 DEF ChangesInv, Registered
  <2> QED BY <1>1, <1>5, <1>7, <1>8, <2>3 DEF DeliveryInv, t
<1>10. CASE phase = "after"
  <2>1. /\ acc \in [Tokens -> SUBSET Nat] /\ out \in [Tokens -> SUBSET Nat]
        /\ due \in [Tokens -> SUBSET Nat]
    BY <1>0 DEF ChangesInv
  <2>2. out' = [out EXCEPT ![t] = {}] /\ due' = [due EXCEPT ![t] = due[t] \ out[t]]
    BY <1>7, <1>10
  <2>3. /\ out' \in [Tokens -> SUBSET Nat] /\ due' \in [Tokens -> SUBSET Nat]
        /\ out'[t] = {} /\ due'[t] = due[t] \ out[t]
        /\ \A u \in Tokens : u # t => out'[u] = out[u] /\ due'[u] = due[u]
    BY <1>6, <2>1, <2>2
  <2>4. \A u \in Tokens \ Registered' : due'[u] = {}
    BY <1>0, <1>1, <1>6, <2>3 DEF ChangesInv, Registered
  <2>5. ASSUME NEW i \in 1..Len(callbacks)
        PROVE  /\ due'[callbacks[i]] \subseteq acc[callbacks[i]] \cup out'[callbacks[i]]
               /\ Delivered(i)' => due'[callbacks[i]] \subseteq acc[callbacks[i]]
    <3> DEFINE u == callbacks[i]
    <3>1. u \in Tokens /\ (due[u] \subseteq acc[u] \cup out[u])
      BY <1>0, RegisteredAt DEF ChangesInv
    <3>2. CASE i = index' + 1
      <4>1. u = t
        BY <3>2 DEF t
      <4> HIDE DEF u
      <4>2. due'[u] \subseteq acc[u]
        BY <2>3, <3>1, <4>1
      <4> QED BY <4>2 DEF u
    <3>3. CASE i # index' + 1
      <4>1. u # t
        BY <1>0, <1>5, <3>3, RegisteredAt DEF t
      <4>2. Delivered(i)' => Delivered(i)
        <5>1. i \in Nat
          BY <1>2
        <5>2. CASE i <= index' + 1
          <6>1. index # Npos /\ i <= index + 1
            BY <1>2, <1>3, <3>3, <5>1, <5>2
          <6> QED BY <1>10, <6>1 DEF Delivered
        <5>3. CASE ~(i <= index' + 1)
          BY <1>1, <1>10, <5>3 DEF Delivered
        <5> QED BY <5>2, <5>3
      <4>3. Delivered(i) => due[u] \subseteq acc[u]
        BY <1>0 DEF ChangesInv
      <4> HIDE DEF u
      <4>4. out'[u] = out[u] /\ due'[u] = due[u]
        BY <2>3, <3>1, <4>1
      <4> QED BY <3>1, <4>2, <4>3, <4>4 DEF u
    <3> QED BY <3>2, <3>3
  <2>6. ChangesInv'
    BY <1>1, <2>1, <2>3, <2>4, <2>5 DEF ChangesInv
  <2> QED BY <1>1, <1>5, <1>7, <1>8, <2>6 DEF DeliveryInv, t
<1> QED BY <1>9, <1>10

LEMMA DeliveryNext ==
    ASSUME ~LateRemoval, IInv, DeliveryInv, changes \in Nat, Next
    PROVE  DeliveryInv'
<1>0. /\ PackagedInv /\ ChangesInv /\ Ordered(callbacks, next) /\ LoopInv
      /\ Len(callbacks) \in Nat /\ Registered \subseteq Tokens /\ Registered \subseteq 1 .. next - 1
      /\ \A i \in 1..Len(callbacks) : callbacks[i] \in Tokens /\ callbacks[i] \in Registered
  BY RegisteredAt DEF DeliveryInv, IInv
<1>f. /\ acc \in [Tokens -> SUBSET Nat] /\ out \in [Tokens -> SUBSET Nat]
      /\ due \in [Tokens -> SUBSET Nat]
  BY <1>0 DEF ChangesInv
<1>s. ASSUME UNCHANGED <<callbacks, next, acc, out, due>>,
             \A i \in 1..Len(callbacks) :
                Delivered(i)' => due[callbacks[i]] \subseteq acc[callbacks[i]]
      PROVE  ChangesInv'
  BY <1>0, <1>s DEF ChangesInv, Registered
<1>p. ASSUME UNCHANGED <<callbacks, next, fault, packaged, count>>,
             calling' \in {calling, Nobody}, (phase = "idle") <=> (phase' = "idle")
      PROVE  PackagedInv'
  BY <1>0, <1>p DEF PackagedInv
<1>d. \A i \in 1..Len(callbacks) :
         Delivered(i) => due[callbacks[i]] \subseteq acc[callbacks[i]]
  BY <1>0 DEF ChangesInv
<1>1. CASE PackageForDelivery
  <2>1. /\ phase = "idle" /\ phase' = "packaged" /\ UNCHANGED <<callbacks, next, fault, due, index, calling>>
        /\ count' = Len(callbacks) /\ packaged' = Registered
        /\ out' = [t \in Tokens |-> IF t \in Registered THEN acc[t] ELSE out[t]]
        /\ acc' = [t \in Tokens |-> IF t \in Registered THEN {} ELSE acc[t]]
    BY <1>1 DEF PackageForDelivery, flags
  <2>2. calling = Nobody
    BY <1>0, <2>1 DEF LoopInv, Loops
  <2>3. PackagedInv'
    BY <1>0, <2>1, <2>2 DEF PackagedInv
  <2>4. acc' \in [Tokens -> SUBSET Nat] /\ out' \in [Tokens -> SUBSET Nat]
    BY <1>f, <2>1
  <2>5. ASSUME NEW i \in 1..Len(callbacks)
        PROVE  ~Delivered(i)' /\ due[callbacks[i]] \subseteq out'[callbacks[i]]
    <3>1. ~(i > Len(callbacks))
      BY <1>0
    <3>2. ~Delivered(i)'
      BY <2>1, <3>1 DEF Delivered
    <3>3. Delivered(i)
      BY <2>1 DEF Delivered
    <3>4. out'[callbacks[i]] = acc[callbacks[i]]
      BY <1>0, <2>1
    <3> QED BY <1>d, <3>2, <3>3, <3>4
  <2>6. ChangesInv'
    BY <1>0, <1>f, <2>1, <2>4, <2>5 DEF ChangesInv, Registered
  <2> QED BY <2>3, <2>6 DEF DeliveryInv
<1>2. CASE BeforeAdvance
  <2>1. /\ UNCHANGED <<callbacks, next, acc, out, due, fault, packaged, count, calling, index>>
        /\ phase = "packaged" /\ phase' = "before"
    BY <1>2 DEF BeforeAdvance, flags, data
  <2>2. \A i \in 1..Len(callbacks) : Delivered(i)' => Delivered(i)
    BY <2>1 DEF Delivered
  <2> QED BY <1>s, <1>p, <1>d, <2>1, <2>2 DEF DeliveryInv
<1>3. CASE AfterAdvance
  <2>1. /\ UNCHANGED <<callbacks, next, acc, out, due, fault, packaged, count, calling, index>>
        /\ phase \in {"packaged", "advanced"} /\ phase' = "after"
    BY <1>3 DEF AfterAdvance, flags, data
  <2>2. index = Npos
    BY <1>0, <2>1 DEF LoopInv, Loops
  <2>3. \A i \in 1..Len(callbacks) : Delivered(i)' => Delivered(i)
    BY <2>1, <2>2 DEF Delivered
  <2> QED BY <1>s, <1>p, <1>d, <2>1, <2>3 DEF DeliveryInv
<1>4. CASE DeliverError
  <2>1. /\ UNCHANGED <<callbacks, next, acc, out, due, fault, calling, index>>
        /\ phase = "idle" /\ phase' = "error" /\ packaged' = Registered
        /\ count' = Len(callbacks)
    BY <1>4 DEF DeliverError, data
  <2>2. calling = Nobody
    BY <1>0, <2>1 DEF LoopInv, Loops
  <2>3. PackagedInv'
    BY <1>0, <2>1, <2>2 DEF PackagedInv
  <2>4. \A i \in 1..Len(callbacks) : Delivered(i)
    BY <2>1 DEF Delivered
  <2> QED BY <1>s, <1>d, <2>1, <2>3, <2>4 DEF DeliveryInv
<1>5. CASE Visit
  BY <1>5, VisitingDelivery
<1>6. CASE LoopEnds
  <2>1. /\ UNCHANGED <<callbacks, next, acc, out, due, fault, count, calling>>
        /\ phase \in Loops /\ phase' = (IF phase = "before" THEN "advanced" ELSE "idle")
        /\ packaged' = (IF phase = "before" THEN packaged ELSE {})
        /\ Incremented(index) >= count /\ calling = Nobody
    BY <1>6 DEF LoopEnds, Looping, Loops, flags, data
  <2>2. CASE phase = "before"
    <3>1. \A i \in 1..Len(callbacks) : Delivered(i)' => Delivered(i)
      BY <2>1, <2>2 DEF Delivered
    <3> QED BY <1>s, <1>p, <1>d, <2>1, <2>2, <3>1 DEF DeliveryInv
  <2>3. CASE phase \in {"after", "error"}
    <3>1. PackagedInv'
      BY <1>0, <2>1, <2>3 DEF PackagedInv
    <3>2. ASSUME NEW i \in 1..Len(callbacks) PROVE Delivered(i)
      <4>1. CASE phase = "error"
        BY <4>1 DEF Delivered
      <4>2. CASE phase = "after"
        <5>1. index \in 0..Npos /\ count \in 0..Npos /\ i \in Nat /\ i >= 1 /\ Npos \in Nat
          BY <1>0, Bounds DEF LoopInv
        <5>2. Incremented(index) = IF index = Npos THEN 0 ELSE index + 1
          BY <5>1, Wraps
        <5>3. i > count \/ (index # Npos /\ i <= index + 1)
          BY <2>1, <5>1, <5>2
        <5> QED BY <4>2, <5>3 DEF Delivered
      <4> QED BY <2>3, <4>1, <4>2
    <3> QED BY <1>s, <1>d, <2>1, <3>1, <3>2 DEF DeliveryInv
  <2> QED BY <2>1, <2>2, <2>3 DEF Loops
<1>c. ASSUME UNCHANGED <<callbacks, next, acc, out, due, fault, packaged, count, phase, index>>,
             calling' \in {calling, Nobody}
      PROVE  DeliveryInv'
  <2>1. \A i \in 1..Len(callbacks) : Delivered(i)' => Delivered(i)
    BY <1>c DEF Delivered
  <2> QED BY <1>s, <1>p, <1>d, <1>c, <2>1 DEF DeliveryInv
<1>7. CASE Return
  <2>1. calling # Nobody /\ calling' = Nobody /\ UNCHANGED <<fault, phase, packaged, next>>
    BY <1>7 DEF Return
  <2>2. CASE phase = "error" /\ RemovedOnError(calling)
    <3>1. Erase(calling) /\ calling \in Registered
      BY <1>7, <2>2 DEF Return, RemovedOnError
    <3>2. calling \in packaged
      BY <1>0, <2>1 DEF PackagedInv
    <3> QED BY <2>1, <3>1, <3>2, ErasingDelivery
  <2>3. CASE ~(phase = "error" /\ RemovedOnError(calling))
    BY <1>7, <1>c, <2>1, <2>3 DEF Return
  <2> QED BY <2>2, <2>3
<1>8. CASE AddCallback
  BY <1>8, AddingDelivery
<1>9. ASSUME NEW t \in Tokens, RemoveCallback(t) PROVE DeliveryInv'
  <2>1. t \in Registered /\ Erase(t) /\ (phase = "idle" \/ t \in packaged)
    BY <1>9 DEF RemoveCallback
  <2>2. UNCHANGED <<fault, phase, packaged, next, calling>>
    BY <1>9 DEF RemoveCallback, loop
  <2> QED BY <2>1, <2>2, ErasingDelivery
<1>10. ASSUME NEW t \in Tokens, SuppressNext(t) PROVE DeliveryInv'
  BY <1>10, <1>c DEF SuppressNext, flags, loop
<1>11. ASSUME NEW new \in SUBSET Nat, AddChanges(new) PROVE DeliveryInv'
  <2>1. /\ UNCHANGED <<callbacks, next, out, fault, packaged, count, phase, index, calling>>
        /\ acc' = [t \in Tokens |-> IF t \in Registered THEN Accumulated(t, new) ELSE acc[t]]
        /\ due' = [t \in Tokens |-> IF t \in Registered \ skip THEN due[t] \cup new ELSE due[t]]
    BY <1>11 DEF AddChanges, flags, loop
  <2>2. /\ acc' \in [Tokens -> SUBSET Nat] /\ due' \in [Tokens -> SUBSET Nat]
    BY <1>f, <2>1 DEF Accumulated
  <2>3. ASSUME NEW t \in Registered
        PROVE  \E d \in SUBSET Nat : acc'[t] = acc[t] \cup d /\ due'[t] = due[t] \cup d
    <3>0. t \in Tokens
      BY <1>0
    <3>1. CASE t \in skip
      <4>1. acc'[t] = acc[t] \cup {} /\ due'[t] = due[t] \cup {}
        BY <1>0, <1>f, <2>1, <3>0, <3>1 DEF Accumulated
      <4>2. {} \in SUBSET Nat
        OBVIOUS
      <4> QED BY <4>1, <4>2
    <3>2. CASE t \notin skip
      BY <1>0, <1>f, <2>1, <3>0, <3>2 DEF Accumulated
    <3> QED BY <3>1, <3>2
  <2>4. \A t \in Tokens \ Registered : due'[t] = due[t]
    BY <2>1
  <2>5. ASSUME NEW i \in 1..Len(callbacks)
        PROVE  /\ due'[callbacks[i]] \subseteq acc'[callbacks[i]] \cup out[callbacks[i]]
               /\ Delivered(i)' => due'[callbacks[i]] \subseteq acc'[callbacks[i]]
    <3> DEFINE t == callbacks[i]
    <3>1. PICK d \in SUBSET Nat : acc'[t] = acc[t] \cup d /\ due'[t] = due[t] \cup d
      BY <1>0, <2>3
    <3>2. Delivered(i)' => Delivered(i)
      BY <2>1 DEF Delivered
    <3>3. due[t] \subseteq acc[t] \cup out[t] /\ (Delivered(i) => due[t] \subseteq acc[t])
      BY <1>0 DEF ChangesInv
    <3> HIDE DEF t
    <3>4. /\ due'[t] \subseteq acc'[t] \cup out[t]
          /\ Delivered(i)' => due'[t] \subseteq acc'[t]
      BY <3>1, <3>2, <3>3
    <3> QED BY <3>4 DEF t
  <2>6. ChangesInv'
    BY <1>0, <1>f, <2>1, <2>2, <2>4, <2>5, ZenonT(60) DEF ChangesInv, Registered
  <2>7. PackagedInv'
    BY <1>p, <2>1
  <2> QED BY <2>6, <2>7 DEF DeliveryInv
<1>12. {} \in SUBSET Nat /\ {changes + 1} \in SUBSET Nat
  OBVIOUS
<1> QED BY <1>1, <1>2, <1>3, <1>4, <1>5, <1>6, <1>7, <1>8, <1>9, <1>10, <1>11, <1>12 DEF Next

Counted == changes \in Nat

LEMMA DeliveryInvariance ==
    ASSUME ~LateRemoval
    PROVE  Spec => []DeliveryInv
<1>1. Init => Counted
  BY DEF Init, Counted
<1>2. Counted /\ [Next]_vars => Counted'
  <2> SUFFICES ASSUME changes \in Nat, [Next]_vars PROVE changes' \in Nat
    BY DEF Counted
  <2>1. ASSUME NEW new, AddChanges(new), Cardinality(new) \in Nat PROVE changes' \in Nat
    BY <2>1 DEF AddChanges
  <2>2. Cardinality({}) \in Nat /\ Cardinality({changes + 1}) \in Nat
    <3>1. Cardinality({}) = 0
      BY FS_EmptySet
    <3>2. Cardinality({changes + 1}) = 1
      BY FS_Singleton
    <3> QED BY <3>1, <3>2
  <2>3. CASE changes' = changes
    BY <2>3
  <2> QED BY <2>1, <2>2, <2>3 DEF Next, vars, data, PackageForDelivery, BeforeAdvance, AfterAdvance,
             DeliverError, Visit, LoopEnds, Return, AddCallback, RemoveCallback, SuppressNext
<1>3. Init => DeliveryInv
  BY InitInv
<1>4. IInv /\ DeliveryInv /\ Counted /\ [Next]_vars => DeliveryInv'
  <2> SUFFICES ASSUME IInv, DeliveryInv, changes \in Nat, [Next]_vars PROVE DeliveryInv'
    BY DEF Counted
  <2>1. CASE UNCHANGED vars
    <3>1. UNCHANGED <<callbacks, next, acc, out, due, fault, packaged, count, phase, index, calling>>
      BY <2>1 DEF vars, flags, data, loop
    <3> QED BY <3>1 DEF DeliveryInv, PackagedInv, ChangesInv, Delivered, Registered
  <2> QED BY <2>1, DeliveryNext
<1> QED BY <1>1, <1>2, <1>3, <1>4, Invariance, PTL DEF Spec

\* Whatever was reported to the notifier since a callback was added is accumulated
\* for it or about to be delivered to it, until its call.
THEOREM NothingLost ==
    ASSUME ~LateRemoval
    PROVE  Spec => []ChangesNeverLost
<1>1. IInv /\ DeliveryInv => ChangesNeverLost
  BY RegisteredAt DEF IInv, DeliveryInv, ChangesInv, ChangesNeverLost
<1> QED BY <1>1, Invariance, DeliveryInvariance, PTL

-----------------------------------------------------------------------------
(* The rounds of CallbackRounds *)

\* The place the loop comes to next, and the callbacks it has still to visit.
Start == IF index = Npos THEN 1 ELSE index + 2
Left == IF phase \in Loops THEN {callbacks[i] : i \in Start..count} ELSE {}
Shown == IF calling = Nobody THEN {} ELSE {calling}

LEMMA StartAt == ASSUME index \in 0..Npos PROVE Incremented(index) + 1 = Start
<1>1. Incremented(index) = IF index = Npos THEN 0 ELSE index + 1
  BY Wraps
<1> QED BY <1>1, Bounds DEF Start

LEMMA Mapping ==
    ASSUME index \in 0..Npos, index' \in 0..Npos
    PROVE  /\ Rounds!vars = <<StillPackaged, Left, Shown>>
           /\ (Rounds!vars)' = <<StillPackaged', Left', Shown'>>
           /\ (StillPackaged = {} /\ StillPackaged' \in SUBSET Tokens
                /\ Left' \in {{}, StillPackaged'} /\ Shown' = Shown) => Rounds!Next
           /\ (Left = {} /\ Left' = StillPackaged /\ StillPackaged' = StillPackaged
                /\ Shown' = Shown) => Rounds!Next
           /\ (Shown = {} /\ (\E t \in Left : /\ \A u \in Left : t <= u
                                              /\ Left' = Left \ {t} /\ Shown' \in {{t}, {}})
                /\ StillPackaged' = StillPackaged) => Rounds!Next
           /\ (Shown # {} /\ Shown' = {} /\ StillPackaged' = StillPackaged /\ Left' = Left)
                => Rounds!Next
           /\ (\E t \in Tokens : /\ StillPackaged' = StillPackaged \ {t} /\ Left' = Left \ {t}
                                 /\ Shown' \in {Shown, {}}) => Rounds!Next
           /\ (Left = {} /\ Shown = {} /\ StillPackaged' = {} /\ Left' = Left
                /\ Shown' = Shown) => Rounds!Next
<1> DEFINE L == IF phase \in {"before", "after", "error"}
                THEN {callbacks[i] : i \in Incremented(index) + 1 .. count} ELSE {}
           V == IF calling = Nobody THEN {} ELSE {calling}
<1>1. L = Left /\ V = Shown
  BY StartAt DEF Left, Shown, Loops
<1>2. L' = Left' /\ V' = Shown'
  <2>1. (Incremented(index) + 1)' = Start'
    <3>1. Incremented(index') = IF index' = Npos THEN 0 ELSE index' + 1
      BY Wraps
    <3> QED BY <3>1, Bounds DEF Start, Incremented
  <2> QED BY <2>1 DEF Left, Shown, Loops
<1>3. Rounds!vars = <<StillPackaged, L, V>>
  BY DEF Rounds!vars
<1>4. (Rounds!vars)' = <<StillPackaged', L', V'>>
  BY DEF Rounds!vars
<1>5. /\ (StillPackaged = {} /\ StillPackaged' \in SUBSET Tokens
                /\ L' \in {{}, StillPackaged'} /\ V' = V) => Rounds!Next
      /\ (L = {} /\ L' = StillPackaged /\ StillPackaged' = StillPackaged
                /\ V' = V) => Rounds!Next
      /\ (V = {} /\ (\E t \in L : /\ \A u \in L : t <= u
                                  /\ L' = L \ {t} /\ V' \in {{t}, {}})
                /\ StillPackaged' = StillPackaged) => Rounds!Next
      /\ (V # {} /\ V' = {} /\ StillPackaged' = StillPackaged /\ L' = L)
                => Rounds!Next
      /\ (\E t \in Tokens : /\ StillPackaged' = StillPackaged \ {t} /\ L' = L \ {t}
                            /\ V' \in {V, {}}) => Rounds!Next
      /\ (L = {} /\ V = {} /\ StillPackaged' = {} /\ L' = L
                /\ V' = V) => Rounds!Next
  BY Zenon DEF Rounds!Next, Rounds!Package, Rounds!StartRound, Rounds!Visit, Rounds!Return, Rounds!Withdraw,
         Rounds!EndDelivery
<1> HIDE DEF L, V
<1> QED BY <1>1, <1>2, <1>3, <1>4, <1>5, Zenon

LEMMA PackagedNow ==
    ASSUME IInv, DeliveryInv
    PROVE  /\ phase = "idle" => StillPackaged = {}
           /\ phase # "idle" => StillPackaged = {callbacks[i] : i \in 1..count}
           /\ phase # "idle" => 1..count \subseteq 1..Len(callbacks)
           /\ phase \in Loops /\ index = Npos => Left = StillPackaged
<1>1. /\ Registered = {callbacks[i] : i \in 1..Len(callbacks)} /\ Len(callbacks) \in Nat
      /\ count \in Nat /\ PackagedInv
  BY RegisteredAt, Bounds DEF IInv, LoopInv, DeliveryInv
<1>2. phase = "idle" => StillPackaged = {}
  BY <1>1 DEF PackagedInv, StillPackaged
<1>3. phase # "idle" => 1..count \subseteq 1..Len(callbacks)
  BY <1>1 DEF PackagedInv
<1>4. ASSUME phase # "idle" PROVE StillPackaged = {callbacks[i] : i \in 1..count}
  <2>1. \A i \in 1..Len(callbacks) : callbacks[i] \in packaged <=> i \in 1..count
    BY <1>1, <1>4 DEF PackagedInv
  <2> QED BY <1>1, <1>3, <1>4, <2>1 DEF StillPackaged
<1> QED BY <1>2, <1>3, <1>4 DEF Left, Start, Loops

LEMMA ErasingRounds ==
    ASSUME IInv, DeliveryInv, IInv', NEW t \in Registered, Erase(t),
           phase = "idle" \/ t \in packaged,
           UNCHANGED <<phase, packaged, next>>, calling' \in {calling, Nobody}
    PROVE  [Rounds!Next]_(Rounds!vars)
<1>0. /\ PackagedInv /\ Ordered(callbacks, next) /\ index \in 0..Npos /\ index' \in 0..Npos
  BY DEF DeliveryInv, IInv, LoopInv
<1>1. PICK p \in 1..Len(callbacks) : Erased(t, p)
  BY <1>0, Erasing
<1>2. StillPackaged' = StillPackaged \ {t} /\ t \in Tokens
  <2>1. Registered' = Registered \ {t}
    BY <1>0, Erasing
  <2>2. t \in Tokens
    BY <1>0, RegisteredAt
  <2> QED BY <2>1, <2>2 DEF StillPackaged
<1>3. Shown' \in {Shown, {}}
  BY DEF Shown
<1>4. Left' = Left \ {t}
  <2>1. CASE phase \notin Loops
    BY <2>1 DEF Left
  <2>2. CASE phase \in Loops
    <3>1. /\ index' = IF index # Npos /\ index >= p - 1
                      THEN (IF index = 0 THEN Npos ELSE index - 1) ELSE index
          /\ count' = IF count = 0 THEN Npos ELSE count - 1
          /\ index \in Nat /\ count \in Nat /\ Npos \in Nat /\ p \in Nat /\ p >= 1
          /\ index <= Npos /\ count <= Npos /\ p <= Len(callbacks)
          /\ Len(callbacks) \in Nat /\ Len(callbacks') = Len(callbacks) - 1
      BY <1>1, Numbers
    <3>2. callbacks[p] = t
      BY <1>1 DEF Erased
    <3>3. p <= count /\ count <= Len(callbacks)
      BY <1>0, <1>1, <2>2, <3>2 DEF PackagedInv, Loops
    <3>4. count' = count - 1
      BY <3>1, <3>3
    <3>5. Start \in Nat /\ Start >= 1 /\ Start' \in Nat /\ Start' >= 1
      BY <3>1 DEF Start
    <3>6. Start' = IF Start > p THEN Start - 1 ELSE Start
      BY <3>1 DEF Start
    <3>7. ASSUME NEW j \in Start'..count'
          PROVE  callbacks'[j] \in Left \ {t}
      <4>1. j \in 1..Len(callbacks')
        BY <3>1, <3>3, <3>4, <3>5
      <4>2. callbacks'[j] = callbacks[Before(j, p)] /\ callbacks'[j] # t
        BY <1>1, <4>1, Places
      <4>3. Before(j, p) \in Start..count
        BY <3>1, <3>3, <3>4, <3>5, <3>6 DEF Before
      <4> QED BY <2>2, <4>2, <4>3 DEF Left
    <3>8. ASSUME NEW i \in Start..count, callbacks[i] # t
          PROVE  \E j \in Start'..count' : callbacks'[j] = callbacks[i]
      <4>1. i # p /\ i \in Nat
        BY <3>2, <3>5, <3>8
      <4> DEFINE j == IF i < p THEN i ELSE i - 1
      <4>2. j \in Start'..count' /\ j \in 1..Len(callbacks') /\ Before(j, p) = i
        BY <3>1, <3>3, <3>4, <3>5, <3>6, <4>1 DEF Before
      <4>3. callbacks'[j] = callbacks[Before(j, p)]
        BY <1>1, <4>2, Places
      <4> HIDE DEF j
      <4> QED BY <4>2, <4>3
    <3>9. Left = {callbacks[i] : i \in Start..count}
      BY <2>2 DEF Left
    <3>10. Left' = {callbacks'[i] : i \in Start'..count'}
      BY <2>2 DEF Left, Loops
    <3> QED BY <3>7, <3>8, <3>9, <3>10
  <2> QED BY <2>1, <2>2
<1> QED BY <1>0, <1>2, <1>3, <1>4, Mapping

LEMMA VisitingRounds ==
    ASSUME IInv, DeliveryInv, IInv', Visit
    PROVE  [Rounds!Next]_(Rounds!vars)
<1>0. /\ Ordered(callbacks, next) /\ index \in 0..Npos /\ index' \in 0..Npos /\ count \in Nat
      /\ Npos \in Nat
  BY Bounds DEF DeliveryInv, IInv, LoopInv
<1>1. /\ index' = Incremented(index) /\ index' + 1 \in 1..Len(callbacks)
      /\ index' + 1 <= count /\ calling = Nobody
      /\ calling' \in {Nobody, callbacks[index' + 1]}
      /\ UNCHANGED <<callbacks, count, phase, packaged>> /\ phase \in Loops
  BY VisitingDelivery
<1> DEFINE k == index' + 1
           t == callbacks[k]
<1>2. k = Start /\ k \in Nat /\ k >= 1 /\ k <= count /\ Len(callbacks) \in Nat
  BY <1>0, <1>1, StartAt, RegisteredAt
<1>3. Start' = k + 1
  <2>1. index' # Npos
    <3>1. count <= Npos
      BY <1>0 DEF IInv, LoopInv
    <3> QED BY <1>0, <1>1, <3>1
  <2> QED BY <1>0, <2>1 DEF Start
<1>4. Left = {callbacks[i] : i \in k..count} /\ Left' = {callbacks[i] : i \in k + 1 .. count}
  BY <1>1, <1>2, <1>3 DEF Left, Loops
<1>5. count <= Len(callbacks)
  BY <1>1 DEF DeliveryInv, PackagedInv, Loops
<1>6. Shown = {} /\ Shown' \in {{t}, {}}
  BY <1>1 DEF Shown
<1>7. StillPackaged' = StillPackaged
  BY <1>1 DEF StillPackaged, Registered
<1>8. callbacks \in Seq(Nat) /\ \A i, j \in 1..Len(callbacks) : i < j => callbacks[i] < callbacks[j]
  BY <1>0 DEF Ordered
<1> HIDE DEF k
<1>9. \A i \in k..count : i \in 1..Len(callbacks) /\ (i = k \/ (i \in k + 1 .. count /\ k < i))
  BY <1>0, <1>2, <1>5
<1>10. \A i \in k + 1 .. count : i \in k..count /\ k < i
  BY <1>0, <1>2
<1>11. k \in k..count /\ k \in 1..Len(callbacks)
  BY <1>0, <1>2, <1>5
<1>12. \A i \in k + 1 .. count : t < callbacks[i] /\ callbacks[i] \in Nat /\ t \in Nat
  BY <1>8, <1>9, <1>10, <1>11
<1>13. t \in Left /\ \A u \in Left : t <= u
  <2>1. t <= t
    BY <1>8, <1>11
  <2>2. \A i \in k..count : t <= callbacks[i]
    BY <1>9, <1>12, <2>1
  <2> QED BY <1>4, <1>11, <2>2
<1>14. Left' = Left \ {t}
  <2>1. \A i \in k + 1 .. count : callbacks[i] # t
    BY <1>12
  <2> HIDE DEF t
  <2>2. \A i \in k..count : callbacks[i] = t \/ i \in k + 1 .. count
    BY <1>9 DEF t
  <2> QED BY <1>4, <1>10, <2>1, <2>2
<1> HIDE DEF t
<1> QED BY <1>0, <1>6, <1>7, <1>13, <1>14, Mapping

LEMMA RoundsStep ==
    ASSUME ~LateRemoval, IInv, DeliveryInv, IInv', [Next]_vars
    PROVE  [Rounds!Next]_(Rounds!vars)
<1> USE DEF flags, data, loop
<1>0. /\ PackagedInv /\ Ordered(callbacks, next) /\ LoopInv
      /\ index \in 0..Npos /\ index' \in 0..Npos /\ count \in Nat /\ Npos \in Nat
      /\ Registered \subseteq Tokens
  BY RegisteredAt, Bounds DEF DeliveryInv, IInv, LoopInv
<1>s. ASSUME UNCHANGED <<callbacks, index, count, phase, packaged, calling>>
      PROVE  [Rounds!Next]_(Rounds!vars)
  <2>1. StillPackaged' = StillPackaged /\ Left' = Left /\ Shown' = Shown
    BY <1>s DEF StillPackaged, Registered, Left, Start, Shown
  <2> QED BY <1>0, <2>1, Mapping
<1>1. CASE PackageForDelivery
  <2>1. /\ phase = "idle" /\ phase' = "packaged" /\ UNCHANGED <<callbacks, calling>>
        /\ packaged' = Registered
    BY <1>1 DEF PackageForDelivery
  <2>2. StillPackaged = {} /\ StillPackaged' = Registered
    BY <2>1, PackagedNow DEF StillPackaged, Registered
  <2>3. Left' = {} /\ Shown' = Shown
    BY <2>1 DEF Left, Loops, Shown
  <2> QED BY <1>0, <2>2, <2>3, Mapping
<1>2. CASE BeforeAdvance \/ AfterAdvance
  <2>1. /\ phase \in {"packaged", "advanced"} /\ phase' \in Loops
        /\ UNCHANGED <<callbacks, index, count, packaged, calling>>
    BY <1>2 DEF BeforeAdvance, AfterAdvance, Loops
  <2>2. index = Npos
    BY <1>0, <2>1 DEF LoopInv, Loops
  <2>3. StillPackaged' = StillPackaged /\ Shown' = Shown /\ Left = {}
    BY <2>1 DEF StillPackaged, Registered, Shown, Left, Loops
  <2>4. StillPackaged = {callbacks[i] : i \in 1..count}
    BY <2>1, PackagedNow
  <2>5. Left' = StillPackaged
    BY <2>1, <2>2, <2>4 DEF Left, Start, Loops
  <2> QED BY <1>0, <2>3, <2>5, Mapping
<1>3. CASE DeliverError
  <2>1. /\ phase = "idle" /\ phase' = "error" /\ UNCHANGED <<callbacks, index, calling>>
        /\ packaged' = Registered /\ count' = Len(callbacks)
    BY <1>3 DEF DeliverError
  <2>2. StillPackaged = {} /\ StillPackaged' = Registered /\ Shown' = Shown
    BY <2>1, PackagedNow DEF StillPackaged, Registered, Shown
  <2>3. index = Npos
    BY <1>0, <2>1 DEF LoopInv, Loops
  <2>4. Left' = {callbacks[i] : i \in 1..Len(callbacks)}
    BY <2>1, <2>3 DEF Left, Start, Loops
  <2>5. Left' = StillPackaged'
    BY <1>0, <2>2, <2>4, RegisteredAt
  <2> QED BY <1>0, <2>2, <2>5, Mapping
<1>4. CASE Visit
  BY <1>4, VisitingRounds
<1>5. CASE LoopEnds
  <2>1. /\ phase \in Loops /\ calling = Nobody /\ UNCHANGED <<callbacks, count, calling>>
        /\ phase' = (IF phase = "before" THEN "advanced" ELSE "idle")
        /\ packaged' = (IF phase = "before" THEN packaged ELSE {})
        /\ Incremented(index) >= count
    BY <1>5 DEF LoopEnds, Looping, Loops
  <2>2. Left = {} /\ Left' = {} /\ Shown = {} /\ Shown' = {}
    <3>1. Start > count /\ Start \in Nat
      <4>1. Incremented(index) + 1 = Start /\ Start \in Nat
        BY <1>0, StartAt DEF Start
      <4>2. Incremented(index) \in Nat
        BY <1>0, Wraps
      <4> QED BY <1>0, <2>1, <4>1, <4>2
    <3>2. Start..count = {}
      BY <1>0, <3>1
    <3> QED BY <2>1, <3>2 DEF Left, Shown, Loops
  <2>3. CASE phase = "before"
    <3>1. StillPackaged' = StillPackaged
      BY <2>1, <2>3 DEF StillPackaged, Registered
    <3> QED BY <1>0, <2>2, <3>1, Mapping
  <2>4. CASE phase # "before"
    <3>1. StillPackaged' = {}
      BY <2>1, <2>4 DEF StillPackaged
    <3> QED BY <1>0, <2>2, <3>1, Mapping
  <2> QED BY <2>3, <2>4
<1>6. CASE Return
  <2>1. calling # Nobody /\ calling' = Nobody /\ UNCHANGED <<phase, packaged, next>>
    BY <1>6 DEF Return
  <2>2. CASE phase = "error" /\ RemovedOnError(calling)
    <3>1. Erase(calling) /\ calling \in Registered
      BY <1>6, <2>2 DEF Return, RemovedOnError
    <3>2. calling \in packaged
      BY <1>0, <2>1 DEF PackagedInv
    <3> QED BY <2>1, <3>1, <3>2, ErasingRounds
  <2>3. CASE ~(phase = "error" /\ RemovedOnError(calling))
    <3>1. UNCHANGED <<callbacks, index, count>>
      BY <1>6, <2>3 DEF Return
    <3>2. /\ StillPackaged' = StillPackaged /\ Left' = Left /\ Shown # {} /\ Shown' = {}
      BY <2>1, <3>1 DEF StillPackaged, Registered, Left, Start, Shown
    <3> QED BY <1>0, <3>2, Mapping
  <2> QED BY <2>2, <2>3
<1>7. CASE AddCallback
  <2>1. /\ UNCHANGED <<index, count, phase, packaged, calling>>
    BY <1>7 DEF AddCallback, CountAfterAdd
  <2>2. /\ Registered' = Registered \cup {next} /\ next \in Nat
        /\ \A i \in 1..Len(callbacks) : callbacks'[i] = callbacks[i]
    BY <1>0, <1>7, Adding
  <2>3. StillPackaged' = StillPackaged
    <3>1. next \notin packaged
      BY <1>0, <2>2 DEF PackagedInv
    <3> QED BY <2>1, <2>2, <3>1 DEF StillPackaged
  <2>4. phase \in Loops => \A i \in Start..count : i \in 1..Len(callbacks)
    <3>1. Start \in Nat /\ Start >= 1
      BY <1>0 DEF Start
    <3>2. phase \in Loops => count <= Len(callbacks)
      BY <1>0 DEF PackagedInv, Loops
    <3>3. Len(callbacks) \in Nat
      BY <1>0, RegisteredAt
    <3> QED BY <1>0, <3>1, <3>2, <3>3
  <2>5. Start' = Start
    BY <2>1 DEF Start
  <2>6. Left' = Left /\ Shown' = Shown
    BY <2>1, <2>2, <2>4, <2>5 DEF Left, Loops, Shown
  <2> QED BY <1>0, <2>3, <2>6, Mapping
<1>8. ASSUME NEW t \in Tokens, RemoveCallback(t) PROVE [Rounds!Next]_(Rounds!vars)
  <2>1. t \in Registered /\ Erase(t) /\ (phase = "idle" \/ t \in packaged)
        /\ UNCHANGED <<phase, packaged, next, calling>>
    BY <1>8 DEF RemoveCallback
  <2> QED BY <2>1, ErasingRounds
<1>9. ASSUME NEW t \in Tokens, SuppressNext(t) PROVE [Rounds!Next]_(Rounds!vars)
  BY <1>9, <1>s DEF SuppressNext
<1>10. ASSUME NEW new, AddChanges(new) PROVE [Rounds!Next]_(Rounds!vars)
  BY <1>10, <1>s DEF AddChanges
<1>11. CASE UNCHANGED vars
  BY <1>11, <1>s DEF vars
<1> QED BY <1>1, <1>2, <1>3, <1>4, <1>5, <1>6, <1>7, <1>8, <1>9, <1>10, <1>11 DEF Next

\* In every round of a delivery the packaged callbacks that are still registered are
\* visited once each and in order, whatever the callbacks add and remove: the
\* wrapping index and count implement CallbackRounds.
THEOREM RoundsImplemented ==
    ASSUME ~LateRemoval
    PROVE  Spec => ImplementsRounds
<1>1. Init => Rounds!Init
  <2> SUFFICES ASSUME Init PROVE Rounds!Init
    OBVIOUS
  <2>1. packaged = {} /\ phase = "idle" /\ calling = Nobody
    BY DEF Init
  <2> QED BY <2>1 DEF Rounds!Init, StillPackaged
<1>2. IInv /\ DeliveryInv /\ IInv' /\ [Next]_vars => [Rounds!Next]_(Rounds!vars)
  BY RoundsStep
<1> QED BY <1>1, <1>2, Invariance, DeliveryInvariance, PTL DEF Spec, ImplementsRounds, Rounds!Spec

=============================================================================
