---------------------------- MODULE ChunkedRanges ----------------------------
(***************************************************************************)
(* IndexSet as it is stored: the indexes as ranges [first, second), the      *)
(* ranges in chunks of at most MaxSize, and with each chunk where it begins  *)
(* and ends and how many indexes it has.  ChangeBuilder has the same         *)
(* operations on the set of the indexes; `ideal` is that set.                *)
(*                                                                          *)
(* An iterator is the position <<chunk, range>>; the end is the first range  *)
(* of the chunk behind the last.                                             *)
(***************************************************************************)
EXTENDS Integers, Sequences, SequencesExt, FiniteSets, FiniteSetsExt

CONSTANTS Npos,     \* the largest size_t
          MaxSize,  \* the ranges of a chunk: 4 in debug builds, else 256
          MaxIndex, \* bound: indexes are below it
          MaxSet,   \* bound: the indexes of a set that is an argument
          MaxBy     \* bound: the indexes a merge unshifts by
ASSUME ChunkAssumption == MaxSize \in Nat \ {0} /\ MaxSize % 2 = 0

Sets == INSTANCE ChangeBuilder

VARIABLES v,       \* m_data
          ideal,   \* the indexes there should be
          exceeded \* a merge has needed more chunks than were allocated for it
vars == <<v, ideal, exceeded>>

Index == 0 .. MaxIndex - 1
SetsOfAtMost(n) == {S \in SUBSET Index : Cardinality(S) <= n}

-----------------------------------------------------------------------------
(* Positions *)

At(w, p) == w[p[1]].data[p[2]]
Begin == <<1, 1>>
End(w) == <<Len(w) + 1, 1>>
NextPos(w, p) == IF p[2] < Len(w[p[1]].data) THEN <<p[1], p[2] + 1>> ELSE <<p[1] + 1, 1>>
PrevPos(w, p) == IF p[2] > 1 THEN <<p[1], p[2] - 1>> ELSE <<p[1] - 1, Len(w[p[1] - 1].data)>>
Size(r) == r[2] - r[1]
SizeOf(data) == FoldLeft(LAMBDA n, r : n + Size(r), 0, data)
Chunk(data) == [data |-> data, begin |-> data[1][1], end |-> Last(data)[2], count |-> SizeOf(data)]

Ranges(w) == FlattenSeq([c \in DOMAIN w |-> w[c].data])
Indexes(w) == UNION {r[1] .. r[2] - 1 : r \in ToSet(Ranges(w))}
Positions(w) ==
    FlattenSeq([c \in DOMAIN w |-> [k \in DOMAIN w[c].data |-> <<c, k>>]]) \o <<End(w)>>
Ascending(S) == SelectSeq([k \in 1 .. MaxIndex |-> k - 1], LAMBDA i : i \in S)

(* The ranges of a set that is an argument *)
RangesOf(S) ==
    LET firsts == Ascending({i \in S : i - 1 \notin S})
    IN  [k \in DOMAIN firsts |->
            <<firsts[k], Min({j \in firsts[k] + 1 .. MaxIndex : j \notin S})>>]

(* MutableChunkedRangeVectorIterator::set, and with it adjust *)
SetRange(w, p, first, second) ==
    LET c == w[p[1]]
    IN  [w EXCEPT ![p[1]] = [data |-> [c.data EXCEPT ![p[2]] = <<first, second>>],
            begin |-> IF p[2] = 1 THEN first ELSE c.begin,
            end |-> IF p[2] = Len(c.data) THEN second ELSE c.end,
            count |-> c.count - Size(c.data[p[2]]) + second - first]]

Adjust(w, p, front, back) == SetRange(w, p, At(w, p)[1] + front, At(w, p)[2] + back)

(* shift of the range at p and of all behind it *)
ShiftRanges(data, n) == <<>> \o [k \in DOMAIN data |-> <<data[k][1] + n, data[k][2] + n>>]
ShiftFrom(w, p, n) ==
    LET c == w[p[1]]
        rest == SubSeq(w, p[1] + 1, Len(w))
    IN  IF p = End(w) THEN w
        ELSE SubSeq(w, 1, p[1] - 1)
             \o <<[c EXCEPT !.data = SubSeq(@, 1, p[2] - 1) \o ShiftRanges(SubSeq(@, p[2], Len(@)), n),
                            !.begin = IF p[2] = 1 THEN @ + n ELSE @,
                            !.end = @ + n]>>
             \o [k \in DOMAIN rest |->
                    [rest[k] EXCEPT !.data = ShiftRanges(@, n), !.begin = @ + n, !.end = @ + n]]

-----------------------------------------------------------------------------
(* ChunkedRangeVector; the operations give the ranges and a position in them *)

PushBack(w, r) ==
    IF w # <<>> /\ Len(Last(w).data) < MaxSize
    THEN [w EXCEPT ![Len(w)] = [data |-> Append(@.data, r), begin |-> @.begin, end |-> r[2],
                                count |-> @.count + Size(r)]]
    ELSE Append(w, Chunk(<<r>>))

\* Mutant: the position in the second half is counted from the first.
HalfOf_Unmoved(p) == IF p[2] > MaxSize \div 2 THEN <<p[1] + 1, p[2]>> ELSE p

(* Where position p of a full chunk is once its second half is a chunk of its own. *)
HalfOf(p) == IF p[2] > MaxSize \div 2 THEN <<p[1] + 1, p[2] - MaxSize \div 2>> ELSE p

(* How many of a chunk's indexes go with the ranges behind `from`. *)
Moved(w, c, from) == SizeOf(SubSeq(w[c].data, from + 1, Len(w[c].data)))

(* ensure_space *)
EnsureSpace(w, p) ==
    LET data == w[p[1]].data
        half == Len(data) - MaxSize \div 2
        moved == Moved(w, p[1], half)
    IN  IF Len(data) < MaxSize THEN [v |-> w, p |-> p]
        ELSE [v |-> SubSeq(w, 1, p[1] - 1)
                    \o <<[Chunk(SubSeq(data, 1, half)) EXCEPT !.count = w[p[1]].count - moved],
                        Chunk(SubSeq(data, half + 1, Len(data)))>>
                    \o SubSeq(w, p[1] + 1, Len(w)),
              p |-> HalfOf(p)]

InsertRange(w, p, r) ==
    IF p = End(w) THEN LET u == PushBack(w, r) IN [v |-> u, p |-> PrevPos(u, End(u))]
    ELSE LET s == EnsureSpace(w, p)
             c == s.v[s.p[1]]
         IN  [v |-> [s.v EXCEPT ![s.p[1]] =
                        [data |-> InsertAt(c.data, s.p[2], r), begin |-> Min({c.begin, r[1]}),
                         end |-> Max({c.end, r[2]}), count |-> c.count + Size(r)]],
              p |-> s.p]

(* erase: the position is that of the next range. *)
EraseRange(w, p) ==
    LET data == RemoveAt(w[p[1]].data, p[2])
        c == w[p[1]]
    IN  IF data = <<>> THEN [v |-> RemoveAt(w, p[1]), p |-> <<p[1], 1>>]
        ELSE [v |-> [w EXCEPT ![p[1]] = [Chunk(data) EXCEPT !.count = c.count - Size(c.data[p[2]])]],
              p |-> IF p[2] <= Len(data) THEN p ELSE <<p[1] + 1, 1>>]

-----------------------------------------------------------------------------
(* IndexSet *)

(* find: the range that contains the index, or the first one behind it, from the
   position `from` on *)
FindFrom(w, i, from) ==
    LET chunks == {c \in from[1] .. Len(w) : w[c].end > i}
        c == Min(chunks)
        first == IF c = from[1] THEN from[2] ELSE 1
    IN  IF chunks = {} THEN End(w)
        ELSE IF i < w[c].begin THEN <<c, 1>>
        ELSE <<c, Min({k \in first .. Len(w[c].data) : w[c].data[k][2] > i})>>
Find(w, i) == FindFrom(w, i, Begin)

ContainsIndex(w, i) == LET p == Find(w, i) IN p # End(w) /\ At(w, p)[1] <= i

(* The range before p now ends where the one at p begins. *)
Joins(w, p, before) == p # End(w) /\ At(w, before)[2] = At(w, p)[1]

(* do_add: index i before position p *)
DoAdd(w, p, i) ==
    LET before == PrevPos(w, p)
        u == Adjust(w, before, 0, 1)
        r == At(w, p)
        e == EraseRange(Adjust(u, before, 0, Size(r)), p)
    IN  IF p # End(w) /\ r[1] <= i /\ i < r[2] THEN [v |-> w, p |-> p]
        ELSE IF p # Begin /\ At(w, before)[2] = i
        THEN IF Joins(u, p, before) THEN [v |-> e.v, p |-> PrevPos(e.v, e.p)]
             ELSE [v |-> u, p |-> before]
        ELSE IF p # End(w) /\ r[1] = i + 1 THEN [v |-> Adjust(w, p, -1, 0), p |-> p]
        ELSE InsertRange(w, p, <<i, i + 1>>)

Add(w, i) == DoAdd(w, Find(w, i), i).v
AddAll(w, S) ==
    FoldLeft(LAMBDA s, i : DoAdd(s.v, FindFrom(s.v, i, s.p), i), [v |-> w, p |-> Begin], Ascending(S)).v

(* add_shifted: chunks that end at or before the index are skipped as a whole, then
   the ranges that begin at or before it; x is the index as it shifts. *)
AddShifted(w, i) ==
    LET x[c \in 0 .. Len(w)] == IF c = 0 THEN i ELSE x[c - 1] + w[c].count
        c == Min({d \in 0 .. Len(w) : d = Len(w) \/ w[d + 1].end > x[d]})
        rest == Ranges(SubSeq(w, c + 1, Len(w)))
        y[k \in 0 .. Len(rest)] == IF k = 0 THEN x[c] ELSE y[k - 1] + Size(rest[k])
        k == Min({d \in 0 .. Len(rest) : d = Len(rest) \/ rest[d + 1][1] > y[d]})
        passed == Len(Ranges(SubSeq(w, 1, c))) + k
    IN  DoAdd(w, Positions(w)[passed + 1], y[k]).v

(* insert_at(index, count) *)
InsertAtIndex(w, i, n) ==
    LET p == Find(w, i)
        add(s, k) == LET t == DoAdd(s.v, s.p, i + k) IN [v |-> t.v, p |-> NextPos(t.v, t.p)]
    IN  IF p # End(w) /\ At(w, p)[1] <= i THEN ShiftFrom(Adjust(w, p, 0, n), NextPos(w, p), n)
        ELSE FoldLeft(add, [v |-> ShiftFrom(w, p, n), p |-> p], [k \in 1 .. n |-> k - 1]).v

(* shift_for_insert_at(index, count) *)
ShiftForInsertAtIndex(w, i, n) ==
    LET p == Find(w, i)
        u == ShiftFrom(w, p, n)
        r == At(u, p)
    IN  IF p = End(w) THEN w
        ELSE IF r[1] < i + n
        THEN InsertRange(SetRange(u, p, r[1] - n, i), NextPos(u, p), <<i + n, r[2]>>).v
        ELSE u

(* do_erase *)
DoErase(w, p, i) ==
    LET r == At(w, p)
        before == PrevPos(w, p)
        s == IF r[1] <= i
             THEN IF r[1] + 1 = r[2] THEN EraseRange(w, p)
                  ELSE [v |-> Adjust(w, p, 0, -1), p |-> NextPos(w, p)]
             ELSE IF p # Begin /\ At(w, before)[2] + 1 = r[1]
             THEN EraseRange(Adjust(w, before, 0, Size(r)), p)
             ELSE [v |-> w, p |-> p]
    IN  ShiftFrom(s.v, s.p, -1)

EraseAtIndex(w, i) == LET p == Find(w, i) IN IF p = End(w) THEN w ELSE DoErase(w, p, i)

(* erase_or_unshift: what it returns, and the ranges *)
EraseOrUnshift(w, i) ==
    LET p == Find(w, i)
        skipped == FoldLeft(LAMBDA n, c : n + c.count, 0, SubSeq(w, 1, p[1] - 1))
                   + IF p = End(w) THEN 0 ELSE SizeOf(SubSeq(w[p[1]].data, 1, p[2] - 1))
    IN  IF p = End(w) THEN [v |-> w, index |-> i - skipped]
        ELSE [v |-> DoErase(w, p, i), index |-> IF At(w, p)[1] <= i THEN Npos ELSE i - skipped]

(* One round of do_remove, for the indexes from s.from up to `to` *)
RemoveRound(s, to) ==
    LET p == FindFrom(s.v, s.from, s.p)
        r == At(s.v, p)
        from == Max({r[1], s.from})
        split == InsertRange(SetRange(s.v, p, r[1], from), NextPos(s.v, p), <<to, r[2]>>)
        e == EraseRange(s.v, p)
    IN  IF p = End(s.v) \/ r[1] >= to THEN [s EXCEPT !.p = p]
        ELSE IF r[1] < from /\ r[2] > to
        THEN [v |-> split.v, p |-> PrevPos(split.v, split.p), from |-> from]
        ELSE IF from = r[1] /\ to >= r[2] THEN [v |-> e.v, p |-> e.p, from |-> from]
        ELSE IF from = r[1] THEN [v |-> SetRange(s.v, p, to, r[2]), p |-> p, from |-> from]
        ELSE [v |-> SetRange(s.v, p, r[1], from), p |-> p, from |-> from]

(* do_remove: a round more than there are ranges is enough. *)
DoRemove(w, p, from, to) ==
    FoldLeft(LAMBDA s, k : RemoveRound(s, to), [v |-> w, p |-> p, from |-> from], <<0>> \o Ranges(w))

RemoveRange(w, i, n) == DoRemove(w, Find(w, i), i, i + n).v
RemoveSet(w, S) ==
    FoldLeft(LAMBDA s, r : DoRemove(s.v, s.p, r[1], r[2]),
             [v |-> w, p |-> Begin, from |-> 0], RangesOf(S)).v

SetTo(len) == IF len = 0 THEN <<>> ELSE <<Chunk(<<<<0, len>>>>)>>

-----------------------------------------------------------------------------
(* count *)

\* Mutant: the part of the last range before the end is left out.
CountFromChunk_NoPart(w, c, to) ==
    LET whole == SelectSeq(SubSeq(w, c, Len(w)), LAMBDA x : x.end <= to)
        d == c + Len(whole)
    IN  FoldLeft(LAMBDA n, x : n + x.count, 0, whole)
        + IF d > Len(w) THEN 0 ELSE SizeOf(SelectSeq(w[d].data, LAMBDA r : r[2] <= to))

(* From the beginning of chunk c: complete chunks, complete ranges, part of one *)
CountFromChunk(w, c, to) ==
    LET whole == SelectSeq(SubSeq(w, c, Len(w)), LAMBDA x : x.end <= to)
        d == c + Len(whole)
        ranges == SelectSeq(w[d].data, LAMBDA r : r[2] <= to)
        last == w[d].data[Len(ranges) + 1]
    IN  FoldLeft(LAMBDA n, x : n + x.count, 0, whole)
        + IF d > Len(w) THEN 0
          ELSE SizeOf(ranges) + IF last[1] < to THEN to - last[1] ELSE 0

Count(w, from, to) ==
    LET p == Find(w, from)
        r == At(w, p)
        data == w[p[1]].data
        inside == SelectSeq(SubSeq(data, p[2] + 1, Len(data)), LAMBDA x : x[2] < to)
        k == p[2] + Len(inside)       \* the last range of the chunk that is counted
        ret == r[2] - Max({r[1], from}) + SizeOf(inside)
        q == NextPos(w, <<p[1], k>>)
    IN  IF p = End(w) \/ r[1] >= to THEN 0
        ELSE IF r[2] >= to THEN to - Max({r[1], from})
        ELSE IF from <= r[1] /\ p[2] = 1 THEN CountFromChunk(w, p[1], to)
        ELSE IF q[2] # 1 THEN ret + IF At(w, q)[1] < to THEN to - At(w, q)[1] ELSE 0
        ELSE IF q = End(w) \/ At(w, q)[2] >= to THEN ret
        ELSE ret + CountFromChunk(w, q[1], to)

-----------------------------------------------------------------------------
(* ChunkedRangeVectorBuilder, and what uses it *)

(* push_back: `room` chunks are allocated from the start. *)
Pushed(room, w, r) ==
    LET c == Last(w)
    IN  IF w = <<>> THEN <<Chunk(<<r>>)>>
        ELSE IF r[1] = c.end THEN Adjust(w, PrevPos(w, End(w)), 0, Size(r))
        ELSE IF Len(c.data) < MaxSize THEN PushBack(w, r)
        ELSE Append(w, [Chunk(<<r>>) EXCEPT !.count = IF Len(w) < room THEN @ ELSE 1])

Room(w) == Len(Ranges(w)) \div MaxSize + 1
Built(w, ranges) == FoldLeft(LAMBDA u, r : Pushed(Room(w), u, r), <<>>, ranges)

Singles(indexes) == [k \in DOMAIN indexes |-> <<indexes[k], indexes[k] + 1>>]

(* The loop of insert_at(positions), which keeps the positions, and of
   shift_for_insert_at(values), which does not. *)
Shifted(a, b, keep) ==
    LET Go[i \in 1 .. Len(a) + 1, j \in 1 .. Len(b) + 1] ==
            IF i > Len(a) THEN IF keep THEN SubSeq(b, j, Len(b)) ELSE <<>>
            ELSE IF j > Len(b) \/ a[i] + j - 1 < b[j] THEN <<a[i] + j - 1>> \o Go[i + 1, j]
            ELSE (IF keep THEN <<b[j]>> ELSE <<>>) \o Go[i, j + 1]
    IN  Go[1, 1]

InsertAtAll(w, S) ==
    IF S = {} THEN w
    ELSE IF w = <<>> THEN AddAll(<<>>, S)
    ELSE Built(w, Singles(Shifted(Ascending(Indexes(w)), Ascending(S), TRUE)))

ShiftForInsertAtAll(w, S) ==
    IF w = <<>> \/ S = {} THEN w
    ELSE IF Min(S) >= Last(w).end THEN w
    ELSE Built(w, Singles(Shifted(Ascending(Indexes(w)), Ascending(S), FALSE)))

(* erase_at(positions) *)
EraseAtAll(w, S) ==
    LET a == Ascending(Indexes(w))
        b == Ascending(S)
        Go[i \in 1 .. Len(a) + 1, j \in 1 .. Len(b) + 1] ==
            IF i > Len(a) THEN <<>>
            ELSE IF j > Len(b) \/ a[i] < b[j] THEN <<a[i] - (j - 1)>> \o Go[i + 1, j]
            ELSE IF a[i] = b[j] THEN Go[i + 1, j + 1]
            ELSE Go[i, j + 1]
    IN  IF w = <<>> \/ S = {} THEN w ELSE Built(w, Singles(Go[1, 1]))

(* The index is in the last of the ranges of shifted_by that begin before it. *)
Skipped(i, passed) == passed # <<>> /\ i < Last(passed)[2]

(* add_shifted_by: ranges before a value are pushed index by index, the ranges behind
   the last value as they are. *)
AddShiftedBy(w, by, values) ==
    LET old == Ranges(w)
        merge(s, i) ==
            LET passed == SelectSeq(RangesOf(by), LAMBDA r : r[1] <= i)
                unshifted == i - SizeOf(passed)
                x[n \in 0 .. Len(old)] == unshifted + SizeOf(SubSeq(old, 1, n))
                n == Min({d \in s.n .. Len(old) : d = Len(old) \/ old[d + 1][1] > x[d]})
                copied == FlattenSeq([k \in 1 .. n - s.n |->
                              [d \in 1 .. Size(old[s.n + k]) |-> old[s.n + k][1] + d - 1]])
            IN  IF Skipped(i, passed) THEN s
                ELSE [n |-> n, out |-> s.out \o Singles(copied \o <<x[n]>>)]
        end == FoldLeft(merge, [n |-> 0, out |-> <<>>], Ascending(values))
    IN  IF values = {} THEN w
        ELSE Built(w, end.out \o SubSeq(old, end.n + 1, Len(old)))

-----------------------------------------------------------------------------
Init == v = <<>> /\ ideal = {} /\ exceeded = FALSE

(* A call that makes the ranges u, where the indexes should be S.  Nothing is asked
   of calls on the result of a merge that exceeded its chunks. *)
Becomes(u, S) ==
    /\ ~exceeded
    /\ S \subseteq Index
    /\ v' = u
    /\ ideal' = S

(* add_shifted_by, the merge of two sets of deletions *)
Merge ==
    \E by \in SetsOfAtMost(MaxBy), values \in SetsOfAtMost(MaxSet) :
        LET u == AddShiftedBy(v, by, values)
        IN  /\ Becomes(u, Sets!AddShiftedBy(ideal, by, values))
            /\ exceeded' = (Len(u) > Room(v))

Call ==
    \/ \E i \in Index :
        \/ Becomes(Add(v, i), ideal \cup {i})
        \/ Becomes(AddShifted(v, i), Sets!AddShifted(ideal, i))
        \/ Becomes(EraseAtIndex(v, i), Sets!EraseAt(ideal, i))
        \/ Becomes(EraseOrUnshift(v, i).v, Sets!EraseAt(ideal, i))
        \/ Becomes(SetTo(i), 0 .. i - 1)
        \/ \E n \in 1 .. MaxIndex - i :
            \/ Becomes(InsertAtIndex(v, i, n), Sets!InsertRange(ideal, i, n))
            \/ Becomes(ShiftForInsertAtIndex(v, i, n), Sets!ShiftForInsertAt(ideal, i, n))
            \/ Becomes(RemoveRange(v, i, n), ideal \ (i .. i + n - 1))
    \/ \E S \in SetsOfAtMost(MaxSet) :
        \/ Becomes(AddAll(v, S), ideal \cup S)
        \/ Becomes(InsertAtAll(v, S), Sets!InsertAll(ideal, S))
        \/ Becomes(ShiftForInsertAtAll(v, S), Sets!ShiftForInsert(ideal, S))
        \/ Becomes(EraseAtAll(v, S), Sets!EraseAll(ideal, S))
        \/ Becomes(RemoveSet(v, S), ideal \ S)

Next == Merge \/ (Call /\ UNCHANGED exceeded)

Spec == Init /\ [][Next]_vars

-----------------------------------------------------------------------------
(* What verify() asserts in debug builds: ranges are not empty and neither touch nor
   overlap, chunks are not empty, and a chunk's begin, end and count, by which
   add_shifted, count and find skip it, are those of its ranges.  A merge that needs
   more chunks than the builder allocated counts a range of any length as one. *)
WellFormed == exceeded \/
    /\ \A k \in DOMAIN Ranges(v) :
        /\ Ranges(v)[k][1] < Ranges(v)[k][2]
        /\ k > 1 => Ranges(v)[k - 1][2] < Ranges(v)[k][1]
    /\ \A c \in DOMAIN v :
        /\ v[c].data # <<>> /\ Len(v[c].data) <= MaxSize
        /\ v[c] = Chunk(v[c].data)

(* Whatever splits, joins and rebuilds of chunks a sequence of calls causes, the
   indexes of the ranges are those that the calls describe. *)
SameIndexes == Indexes(v) = ideal

RepresentsSet == WellFormed /\ SameIndexes

(* contains, unshift (by count from 0) and erase_or_unshift, which skip whole chunks,
   answer what the set of the indexes answers. *)
AnswersAreRight ==
    ~exceeded => \A i \in Index :
        /\ ContainsIndex(v, i) <=> i \in ideal
        /\ Count(v, 0, i) = Sets!Count(ideal, 0, i)
        /\ EraseOrUnshift(v, i).index = IF i \in ideal THEN Npos ELSE Sets!Unshift(ideal, i)

(* Refuted, of count(start, end): "Counts the number of indices in the set in the given range",
   wherever the range begins. *)
CountsAreRight ==
    \A i, j \in Index : i <= j => Count(v, i, j) = Sets!Count(ideal, i, j)
=============================================================================
