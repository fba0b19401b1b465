----------------------------- MODULE ResultsDiff -----------------------------
(***************************************************************************)
(* CollectionChangeBuilder::calculate: the changes that turn the rows of a   *)
(* query's last results into those of its new ones.  Rows are row indexes of *)
(* the new version, Npos for one that was deleted.  A row is taken to occur   *)
(* once, as it does in the results of a query on a table.                    *)
(***************************************************************************)
EXTENDS ChangeBuilder

Position(s, x) == SelectInSeq(s, LAMBDA y : y = x) - 1

(* The rows that are in both, by their new position: RowInfo, without those that
   are new. *)
Common(prev, next) ==
    LET deleted(i) == Cardinality({k \in 1 .. i : prev[k] = Npos})
        info(j) == LET i == Position(prev, next[j])
                   IN  [row |-> next[j], prevTv |-> i, tv |-> j - 1, shifted |-> i - deleted(i)]
        both == SelectSeq([j \in DOMAIN next |-> j], LAMBDA j : next[j] \in ToSet(prev))
    IN  [n \in DOMAIN both |-> info(both[n])]

-----------------------------------------------------------------------------
(* calculate_moves_unsorted *)

(* Where a row would have been, given what was inserted and removed before it. *)
ExpectedAt(c, row) ==
    row.tv - Count(c.insertions, 0, row.tv) + Count(c.removed, 0, row.prevTv)

MoveOf(row) == [from |-> row.prevTv, to |-> row.tv]

MovesUnsorted(c, common, candidates) ==
    FoldLeft(LAMBDA acc, row :
        IF row.shifted = acc.expected THEN [acc EXCEPT !.expected = @ + 1]
        ELSE IF row.row \notin candidates \/ row.shifted = ExpectedAt(acc, row)
             THEN [acc EXCEPT !.expected = row.shifted + 1]
        ELSE [acc EXCEPT !.moves = Append(@, MoveOf(row)),
                         !.insertions = @ \cup {row.tv},
                         !.removed = @ \cup {row.prevTv}],
        c, common)

-----------------------------------------------------------------------------
(* LongestCommonSubsequenceCalculator *)

(* How many of the n rows up to index j are marked; an index below 0 wraps around and
   none is found. *)
Marked(marks, j, n) == IF j + 1 < n THEN 0 ELSE Count(marks, j + 1 - n, j + 1)

(* find_longest_match: at[i + 1] is the index in b of the row at i in a.  Scan[i] is the
   best match among the rows before i, and the length of the one that ends there.
   Of matches of the same length the first is taken unless a later one has fewer
   marks. *)
LongestMatch(at, marks, begin1, end1, begin2, end2) ==
    LET none == [i |-> begin1, j |-> begin2, size |-> 0, modified |-> 0]
        Better(best, i, j, size) ==
            LET old == IF best.modified = Npos THEN Marked(marks, best.j, size) ELSE best.modified
                new == Marked(marks, j, size)
                match(m) == [i |-> i - size + 1, j |-> j - size + 1, size |-> size, modified |-> m]
            IN  CASE size > best.size -> match(Npos)
                  [] size = best.size /\ new < old -> match(new)
                  [] size = best.size /\ new >= old -> [best EXCEPT !.modified = old]
                  [] OTHER -> best
        Scan[i \in begin1 .. end1] ==
            IF i = begin1 THEN [length |-> 0, best |-> none]
            ELSE LET last == Scan[i - 1]
                     j == at[i]
                     size == IF last.length > 0 /\ at[i - 1] + 1 = j THEN last.length + 1 ELSE 1
                 IN  IF j \in begin2 .. end2 - 1
                     THEN [length |-> size, best |-> Better(last.best, i - 1, j, size)]
                     ELSE [length |-> 0, best |-> last.best]
    IN  Scan[end1].best

(* Whether there are rows behind a match; the code compares with end2 twice. *)
MayFollow(m, end1, end2) == m.i + m.size < end2 /\ m.j + m.size < end2

(* find_longest_matches, in order *)
LongestMatches(at, marks, first, n) ==
    LET Find[begin1, end1, begin2, end2 \in first .. n] ==
            LET m == LongestMatch(at, marks, begin1, end1, begin2, end2)
            IN  IF m.size = 0 THEN <<>>
                ELSE (IF m.i > begin1 /\ m.j > begin2 THEN Find[begin1, m.i, begin2, m.j] ELSE <<>>)
                     \o <<m>> \o
                     (IF MayFollow(m, end1, end2)
                      THEN Find[m.i + m.size, end1, m.j + m.size, end2] ELSE <<>>)
    IN  Find[first, n, first, n]

\* Mutant: the row behind a match is taken to be matched.
Matched_Behind(matches) == UNION {m.i .. m.i + m.size : m \in ToSet(matches)}

(* The rows of a that are matched. *)
Matched(matches) == UNION {m.i .. m.i + m.size - 1 : m \in ToSet(matches)}

(* calculate_moves_sorted: what is not matched is deleted and inserted. *)
MovesSorted(c, common) ==
    LET n == Len(common)
        a == SortSeq(common, LAMBDA x, y : x.prevTv < y.prevTv)
        at == FoldLeft(LAMBDA s, r : Append(s, SelectInSeq(common, LAMBDA x : x.row = r.row) - 1),
                       <<>>, a)
        differ == {i \in 0 .. n - 1 : at[i + 1] # i}
        matches == LongestMatches(at, c.modifications, Min(differ), n)
        gone == (Min(differ) .. n - 1) \ Matched(matches)
    IN  IF differ = {} THEN c
        ELSE [c EXCEPT !.removed = @ \cup {a[i + 1].prevTv : i \in gone},
                       !.insertions = @ \cup {common[at[i + 1] + 1].tv : i \in gone}]

-----------------------------------------------------------------------------
(* calculate; candidates are looked at in table order only. *)
Calculate(prev, next, changed, inTableOrder, candidates) ==
    LET common == Common(prev, next)
        gone == {i \in 0 .. Len(prev) - 1 : prev[i + 1] = Npos}
        c == [deletions |-> gone, insertions |-> {j \in 0 .. Len(next) - 1 :
                                                    next[j + 1] \notin ToSet(prev)},
              modifications |-> {r.tv : r \in {x \in ToSet(common) : x.row \in changed}},
              moves |-> <<>>, expected |-> 0,
              removed |-> {i \in 0 .. Len(prev) - 1 : prev[i + 1] # Npos
                                                      /\ prev[i + 1] \notin ToSet(next)}]
        d == IF inTableOrder THEN MovesUnsorted(c, common, candidates) ELSE MovesSorted(c, common)
    IN  [NoChanges EXCEPT !.deletions = d.deletions \cup d.removed, !.insertions = d.insertions,
                          !.modifications = d.modifications, !.moves = d.moves]
=============================================================================
