---------------------------- MODULE ChangeBuilder ----------------------------
(***************************************************************************)
(* IndexSet, as the set of its indexes, and CollectionChangeBuilder, which  *)
(* turns instructions of the transaction log into the deletions, insertions, *)
(* modifications and moves a notification reports.  Indexes start at 0.     *)
(* The per-column sets go through the same calls as the modifications and   *)
(* are left out.  How IndexSet stores a set is the subject of ChunkedRanges. *)
(***************************************************************************)
EXTENDS Naturals, Sequences, SequencesExt, FiniteSets, FiniteSetsExt

CONSTANT Npos  \* the largest size_t
ASSUME NposAssumption == Npos \in Nat

-----------------------------------------------------------------------------
(* IndexSet *)

Count(S, from, to) == Cardinality({i \in S : from <= i /\ i < to})
Unshift(S, i) == i - Count(S, 0, i)

\* Mutant: a range that begins at the index does not shift it.
Shift_Strict(S, i) == i + Cardinality({k \in S : Unshift(S, k) < i})

(* The place of index i once the indexes S have been put in. *)
Shift(S, i) == i + Cardinality({k \in S : Unshift(S, k) <= i})

ShiftForInsertAt(S, at, n) == {IF i >= at THEN i + n ELSE i : i \in S}
ShiftForInsert(S, positions) == {Shift(positions, i) : i \in S}
InsertRange(S, at, n) == ShiftForInsertAt(S, at, n) \cup at .. at + n - 1
InsertAll(S, positions) == ShiftForInsert(S, positions) \cup positions

(* Where index i is once the index `at` is gone. *)
AfterErase(i, at) == IF i > at THEN i - 1 ELSE i

EraseAt(S, at) == {AfterErase(i, at) : i \in S \ {at}}
EraseAll(S, positions) == {Unshift(positions, i) : i \in S \ positions}
AddShifted(S, i) == S \cup {Shift(S, i)}
AddShiftedBy(S, by, values) == S \cup {Shift(S, Unshift(by, v)) : v \in values \ by}

-----------------------------------------------------------------------------
(* CollectionChangeBuilder *)

NoChanges == [deletions |-> {}, insertions |-> {}, modifications |-> {}, moves |-> <<>>,
              mapping |-> <<>>]

IsEmpty(c) == c.deletions = {} /\ c.insertions = {} /\ c.modifications = {} /\ c.moves = <<>>

(* The elements of s that are in T, in their order: what remove_if leaves. *)
Only(s, T) ==
    LET only[n \in 0 .. Len(s)] ==
            IF n = 0 THEN <<>>
            ELSE IF s[n] \in T THEN Append(only[n - 1], s[n]) ELSE only[n - 1]
    IN  only[Len(s)]

(* A function without, or with another value at, one argument. *)
Without(f, x) == [y \in DOMAIN f \ {x} |-> f[y]]
Put(f, x, v) == [y \in DOMAIN f \cup {x} |-> IF y = x THEN v ELSE f[y]]

Modify(c, i) == [c EXCEPT !.modifications = @ \cup {i}]

(* insert: the destinations of moves from index on are shifted too. *)
Insert(c, at, n) ==
    LET moved(i) == IF i >= at THEN i + n ELSE i
        keys == {moved(k) : k \in DOMAIN c.mapping}
    IN  [c EXCEPT !.modifications = ShiftForInsertAt(@, at, n),
                  !.insertions = InsertRange(@, at, n),
                  !.moves = [k \in DOMAIN c.moves |-> [c.moves[k] EXCEPT !.to = moved(@)]],
                  !.mapping = [k \in keys |-> c.mapping[IF k >= at THEN k - n ELSE k]]]

(* The deletions once the row at i is gone: erase_or_unshift, add_shifted *)
Deleted(c, i) ==
    IF i \in c.insertions THEN c.deletions
    ELSE AddShifted(c.deletions, Unshift(c.insertions, i))

(* erase *)
Erase(c, i) ==
    LET kept == Only(c.moves, {m \in ToSet(c.moves) : m.to # i})
    IN  [c EXCEPT !.modifications = EraseAt(@, i),
                  !.insertions = EraseAt(@, i),
                  !.deletions = Deleted(c, i),
                  !.moves = [k \in DOMAIN kept |->
                        [kept[k] EXCEPT !.to = AfterErase(@, i)]]]

(* How many rows there were before the changes; all of them for a table. *)
ClearedSize(c, size) ==
    IF size = Npos THEN Npos
    ELSE size + Cardinality(c.deletions) - Cardinality(c.insertions)

(* clear *)
Clear(c, size) == [NoChanges EXCEPT !.deletions = 0 .. ClearedSize(c, size) - 1]

(* Where another row ends up when one moves. *)
ShiftForMove(i, from, to) ==
    CASE i >= to /\ i < from -> i + 1
      [] i <= to /\ i > from -> i - 1
      [] OTHER -> i

(* move, for lists: a row that had been moved before has its move updated, a
   new row is only inserted elsewhere. *)
Move(c, from, to) ==
    LET again == \E k \in DOMAIN c.moves : c.moves[k].to = from
        source == Shift(c.deletions, Unshift(c.insertions, from))
        isNew == from \in c.insertions
        shifted == [k \in DOMAIN c.moves |->
            [c.moves[k] EXCEPT !.to = IF @ = from THEN to ELSE ShiftForMove(@, from, to)]]
        rest == EraseAt(c.modifications, from)
    IN  [c EXCEPT !.insertions = InsertRange(EraseAt(@, from), to, 1),
                  !.deletions = IF again \/ isNew THEN @ ELSE @ \cup {source},
                  !.moves = IF again \/ isNew THEN shifted
                            ELSE Append(shifted, [from |-> source, to |-> to]),
                  !.modifications = IF from \in @ THEN InsertRange(rest, to, 1)
                                    ELSE ShiftForInsertAt(rest, to, 1)]

\* Mutant: the mark of the deleted row stays.
FollowMoveOver_Stays(col, row, last) ==
    IF last \in col THEN (col \ {last}) \cup {row} ELSE col

(* The set col follows row `last` to `row`. *)
FollowMoveOver(col, row, last) ==
    IF last \in col THEN (col \ {last}) \cup {row} ELSE col \ {row}

(* The row at last is there because it was moved before. *)
MovedAgain(c, last) == last \in c.insertions /\ last \in DOMAIN c.mapping

(* move_over, for tables: the last row takes the place of the deleted one. *)
MoveOver(c, row, last) ==
    IF row = last
    THEN [c EXCEPT !.deletions = Deleted(c, row), !.insertions = EraseAt(@, row),
                   !.mapping = Without(@, row), !.modifications = @ \ {row}]
    ELSE LET rowNew  == row \in c.insertions
             lastNew == last \in c.insertions
             again   == MovedAgain(c, last)
             source  == Shift(c.deletions, Unshift(c.insertions, last))
             ins     == c.insertions \ {last}
             del     == IF lastNew THEN c.deletions ELSE c.deletions \cup {source}
             map     == IF rowNew /\ ~again THEN Without(c.mapping, row) ELSE c.mapping
         IN  [c EXCEPT
                !.modifications = FollowMoveOver(@, row, last),
                !.mapping = CASE again -> Without(Put(map, row, map[last]), last)
                              [] ~again /\ lastNew -> map
                              [] OTHER -> Put(map, row, source),
                !.deletions = IF rowNew THEN del ELSE AddShifted(del, Unshift(ins, row)),
                !.insertions = ins \cup {row}]

(* The mark of one of two rows goes to the other. *)
SwapMarks(col, i, j) ==
    CASE i \in col /\ j \notin col -> (col \ {i}) \cup {j}
      [] j \in col /\ i \notin col -> (col \ {j}) \cup {i}
      [] OTHER -> col

(* A row that is not new is moved from i, where it was, to j. *)
MoveTo(c, i, j) ==
    IF i \in c.insertions THEN c
    ELSE LET source == Shift(c.deletions, Unshift(c.insertions, i))
         IN  [c EXCEPT !.deletions = @ \cup {source}, !.insertions = @ \cup {i},
                       !.mapping = Put(@, j, source)]

(* swap, for tables; i < j *)
Swap(c, i, j) ==
    LET m == c.mapping
        d == [c EXCEPT !.modifications = SwapMarks(@, i, j)]
        (* update_move: the move to `there` now leads `here`, and the row that was
           here goes there. *)
        Redirect(here, there) ==
            MoveTo([d EXCEPT !.mapping = Put(Without(m, there), here, m[there])], here, there)
    IN  CASE {i, j} \subseteq DOMAIN m -> [d EXCEPT !.mapping = Put(Put(m, i, m[j]), j, m[i])]
          [] i \in DOMAIN m /\ j \notin DOMAIN m -> Redirect(j, i)
          [] i \notin DOMAIN m /\ j \in DOMAIN m -> Redirect(i, j)
          [] OTHER -> MoveTo(MoveTo(d, j, i), i, j)

(* subsume, for tables: the new row at j is taken to be the row at i, which is
   deleted next. *)
Subsume(c, i, j) ==
    [c EXCEPT !.modifications = IF i \in @ THEN @ \cup {j} ELSE @,
              !.mapping = IF i \in DOMAIN @ THEN Put(Without(@, i), j, @[i])
                          ELSE IF i \in c.insertions THEN @
                          ELSE Put(@, j, Shift(c.deletions, Unshift(c.insertions, i)))]

(* std::sort: moves by origin, each of which there is once *)
ByOrigin(moves) ==
    CHOOSE s \in [1 .. Cardinality(moves) -> moves] :
        ToSet(s) = moves /\ \A i, j \in DOMAIN s : i < j => s[i].from < s[j].from

(* parse_complete, for tables: the mapping becomes the moves, by origin. *)
ParseComplete(c) ==
    LET unmoved == {k \in DOMAIN c.mapping : c.mapping[k] = k}
        moved   == {[from |-> c.mapping[k], to |-> k] : k \in DOMAIN c.mapping \ unmoved}
    IN  [c EXCEPT !.deletions = @ \ unmoved, !.insertions = @ \ unmoved,
                  !.moves = ByOrigin(moved),
                  !.mapping = <<>>]

(* A move that does not change the order of the rows that stay. *)
IsStale(c, m) == Unshift(c.deletions, m.from) = Unshift(c.insertions, m.to)

(* One more move is looked at: it is dropped, with its deletion and insertion, or stays. *)
WithMove(d, m) ==
    IF IsStale(d, m) THEN [d EXCEPT !.deletions = @ \ {m.from}, !.insertions = @ \ {m.to}]
    ELSE [d EXCEPT !.moves = Append(@, m)]

(* clean_up_stale_moves, for lists *)
CleanUpStaleMoves(c) ==
    LET after[n \in 0 .. Len(c.moves)] ==
            IF n = 0 THEN [c EXCEPT !.moves = <<>>] ELSE WithMove(after[n - 1], c.moves[n])
    IN  after[Len(c.moves)]

-----------------------------------------------------------------------------
(* merge: the changes c followed by the changes d. *)

(* Where a row that d leaves alone ends up. *)
MovedOn(d, to) == Shift(d.insertions, Unshift(d.deletions, to))

(* An old move whose row was moved again, was deleted, or neither.  A new move
   that continues an old one is replaced by the last of the new ones. *)
UpdateMove(c, acc, old) ==
    LET d == acc.next
        k == SelectInSeq(d.moves, LAMBDA m : m.from = old.to)
        rest == IF k = Len(d.moves) THEN Front(d.moves)
                ELSE Front(ReplaceAt(d.moves, k, Last(d.moves)))
    IN  IF k # 0
        THEN [kept |-> Append(acc.kept, [old EXCEPT !.to = d.moves[k].to]),
              next |-> [d EXCEPT !.moves = rest,
                                 !.modifications = IF old.to \in c.modifications
                                                   THEN @ \cup {d.moves[k].to} ELSE @]]
        ELSE IF old.to \in d.deletions THEN acc
        ELSE [acc EXCEPT !.kept = Append(@, [old EXCEPT !.to = MovedOn(d, @)])]

UpdatedMoves(c, d) ==
    LET after[n \in 0 .. Len(c.moves)] ==
            IF n = 0 THEN [kept |-> <<>>, next |-> d] ELSE UpdateMove(c, after[n - 1], c.moves[n])
    IN  after[Len(c.moves)]

\* Mutant: the new deletions are added as they are.
MergedDeletions_Unshifted(c, d) == c.deletions \cup d.deletions

MergedDeletions(c, d) == AddShiftedBy(c.deletions, c.insertions, d.deletions)

(* Moves of rows that were inserted by c are dropped, the others start where
   the row was before c. *)
MergeMoves(c, d) ==
    LET u == UpdatedMoves(c, d)
        own == Only(u.next.moves, {m \in ToSet(u.next.moves) : m.from \notin c.insertions})
        marked == {m.to : m \in {x \in ToSet(own) : x.from \in c.modifications}}
    IN  [moves |-> u.kept \o [k \in DOMAIN own |->
                        [own[k] EXCEPT !.from = Shift(c.deletions, Unshift(c.insertions, @))]],
         marked |-> u.next.modifications \cup marked]

Merge(c, d) ==
    IF IsEmpty(d) THEN c
    ELSE IF IsEmpty(c) THEN d
    ELSE LET m == MergeMoves(c, d)
             e == CleanUpStaleMoves(
                    [c EXCEPT !.moves = m.moves, !.deletions = MergedDeletions(c, d),
                              !.insertions = InsertAll(EraseAll(@, d.deletions), d.insertions)])
         IN  [e EXCEPT !.modifications =
                ShiftForInsert(EraseAll(@, d.deletions), d.insertions) \cup m.marked]

(* finalize: what the callback is given. *)
Finalize(c) ==
    [deletions |-> c.deletions, insertions |-> c.insertions, moves |-> c.moves,
     modifications |-> ShiftForInsert(EraseAll(c.modifications, c.insertions), c.deletions),
     modificationsNew |-> c.modifications \ c.insertions]
=============================================================================
