----------------------------- MODULE RealmTable -----------------------------
(***************************************************************************)
(* The table operations of the vendored Realm database that the app relies *)
(* on, as pure operators.  A table is the sequence of its objects in row   *)
(* order, which is also the order a Results without sort enumerates.  No   *)
(* operator here is recursive.                                             *)
(***************************************************************************)
EXTENDS Naturals, Sequences, FiniteSets

\* realm.add: a new object takes an empty row behind the last one.
AddRow(s, o) == Append(s, o)

\* Mutant: the last row is taken off the end, but not moved.
MoveLastOver_DropsLast(s, i) == [j \in 1..(Len(s) - 1) |-> s[j]]

\* realm.delete: the last row is moved over the deleted one, so the objects
\* behind the deleted row do NOT shift up.
MoveLastOver(s, i) ==
    [j \in 1..(Len(s) - 1) |-> IF j = i THEN s[Len(s)] ELSE s[j]]

\* UITableView.deleteRows(at:) on the cells of a table view: every cell behind
\* the removed one does shift up.
RemoveRow(s, i) ==
    [j \in 1..(Len(s) - 1) |-> IF j < i THEN s[j] ELSE s[j + 1]]

\* The row numbers a query "listId == l" matches.
Matches(s, l) == {i \in 1..Len(s) : s[i].listId = l}

\* How many matching rows there are up to and including row i.
Rank(s, l, i) == Cardinality({j \in Matches(s, l) : j <= i})

\* The number of the row that holds the p-th object of the query.
NthMatch(s, l, p) == CHOOSE i \in Matches(s, l) : Rank(s, l, i) = p

\* Mutant: the predicate is forgotten.
Filter_Everything(s, l) == s

\* realm.objects(T.self).filter("listId == l"): the matching objects in row
\* order.
Filter(s, l) ==
    [p \in 1..Cardinality(Matches(s, l)) |-> s[NthMatch(s, l, p)]]

=============================================================================
