---------------------------- MODULE ResultsChanges ----------------------------
(***************************************************************************)
(* The change notifications of a query.  The notifier has run before, so     *)
(* that all of the log is one change info; it knows the row indexes of its   *)
(* last results, follows them through the table's changes, runs the query    *)
(* again and reports the difference.  Which rows match is up to the writer,  *)
(* and so is the order of the results when they are sorted.                  *)
(***************************************************************************)
EXTENDS TableChanges, ResultsDiff, TLC

CONSTANT MaxSorted \* bound: the rows of the table when the results are sorted

VARIABLES
    sorted,   \* the query sorts its results, otherwise they are in table order
    matching, \* the rows that match
    previous, \* m_previous_rows
    shown,    \* the rows of the last results
    base,     \* the rows of the results when the callback was last called
    touched,  \* the rows that were changed since then
    acc       \* the callback's accumulated_changes

resultVars == <<previous, shown, base, acc, sorted>>
allVars == <<vars, matching, touched, resultVars>>

(* The results the query may give, as row indexes. *)
Found == {i \in Indexes(rows) : rows[i + 1] \in matching}
InTableOrder == SelectSeq([k \in DOMAIN rows |-> k - 1], LAMBDA i : i \in Found)
QueryResults ==
    LET order == InTableOrder
    IN  IF sorted THEN {[k \in DOMAIN order |-> p[order[k]]] : p \in Permutations(Found)}
        ELSE {order}
RowsAt(is) == [k \in DOMAIN is |-> rows[is[k] + 1]]

ResultsTypeOK ==
    /\ TypeOK /\ sorted \in BOOLEAN
    /\ matching \subseteq Ids /\ touched \subseteq Ids
    /\ previous \in Seq(Nat) /\ shown \in Seq(Ids) /\ base \in Seq(Ids)
    /\ \A f \in {"deletions", "insertions", "modifications"} : acc[f] \subseteq Nat
    /\ acc.moves \in Seq([from : Nat, to : Nat])

ResultsInit ==
    /\ Init /\ moveInfo
    /\ sorted \in BOOLEAN /\ (sorted => Len(rows) <= MaxSorted)
    /\ matching \in SUBSET ToSet(rows)
    /\ previous = InTableOrder
    /\ shown = RowsAt(previous) /\ base = shown
    /\ touched = {} /\ acc = NoChanges

(* A step of the log.  A new row, or one that is set, may begin or cease to match; a
   row that is merged into a new one has the data of this. *)
Log ==
    \/ /\ AddRow /\ (sorted => Len(rows) < MaxSorted)
       /\ matching' \in {matching, matching \cup {named'}}
       /\ UNCHANGED <<touched, resultVars>>
    \/ \E i \in Indexes(rows) :
        LET id == rows[i + 1]
        IN  /\ SetRow(i)
            /\ matching' \in {matching \cup {id}, matching \ {id}}
            /\ touched' = touched \cup {id}
            /\ UNCHANGED resultVars
    \/ \E i, j \in Indexes(rows) :
        LET Passed(S) == IF rows[j + 1] \in S THEN S \cup {rows[i + 1]} ELSE S \ {rows[i + 1]}
        IN  /\ MergeRows(i, j)
            /\ matching' = Passed(matching)
            /\ touched' = touched \cup Passed(touched)
            /\ UNCHANGED resultVars
    \/ /\ \/ ClearTable \/ AdvanceToFinal
          \/ \E i \in Indexes(rows) : EraseRow(i)
          \/ \E i, j \in Indexes(rows) : SwapRows(i, j)
       /\ UNCHANGED <<matching, touched, resultVars>>

(* ResultsNotifier::run and the handover: add_changes merges what was calculated. *)
Run ==
    /\ final /\ final' = FALSE
    /\ \E next \in QueryResults :
        LET c == Current.change
            followed == [k \in DOMAIN previous |-> NewIndex(c, previous[k])]
        IN  /\ acc' = Merge(acc, Calculate(followed, next, c.modifications, ~sorted, c.insertions))
            /\ previous' = next
            /\ shown' = RowsAt(next)
    /\ infos' = <<Info(rows)>>
    /\ UNCHANGED <<rows, lists, named, parsed, moveInfo, matching, base, touched, sorted>>

(* The callback is called, right after a run. *)
Deliver ==
    /\ ~final /\ infos = <<Info(rows)>> /\ parsed > 0
    /\ base' = shown /\ acc' = NoChanges /\ touched' = {}
    /\ UNCHANGED <<vars, matching, previous, shown, sorted>>

ResultsNext == Log \/ Run \/ Deliver

ResultsSpec == ResultsInit /\ [][ResultsNext]_allVars

-----------------------------------------------------------------------------
(* Properties *)

Kept(s, gone) ==
    LET ks == SelectSeq([k \in DOMAIN s |-> k], LAMBDA k : k - 1 \notin gone)
    IN  [n \in DOMAIN ks |-> s[ks[n]]]

(* What was accumulated, applied to the results the callback last saw, gives the
   last results: the check that calculate() makes in debug builds, over any number
   of runs. *)
ReportApplies ==
    /\ acc.deletions \subseteq Indexes(base) /\ acc.insertions \subseteq Indexes(shown)
    /\ Kept(base, acc.deletions) = Kept(shown, acc.insertions)

(* Every reported move is the move of one row. *)
MovesAreMoves ==
    \A m \in ToSet(acc.moves) :
        /\ m.from \in acc.deletions /\ m.to \in acc.insertions
        /\ base[m.from + 1] = shown[m.to + 1]

(* Following the rows through the log, the diff and the merge of several runs give
   a report that applies and whose moves are moves. *)
ReportIsRight == ReportApplies /\ MovesAreMoves

(* The reported modifications are the rows that kept their place and were changed. *)
ModificationsAreExact ==
    LET stayed == {base[i + 1] : i \in Indexes(base) \ acc.deletions}
        f == Finalize(acc)
    IN  infos = <<Info(rows)>> =>
            /\ {shown[i + 1] : i \in f.modificationsNew} = touched \cap stayed
            /\ {base[i + 1] : i \in f.modifications} = touched \cap stayed

(* Some reported deletion and insertion are of one row, and without them the report
   would apply as well. *)
MovedInVain ==
    \E i \in acc.deletions, j \in acc.insertions :
        /\ base[i + 1] = shown[j + 1]
        /\ Kept(base, acc.deletions \ {i}) = Kept(shown, acc.insertions \ {j})

(* Refuted: one run of a query deletes and inserts rows only as needed: none of the rows it
   reports as moved could have been left where it is. *)
NothingMovedInVain == [][(final /\ ~final' /\ acc = NoChanges) => ~MovedInVain']_allVars
=============================================================================
