----------------------------- MODULE TableChanges -----------------------------
(***************************************************************************)
(* How the notifier thread follows the rows of one table through the log.    *)
(* Rows are addressed by their index, which changes when another row is      *)
(* deleted; the identity of a row is known to the model only.                *)
(*                                                                          *)
(* The notifiers that have run before all start at the same version.  New    *)
(* ones may start at several: there is one change info for each of these, it *)
(* collects what the log says until the next one, and at the end they are    *)
(* combined.  A notifier of a list names the list by the index of the row    *)
(* that owns it, and the observer keeps these indexes up to date while it    *)
(* parses.                                                                   *)
(***************************************************************************)
EXTENDS ChangeBuilder

CONSTANTS MaxRows,   \* bound: the rows of the table
          MaxParsed, \* bound: instructions in one pass over the log
          MaxSpans,  \* bound: versions at which notifiers start
          MaxLists   \* bound: lists that are observed at a time
ASSUME BoundsAssumption ==
    /\ {MaxRows, MaxParsed, MaxSpans, MaxLists} \subseteq Nat
    /\ MaxRows <= Npos

VARIABLES
    rows,   \* the identities of the rows, by index
    infos,  \* m_info: per version, the rows then and the table's changes since
    lists,  \* m_info.lists: the owner's index, and for the model who the owner is and
            \* whether the list was skipped when its index changed
    named,  \* identities given so far
    parsed, \* instructions so far
    final,  \* advance_to_final is over and the notifiers run
    moveInfo \* m_need_move_info: the notifier of a query needs the table

vars == <<rows, infos, lists, named, parsed, final, moveInfo>>

Ids == 1 .. MaxRows + MaxParsed
Indexes(s) == 0 .. Len(s) - 1
Identity(n) == [k \in 1 .. n |-> k]
Current == infos[Len(infos)]
WithCurrent(c, dirty) ==
    [infos EXCEPT ![Len(infos)] = [@ EXCEPT !.change = c, !.dirty = dirty]]

TypeOK ==
    /\ rows \in Seq(Ids)
    /\ Len(infos) \in 1 .. MaxSpans
    /\ \A k \in DOMAIN infos :
        /\ infos[k].from \in Seq(Ids) /\ infos[k].dirty \subseteq Ids
        /\ \A f \in {"deletions", "insertions", "modifications"} :
                infos[k].change[f] \subseteq Nat
        /\ infos[k].change.moves \in Seq([from : Nat, to : Nat])
        /\ DOMAIN infos[k].change.mapping \subseteq infos[k].change.insertions
    /\ lists \in Seq([owner : Ids, row : Nat, info : 1 .. MaxSpans, skipped : BOOLEAN])
    /\ named \in 0 .. Max(Ids) /\ parsed \in 0 .. MaxParsed /\ {final, moveInfo} \subseteq BOOLEAN

(* add_required_change_info: the notifiers of lists that start here. *)
Starting(r, info, others) ==
    UNION {[1 .. n -> {[owner |-> r[i + 1], row |-> i, info |-> info, skipped |-> FALSE] :
                       i \in Indexes(r)}] :
           n \in 0 .. MaxLists - others}

Info(r) == [from |-> r, change |-> NoChanges, dirty |-> {}]

Init ==
    /\ \E n \in 0 .. MaxRows : rows = Identity(n)
    /\ infos = <<Info(rows)>>
    /\ lists \in Starting(rows, 1, 0)
    /\ named = Len(rows) /\ parsed = 0 /\ final = FALSE /\ moveInfo \in BOOLEAN

Parse ==
    /\ ~final /\ parsed < MaxParsed
    /\ parsed' = parsed + 1
    /\ UNCHANGED <<final, moveInfo>>

(* The table's changes, once d has been derived from them: without move info only
   the marks change. *)
Tracked(d) ==
    IF moveInfo THEN d ELSE [Current.change EXCEPT !.modifications = d.modifications]

(* insert_empty_rows: objects are always added at the end. *)
AddRow ==
    /\ Parse /\ Len(rows) < MaxRows
    /\ named' = named + 1
    /\ rows' = Append(rows, named')
    /\ infos' = WithCurrent(Tracked(Insert(Current.change, Len(rows), 1)), Current.dirty)
    /\ UNCHANGED lists

SetRow(i) ==
    /\ Parse
    /\ infos' = WithCurrent(Modify(Current.change, i), Current.dirty \cup {rows[i + 1]})
    /\ UNCHANGED <<rows, lists, named>>

(* The last row takes the place of the row at i. *)
MovedOver(r, i) == Front(ReplaceAt(r, i + 1, Last(r)))

\* Mutant: the list of the last row keeps its index.
EraseFromLists_Kept(ls, row, last) == SelectSeq(ls, LAMBDA l : l.row # row)

(* The last list, which takes the place of an erased one, is not looked at any more. *)
LastSkipped(ls, row, last) ==
    [ls EXCEPT ![Len(ls)].skipped = @ \/ Last(ls).row \in {row, last}]

(* The loop over m_info.lists in erase_rows: a list of the erased row is replaced by
   the last one, and the loop goes on behind it. *)
EraseFromLists(ls, row, last) ==
    LET after[i \in 0 .. Len(ls)] ==
            IF i = 0 THEN ls
            ELSE LET l == after[i - 1]
                 IN  IF i \in DOMAIN l /\ l[i].row = row THEN MovedOver(LastSkipped(l, row, last), i - 1)
                     ELSE [k \in DOMAIN l |-> IF k = i /\ l[k].row = last
                                              THEN [l[k] EXCEPT !.row = row] ELSE l[k]]
    IN  after[Len(ls)]

(* erase_rows, unordered: move_last_over *)
EraseRow(i) ==
    /\ Parse
    /\ rows' = MovedOver(rows, i)
    /\ infos' = WithCurrent(Tracked(MoveOver(Current.change, i, Len(rows) - 1)), Current.dirty)
    /\ lists' = EraseFromLists(lists, i, Len(rows) - 1)
    /\ UNCHANGED named

Reindexed(ls, New(_)) == [k \in DOMAIN ls |-> [ls[k] EXCEPT !.row = New(@)]]

SwapRows(i, j) ==
    /\ Parse /\ i < j
    /\ rows' = [rows EXCEPT ![i + 1] = rows[j + 1], ![j + 1] = rows[i + 1]]
    /\ infos' = WithCurrent(Tracked(Swap(Current.change, i, j)), Current.dirty)
    /\ lists' = Reindexed(lists, LAMBDA r : CASE r = i -> j [] r = j -> i [] OTHER -> r)
    /\ UNCHANGED named

(* merge_rows: the new row at j is the row at i with the same primary key, which
   is erased next. *)
MergeRows(i, j) ==
    /\ Parse /\ i # j
    /\ rows[j + 1] \notin ToSet(Current.from)
    /\ rows' = MovedOver([rows EXCEPT ![j + 1] = rows[i + 1]], i)
    /\ infos' = WithCurrent(Tracked(MoveOver(Subsume(Current.change, i, j), i, Len(rows) - 1)),
                            IF rows[j + 1] \in Current.dirty
                            THEN Current.dirty \cup {rows[i + 1]} ELSE Current.dirty)
    /\ lists' = EraseFromLists(Reindexed(lists, LAMBDA r : IF r = i THEN j ELSE r), i, Len(rows) - 1)
    /\ UNCHANGED named

ClearTable ==
    /\ Parse
    /\ rows' = <<>>
    /\ infos' = WithCurrent(Clear(Current.change, Npos), Current.dirty)
    /\ lists' = <<>>
    /\ UNCHANGED named

(* advance_incremental: the log is parsed up to the version of further notifiers,
   which find their own change info and add their lists to those there are. *)
AdvanceIncremental ==
    /\ ~final /\ Len(infos) < MaxSpans /\ parsed > 0
    /\ infos' = Append(WithCurrent(ParseComplete(Current.change), Current.dirty), Info(rows))
    /\ \E ls \in Starting(rows, Len(infos) + 1, Len(lists)) : lists' = lists \o ls
    /\ UNCHANGED <<rows, named, parsed, final, moveInfo>>

(* advance_to_final: from the last on, every change info is merged into the one
   before it.  The marks are the model's and follow. *)
Combined(is) ==
    LET merged[n \in 0 .. Len(is) - 1] ==
            LET cur == is[Len(is) - n].change
            IN  IF n = 0 THEN cur ELSE Merge(cur, merged[n - 1])
    IN  [k \in DOMAIN is |->
            [is[k] EXCEPT !.change = merged[Len(is) - k],
                          !.dirty = UNION {is[n].dirty : n \in k .. Len(is)}]]

AdvanceToFinal ==
    /\ ~final /\ final' = TRUE
    /\ infos' = Combined(WithCurrent(ParseComplete(Current.change), Current.dirty))
    /\ UNCHANGED <<rows, lists, named, parsed, moveInfo>>

(* The next pass over the log, after the notifiers have run. *)
NextPass ==
    /\ final /\ final' = FALSE
    /\ rows' = Identity(Len(rows))
    /\ infos' = <<Info(rows')>>
    /\ lists' \in Starting(rows', 1, 0)
    /\ named' = Len(rows) /\ parsed' = 0 /\ UNCHANGED moveInfo

Next ==
    \/ AddRow \/ ClearTable
    \/ \E i \in Indexes(rows) : SetRow(i) \/ EraseRow(i)
    \/ \E i, j \in Indexes(rows) : SwapRows(i, j) \/ MergeRows(i, j)
    \/ AdvanceIncremental \/ AdvanceToFinal \/ NextPass

Spec == Init /\ [][Next]_vars

-----------------------------------------------------------------------------
(* ResultsNotifier::calculate_changes: where the row at i is now.  The move is looked
   for by binary search: parse_complete has sorted the moves. *)
LowerBound(moves, i) ==
    LET after[k \in 0 .. Len(moves)] ==
            IF k = 0 THEN [first |-> 1, length |-> Len(moves)]
            ELSE LET s == after[k - 1]
                     half == s.length \div 2
                 IN  IF s.length = 0 THEN s
                     ELSE IF moves[s.first + half].from < i
                          THEN [first |-> s.first + half + 1, length |-> s.length - half - 1]
                          ELSE [s EXCEPT !.length = half]
    IN  after[Len(moves)].first

NewIndex(c, i) ==
    LET k == LowerBound(c.moves, i)
    IN  IF i \notin c.deletions THEN Shift(c.insertions, Unshift(c.deletions, i))
        ELSE IF k <= Len(c.moves) /\ c.moves[k].from = i THEN c.moves[k].to
        ELSE Npos

(* find_list: the list that gets the changes of the row's list. *)
FindList(i) == SelectLastInSeq(lists, LAMBDA l : l.row = i)

-----------------------------------------------------------------------------
(* Properties *)

RowsNow(c, from) ==
    {<<from[i + 1], NewIndex(c, i)>> : i \in Indexes(from)}

(* Where the rows of a change info really are. *)
RowsTrulyNow(from) ==
    {<<id, IF id \in ToSet(rows) THEN SelectInSeq(rows, LAMBDA r : r = id) - 1 ELSE Npos>> :
        id \in ToSet(from)}

(* A notifier that started at the last version finds each of its rows where the
   log put it, and knows which ones are gone. *)
RowsAreTracked == final /\ moveInfo => RowsNow(Current.change, Current.from) = RowsTrulyNow(Current.from)

(* Of the rows a notifier knows, those that are marked as modified are the ones that
   were changed since.  Without move info this is so only from one version on: merge
   has nothing to move earlier marks by. *)
ModifiedRowsAreMarked ==
    final => \A k \in DOMAIN infos : moveInfo \/ k = Len(infos) =>
        LET marked == {rows[i + 1] : i \in infos[k].change.modifications \cap Indexes(rows)}
            known == ToSet(infos[k].from) \cap ToSet(rows)
        IN  marked \cap known = infos[k].dirty \cap known

(* Every observed list that is still there is found under its owner's index, however
   rows are moved, merged and erased and the lists of erased rows taken out of the
   middle of the others, except a list that was skipped by the loop of erase_rows,
   which goes on behind the list it has just put in the place of an erased one. *)
ListsFollowOwners ==
    \A k \in DOMAIN lists : ~lists[k].skipped =>
        lists[k].row \in Indexes(rows) /\ rows[lists[k].row + 1] = lists[k].owner

(* erase_rows looks at every list.  Two lists refute it. *)
NoListIsSkipped == \A k \in DOMAIN lists : ~lists[k].skipped

(* Of several notifiers of a list, the one that started last gets the changes; the
   others are given a copy at the end.  Three lists refute it. *)
LastListIsFound ==
    \A k \in DOMAIN lists :
        LET f == FindList(lists[k].row)
        IN  (lists[k].owner \in ToSet(rows) /\ lists[f].owner = lists[k].owner) =>
                lists[f].info >= lists[k].info

(* The deletions that merge() visits one by one are rows the table had.  A cleared table
   refutes it. *)
MergeVisitsRows ==
    \A k \in DOMAIN infos : (k > 1 /\ ~IsEmpty(infos[k - 1].change)) =>
        infos[k].change.deletions \subseteq Indexes(infos[k].from)
=============================================================================
