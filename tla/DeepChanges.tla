----------------------------- MODULE DeepChanges -----------------------------
(***************************************************************************)
(* An object of a collection counts as modified also if an object that it    *)
(* leads to by links was modified.  DeepChangeChecker follows the links of   *)
(* one row after the other, at most Depth rows deep, and remembers rows from  *)
(* which nothing modified can be reached; a row it gave up on, at the limit   *)
(* or in a circle, must not be remembered.                                   *)
(*                                                                          *)
(* Rows have numbers of their own here, and tableOf says where they are.      *)
(***************************************************************************)
EXTENDS Naturals, Sequences, SequencesExt, FiniteSets, FiniteSetsExt

CONSTANTS Depth,   \* the size of m_current_path: 4
          Layouts, \* tables with the targets of their link columns, and the rows' tables
          MaxLinks \* bound: the rows one column of a row links to
ASSUME DepthAssumption == Depth \in Nat \ {0}
ASSUME LayoutsAssumption ==
    \A l \in Layouts :
        /\ l.columns \in Seq(Seq(1 .. Len(l.columns))) /\ l.columns # <<>>
        /\ l.tableOf \in Seq(1 .. Len(l.columns))
ASSUME MaxLinksAssumption == MaxLinks \in Nat

VARIABLES
    columns,    \* for each table, the table each of its link columns leads to
    tableOf,    \* the table of each row; the collection's own is 1
    links,      \* for each row and link column, the rows it links to
    modified,   \* the rows marked as modified
    notModified \* m_not_modified
vars == <<columns, tableOf, links, modified, notModified>>

Rows == DOMAIN tableOf
RowsOf(table) == {r \in Rows : tableOf[r] = table}

(* Links, per column, that a row may have *)
Lists == UNION {[1 .. n -> Rows] : n \in 0 .. MaxLinks}
Fits(ls, row) ==
    LET targets == columns[tableOf[row]]
    IN  /\ DOMAIN ls = DOMAIN targets
        /\ \A c \in DOMAIN ls : \A k \in DOMAIN ls[c] : tableOf[ls[c][k]] = targets[c]

(* Any rows may have been modified, and any links the columns allow run between the
   others: those of a modified row are never followed. *)
Init ==
    /\ \E layout \in Layouts : columns = layout.columns /\ tableOf = layout.tableOf
    /\ modified \in SUBSET Rows
    /\ LET free == Rows \ modified
           none(r) == [c \in DOMAIN columns[tableOf[r]] |-> <<>>]
           possible == {ls \in UNION {[DOMAIN columns[t] -> Lists] : t \in DOMAIN columns} :
                            \E r \in free : Fits(ls, r)}
       IN  \E f \in [free -> possible] :
            /\ \A r \in free : Fits(f[r], r)
            /\ links = [r \in Rows |-> IF r \in free THEN f[r] ELSE none(r)]
    /\ notModified = {}

-----------------------------------------------------------------------------
(* The steps, functions on the same set, one after the other from start. *)
Loop(steps, start) ==
    LET after[k \in 0 .. Len(steps)] ==
            IF k = 0 THEN start ELSE steps[k][after[k - 1]]
    IN  after[Len(steps)]

(* find_related_tables: the tables, in the order they are found.  A table is added
   before its links are followed, so that n tables are not nested deeper than n. *)
Tables == DOMAIN columns

FindRelatedTables(deeper, out, table) ==
    IF table \in ToSet(out) THEN out
    ELSE Loop([c \in DOMAIN columns[table] |->
                    [o \in Seq(Tables) |-> deeper[o][columns[table][c]]]],
              Append(out, table))

Find[n \in 0 .. Len(columns)] ==
    [out \in Seq(Tables) |-> [table \in Tables |->
        IF n = 0 THEN out ELSE FindRelatedTables(Find[n - 1], out, table)]]

RelatedTables == Find[Len(columns)][<<>>][1]

TableModified(table) == \E r \in RowsOf(table) : r \in modified

-----------------------------------------------------------------------------
(* The search: path is m_current_path, not the rows remembered, found the answer. *)

NewPath == [k \in 1 .. Depth |-> [row |-> 0, col |-> 0, exceeded |-> FALSE]]
States ==
    [path : [1 .. Depth -> [row : Nat, col : Nat, exceeded : BOOLEAN]],
     not : SUBSET Rows, found : BOOLEAN]
Exceeded(path, from, to) ==
    [k \in DOMAIN path |-> IF k \in from .. to THEN [path[k] EXCEPT !.exceeded = TRUE] ELSE path[k]]

(* already_checking: where on the path this link is being followed *)
AlreadyChecking(path, row, col, depth) ==
    {k \in 1 .. depth : path[k].row = row /\ path[k].col = col}

\* Mutant: a row given up on is remembered.
MayRemember_Always(s, depth) == ~s.found

(* Nothing was found, and the search has not been cut short below the row before. *)
MayRemember(s, depth) == ~s.found /\ (depth = 0 \/ ~s.path[depth].exceeded)

(* linked_object_changed; deeper is check_row one row further down *)
CheckColumn(deeper, s, row, col, depth) ==
    LET match == AlreadyChecking(s.path, row, col, depth)
        dst == links[row][col]
    IN  IF match # {} THEN [s EXCEPT !.path = Exceeded(@, Min(match), depth)]
        ELSE Loop([k \in DOMAIN dst |->
                        [t \in States |-> IF t.found THEN t ELSE deeper[t][dst[k]]]],
                  [s EXCEPT !.path[depth + 1] = [row |-> row, col |-> col, exceeded |-> FALSE]])

CheckOutgoingLinks(deeper, s, row, depth) ==
    IF tableOf[row] \notin ToSet(RelatedTables) THEN s
    ELSE Loop([c \in DOMAIN links[row] |->
                    [t \in States |-> IF t.found THEN t ELSE CheckColumn(deeper, t, row, c, depth)]],
              s)

(* check_row *)
CheckRow(deeper, s, row, depth) ==
    IF depth >= Depth THEN [s EXCEPT !.path = Exceeded(@, 1, Depth)]
    ELSE IF depth > 0 /\ row \in modified THEN [s EXCEPT !.found = TRUE]
    ELSE IF row \in s.not THEN s
    ELSE LET t == CheckOutgoingLinks(deeper, s, row, depth)
         IN  IF MayRemember(t, depth) THEN [t EXCEPT !.not = @ \cup {row}] ELSE t

(* check_row where the path has room for n more links *)
Check[n \in 0 .. Depth] ==
    [s \in States |-> [row \in Rows |->
        CheckRow(IF n = 0 THEN <<>> ELSE Check[n - 1], s, row, Depth - n)]]

Search(row) ==
    LET new == [path |-> NewPath, not |-> notModified, found |-> FALSE]
    IN  IF row \in modified THEN [new EXCEPT !.found = TRUE] ELSE Check[Depth][new][row]

(* get_modification_checker: whether the checker it returns says the row did change *)
IsShallow == Len(RelatedTables) = 1
AnyRelatedTableModified == \E t \in ToSet(RelatedTables) : TableModified(t)
RowDidChange(row) ==
    /\ AnyRelatedTableModified
    /\ IF IsShallow THEN row \in modified ELSE Search(row).found

(* The notifier asks about a row of the collection. *)
Ask(row) ==
    /\ AnyRelatedTableModified /\ ~IsShallow /\ row \notin notModified
    /\ notModified' = Search(row).not
    /\ UNCHANGED <<columns, tableOf, links, modified>>

Next == \E r \in RowsOf(1) : Ask(r)

Spec == Init /\ [][Next]_vars

-----------------------------------------------------------------------------
(* Properties *)

LinkedFrom(r) == UNION {ToSet(links[r][c]) : c \in DOMAIN links[r]}

(* The rows with a modified row at most n links away. *)
Near[n \in 0 .. Depth] ==
    IF n = 0 THEN modified
    ELSE LET nearer == Near[n - 1]
         IN  nearer \cup {r \in Rows : LinkedFrom(r) \cap nearer # {}}

(* Whatever rows were asked about before, and however links run in circles, a row
   did change exactly if it or a row less than Depth links away was modified: what
   is remembered never hides a change, and neither does a circle. *)
DeepChangesAreExact == \A r \in RowsOf(1) : RowDidChange(r) <=> r \in Near[Depth - 1]

(* "... or an object linked to by that object was modified": a row with a link to a
   modified row is reported. *)
LinkedChangesAreSeen == \A r \in RowsOf(1) : r \in Near[1] => RowDidChange(r)
=============================================================================
