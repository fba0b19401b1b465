----------------------------- MODULE TableScreen -----------------------------
(***************************************************************************)
(* What both controllers keep on screen: a UITableView with its Edit/Done  *)
(* button, as the record                                                   *)
(*   rows     the objects as the visible cells show them, top to bottom;   *)
(*            cells are copies, they do not follow the database            *)
(*   editing  tableView.isEditing                                          *)
(*   title    the title of editDoneButton                                  *)
(*   enabled  editDoneButton.isEnabled                                     *)
(* UITableView is external; it is modelled from how the controllers use it.*)
(***************************************************************************)
EXTENDS RealmTable

Tables(Obj) == [rows : Seq(Obj), editing : BOOLEAN,
                title : {"Edit", "Done"}, enabled : BOOLEAN]

\* The table after viewDidLoad: no rows and the button disabled.
FreshTable ==
    [rows |-> << >>, editing |-> FALSE, title |-> "Edit", enabled |-> FALSE]

\* tableView.reloadData(): numberOfRows and cellForRowAt rebuild every cell.
ReloadData(table, results) == [table EXCEPT !.rows = results]

\* cellForRowAt for one row that scrolls back into view.
RedrawRow(table, results, i) == [table EXCEPT !.rows[i] = results[i]]

\* Mutant: the cell of a deleted object is left in place.
DeleteRows_Forgotten(table, i) == table

\* Mutant: the cell before the one of the deleted object goes.
DeleteRows_RowBefore(table, i) ==
    [table EXCEPT !.rows = RemoveRow(@, IF i = 1 THEN 1 ELSE i - 1)]

\* tableView.deleteRows(at: [i]).
DeleteRows(table, i) == [table EXCEPT !.rows = RemoveRow(@, i)]

\* editDoneButtonTapped: toggles edit mode by what tableView.isEditing says.
EditDoneTapped(table) ==
    [table EXCEPT !.editing = ~table.editing,
                  !.title   = IF table.editing THEN "Edit" ELSE "Done"]

\* The end of a commit handler: edit mode off, title back to "Edit".
EndEditing(table) == [table EXCEPT !.editing = FALSE, !.title = "Edit"]

\* A swipe over a row makes UIKit enter editing mode without touching the
\* button, and dismissing the swipe leaves it again.
Swiped(table)      == [table EXCEPT !.editing = TRUE]
SwipeEnded(table)  == [table EXCEPT !.editing = FALSE]
SwipeIsOpen(table) == table.editing /\ table.title = "Edit"

\* Mutant: the button stays enabled when the last object is gone.
DisableIfNone_Never(table, n) == table

\* The button follows the number of objects in the two ways the code has:
\* enabled when there are some (on appearing), disabled when the last one is
\* gone (after a deletion).
EnableIfAny(table, n)    == [table EXCEPT !.enabled = @ \/ n > 0]
DisableIfNone(table, n)  == [table EXCEPT !.enabled = @ /\ n # 0]

=============================================================================
