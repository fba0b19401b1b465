------------------------------ MODULE ToDoApp ------------------------------
(***************************************************************************)
(* The whole app: both screens over one Realm file, with a process that    *)
(* may be killed and launched again at any moment.                         *)
(***************************************************************************)
EXTENDS ToDoLists

vars == <<storeVars, shellVars, listsVars, itemsVars>>

\* A process just started on an empty file: no Realm yet, the root screen
\* loaded (its viewDidLoad) but not yet on screen.
Init ==
    /\ realm = FALSE /\ inWrite = FALSE
    /\ durable = [lists |-> << >>, items |-> << >>] /\ current = durable
    /\ nav = "launching" /\ proc = "running"
    /\ alert = NoAlert /\ log = {}
    /\ toDoLists = FALSE /\ listsTable = FreshTable
    /\ toDoList = NoList /\ toDoListItems = FALSE
    /\ itemsTable = FreshTable /\ nameField = NoNameField
    /\ nextList = 1 /\ nextItem = 1

\* The process is killed, or has crashed, and is launched again: everything
\* but the file is lost.
Relaunch ==
    /\ realm' = FALSE /\ inWrite' = FALSE
    /\ current' = durable
    /\ nav' = "launching" /\ proc' = "running"
    /\ alert' = NoAlert /\ log' = {}
    /\ toDoLists' = FALSE /\ listsTable' = FreshTable
    /\ toDoList' = NoList /\ toDoListItems' = FALSE
    /\ itemsTable' = FreshTable /\ nameField' = NoNameField
    /\ UNCHANGED <<durable, nextList, nextItem>>

CancelAlert ==
    AlertCancelled /\ ~nameField.editing /\ UNCHANGED <<listsVars, itemsVars>>

Texts == Names \cup {Empty}

ListsNext ==
    \/ AddListTapped \/ ListsEditDoneTapped \/ SwipeList \/ SwipeListEnds
    \/ \E opens \in BOOLEAN : ListsViewDidAppear(opens)
    \/ \E t \in Texts, opens, commits \in BOOLEAN : AddListConfirmed(t, opens, commits)
    \/ \E i \in 1..MaxLists : SelectList(i) \/ RedrawListRow(i)
    \/ \E i \in 1..MaxLists, opens, commits \in BOOLEAN : CommitDeleteList(i, opens, commits)

ItemsNext ==
    \/ AddItemTapped \/ ItemsEditDoneTapped \/ SwipeItem \/ SwipeItemEnds
    \/ NameFieldTapped \/ BackTapped
    \/ \E opens \in BOOLEAN : ItemsViewDidLoad(opens)
    \/ \E t \in Texts, opens, commits \in BOOLEAN :
          \/ AddItemConfirmed(t, opens, commits)
          \/ EditItemConfirmed(t, opens, commits)
          \/ TextFieldDidEndEditing(t, opens, commits)
    \/ \E i \in 1..MaxItems : SelectItem(i) \/ RedrawItemRow(i)
    \/ \E i \in 1..MaxItems, opens, commits \in BOOLEAN : CommitDeleteItem(i, opens, commits)

Next ==
    \/ ListsNext
    \/ ItemsNext /\ UNCHANGED listsVars
    \/ CancelAlert
    \/ Relaunch

Spec == Init /\ [][Next]_vars

-----------------------------------------------------------------------------
(* Safety *)

\* Every variable has its type: names are never the empty text a handler
\* must refuse, object ids stay within what was ever created.
TypeOK == ShellTypeOK /\ ItemsTypeOK /\ ListsTypeOK

\* The table views never disagree with their data source about the number of
\* rows, though cells are moved by hand (deleteRows) while the Results change
\* underneath: UIKit raises on such a disagreement and results![row] traps.
RowCountsMatch ==
    /\ Len(listsTable.rows) = IF toDoLists THEN Len(current.lists) ELSE 0
    /\ Len(itemsTable.rows) = IF toDoListItems THEN Len(ItemResults(current)) ELSE 0

\* The only way a handler can crash is a write after a commit that failed;
\* that crash always costs the user the transaction that failed.
CrashOnlyAfterLostCommit ==
    proc # "running" => proc = "nestedWrite" /\ current # durable

\* What the screens read is the file, except after a failed commit, when they
\* show the one transaction that is not in the file.
ReadsAreDurable == inWrite <=> current # durable

\* "Done" is shown only in editing mode, editing mode is possible only with
\* the button enabled to leave it, and the button is enabled exactly when
\* there are rows.  A swipe, which edits behind the button's back, an added
\* row and the deletion of the last one all have to keep this.
ButtonCoherent(table) ==
    /\ table.title = "Done" => table.editing
    /\ table.editing => table.enabled
    /\ table.enabled <=> table.rows # << >>
EditButtonCoherent == ButtonCoherent(listsTable) /\ ButtonCoherent(itemsTable)

\* While the edit alert is up, the index path it captured still leads to the
\* object it captured, although the name field may commit a write meanwhile.
EditHitsCapturedItem ==
    alert.kind = "editItem" =>
        /\ alert.row \in 1..Len(ItemResults(current))
        /\ ItemResults(current)[alert.row].oid = alert.item

\* Outside an edit, the name field shows the stored name of the open list:
\* a refused or failed rename is taken back, a stored one is shown.
NameFieldShowsStored ==
    nav \in {"items", "popping"} /\ ~nameField.editing => nameField.text = ListName

\* No object is stored twice, and each is under an id that was handed out.
UniqueIds(db) ==
    /\ \A i, j \in 1..Len(db.lists) : db.lists[i].listId = db.lists[j].listId => i = j
    /\ \A i, j \in 1..Len(db.items) : db.items[i].oid = db.items[j].oid => i = j
    /\ \A i \in 1..Len(db.lists) : db.lists[i].listId < nextList
    /\ \A i \in 1..Len(db.items) : db.items[i].oid < nextItem
StoredOnce == UniqueIds(current) /\ UniqueIds(durable)

\* Which screen is up decides what else there is: no items screen outside a
\* push, a pop or its display, an alert only over the screen that presents
\* it, and the bound of an addition checked when its alert opened, or the
\* Results an edit alert was opened from, are still there.
ScreensCoherent ==
    /\ nav \in {"launching", "lists", "pushing"} =>
          ~toDoListItems /\ itemsTable = FreshTable /\ ~nameField.editing
    /\ nav = "launching" => ~toDoLists
    /\ alert.kind = "addList"  => nav = "lists" /\ nextList <= MaxLists
    /\ alert.kind = "addItem"  => nav = "items" /\ nextItem <= MaxItems
    /\ alert.kind = "editItem" => nav = "items" /\ toDoListItems

\* The screens that are up after the root screen pushed one.
OpenListStored == nav \in {"pushing", "items", "popping"} => ListStored

\* The items screen is open only on a list that is stored, and shows only
\* items of that list: never one that a deleted list left behind.
ShowsOwnItems ==
    /\ OpenListStored
    /\ \A i \in DOMAIN itemsTable.rows : itemsTable.rows[i].listId = toDoList

\* A crash is a nested write.
OnlyNestedWrites == proc # "running" => proc = "nestedWrite" /\ inWrite

\* The inductive invariant the proofs use.
IInv ==
    /\ TypeOK /\ RowCountsMatch /\ ScreensCoherent /\ OpenListStored
    /\ EditHitsCapturedItem /\ StoredOnce /\ ReadsAreDurable /\ OnlyNestedWrites

-----------------------------------------------------------------------------
(* Action properties *)

\* What is read neither loses nor duplicates an object, though rows are moved
\* about: each is there once, and the only one to go is the one the Results
\* had at the row that is taken off the screen, in its own list's rows and
\* among those of other lists.  A relaunch falls back on the file.
ListIdsOf(db) == {db.lists[k].listId : k \in DOMAIN db.lists}
ItemIdsOf(db) == {db.items[k].oid : k \in DOMAIN db.items}
ListsKept ==
    \/ ListIdsOf(current) \subseteq ListIdsOf(current')
    \/ \E i \in DOMAIN listsTable.rows :
          /\ listsTable'.rows = RemoveRow(listsTable.rows, i)
          /\ ListIdsOf(current') = ListIdsOf(current) \ {current.lists[i].listId}
ItemsKept ==
    \/ ItemIdsOf(current) \subseteq ItemIdsOf(current')
    \/ \E i \in DOMAIN itemsTable.rows :
          /\ itemsTable'.rows = RemoveRow(itemsTable.rows, i)
          /\ ItemIdsOf(current') = ItemIdsOf(current) \ {ItemResults(current)[i].oid}
ObjectsKept ==
    []StoredOnce /\ [][nav' # "launching" => ListsKept /\ ItemsKept]_vars

ListsAgree == listsTable.rows = current.lists
ItemsAgree == itemsTable.rows = ItemResults(current)

\* Cells that agree with the data stop agreeing only by deleting a row with
\* at least two rows behind it; every other handler keeps or restores the
\* agreement, in particular the screen shows a renamed list when it is back.
ListsDivergeOnlyByDelete ==
    [][/\ nav' = "lists" /\ toDoLists'
       /\ ~ListsAgree'
       => \/ nav = "lists" /\ ~ListsAgree
          \/ /\ nav = "lists"
             /\ \E i \in 1..(Len(current.lists) - 2) :
                   /\ current'.lists = MoveLastOver(current.lists, i)
                   /\ listsTable'.rows = RemoveRow(listsTable.rows, i)]_vars

\* The same for the items of the open list, whose rows may lie scattered
\* among the rows of other lists.
ItemsDivergeOnlyByDelete ==
    [][nav' = "items" /\ ~ItemsAgree'
       => \/ nav = "items" /\ ~ItemsAgree
          \/ \E i \in 1..(Len(ItemResults(current)) - 2) :
                /\ current'.items = MoveLastOver(current.items, ItemSlot(i))
                /\ itemsTable'.rows = RemoveRow(itemsTable.rows, i)]_vars

-----------------------------------------------------------------------------
(* Refinement *)

\* The lists in the file and the items that belong to one of them.  Items a
\* deleted list left behind are out of reach for good, as no UUID recurs.
StoredLists == {durable.lists[i] : i \in DOMAIN durable.lists}
StoredItems == {durable.items[i] : i \in
                  {k \in DOMAIN durable.items :
                     \E x \in StoredLists : x.listId = durable.items[k].listId}}

Data == INSTANCE ToDoData WITH
            lists <- StoredLists, items <- StoredItems,
            ListIds <- 1..MaxLists, ItemIds <- 1..MaxItems

\* Through failed commits, crashes, kills and rows moved about, the file only
\* ever changes by one whole operation on the user's lists and items.
ImplementsToDoData == Data!Spec

-----------------------------------------------------------------------------
(* What the documentation and the messages of the code promise, and the    *)
(* code does not keep.                                                     *)

\* A row shows the object that a tap or a deletion at that row acts on.
ListRowIsItsObject ==
    nav = "lists" => \A i \in DOMAIN listsTable.rows :
        listsTable.rows[i].listId = current.lists[i].listId
ItemRowIsItsObject ==
    nav = "items" => \A i \in DOMAIN itemsTable.rows :
        itemsTable.rows[i].oid = ItemResults(current)[i].oid

\* "Could not update to do list item" is printed only when it was not.
FailureMeansFailure == ~({"success", "failure"} \subseteq log)

\* "successfully" is printed only for a transaction that was completed.
SuccessIsDurable == "success" \in log => current = durable

\* A transaction whose commit failed is ended before the next one begins.
FailedCommitIsEnded == proc # "nestedWrite"

=============================================================================
