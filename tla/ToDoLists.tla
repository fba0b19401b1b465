------------------------------ MODULE ToDoLists ------------------------------
(***************************************************************************)
(* The controller of the root screen, the table of all to do lists, which  *)
(* pushes the items screen.                                                *)
(***************************************************************************)
EXTENDS ToDoListItems

VARIABLES
    toDoLists,   \* toDoLists # nil: bound to realm.objects(ToDoList.self)
    listsTable,  \* table view and Edit/Done button
    nextList     \* the next UUID

itemsVars == <<screenVars, nextItem>>
listsVars == <<toDoLists, listsTable, nextList>>

ListsTypeOK ==
    /\ toDoLists \in BOOLEAN
    /\ listsTable \in Tables(List)
    /\ nextList \in 1..(MaxLists + 1)

\* Mutant: a screen that is bound already is not reloaded.
AppearedTable_OnceOnly(opens) ==
    IF toDoLists THEN listsTable
    ELSE IF GetRealm(opens)
    THEN EnableIfAny(ReloadData(listsTable, current.lists), Len(current.lists))
    ELSE listsTable

\* What viewDidAppear does to the table: reload if there is a Realm, enable
\* the button if toDoLists is, or was, bound and not empty.
AppearedTable(opens) ==
    LET reloaded == IF GetRealm(opens) THEN ReloadData(listsTable, current.lists)
                                       ELSE listsTable
    IN  IF toDoLists \/ GetRealm(opens) THEN EnableIfAny(reloaded, Len(current.lists))
                                        ELSE reloaded

\* UIKit calls viewDidAppear at the end of a launch and of a pop.
Appearing == nav \in {"launching", "popping"}

\* viewDidAppear, at launch and when the items screen has been popped, which
\* also ends the life of that screen and of an edit of its name field.
ListsViewDidAppear(opens) ==
    /\ proc = "running" /\ Appearing /\ ~nameField.editing
    /\ nav' = "lists"
    /\ realm' = GetRealm(opens)
    /\ toDoLists' = (toDoLists \/ GetRealm(opens))
    /\ listsTable' = AppearedTable(opens)
    /\ log' = {}
    /\ toDoList' = NoList /\ toDoListItems' = FALSE
    /\ itemsTable' = FreshTable /\ nameField' = NoNameField
    /\ UNCHANGED <<inWrite, current, durable, proc, alert, nextList, nextItem>>

AddListTapped ==
    /\ Facing("lists")
    /\ nextList <= MaxLists
    /\ alert' = [NoAlert EXCEPT !.kind = "addList"]
    /\ log' = {}
    /\ UNCHANGED <<storeVars, nav, proc, listsVars, itemsVars>>

\* Mutant: an id no stored list has, though a deleted one may have had it.
NewListId_Reused ==
    CHOOSE l \in 1..MaxLists : \A k \in DOMAIN current.lists : current.lists[k].listId # l

\* NSUUID().uuidString: an id no list ever had.
NewListId == nextList

\* The handler of "Add": `success' is set before the commit, as for items.
AddListConfirmed(t, opens, commits) ==
    /\ AlertReady("addList")
    /\ alert' = NoAlert
    /\ \/ /\ ~Accepts(t) \/ ~GetRealm(opens)
          /\ log' = IF Accepts(t) THEN {"noRealm"} ELSE {}
          /\ UNCHANGED <<storeVars, proc, listsVars>>
       \/ /\ Accepts(t) /\ GetRealm(opens) /\ inWrite
          /\ log' = {} /\ Crash("nestedWrite")
          /\ UNCHANGED <<storeVars, listsVars>>
       \/ /\ Accepts(t) /\ GetRealm(opens) /\ ~inWrite
          /\ realm' = TRUE
          /\ Write([current EXCEPT !.lists = AddRow(@, [listId |-> NewListId, name |-> t])],
                   commits)
          /\ nextList' = nextList + 1
          /\ toDoLists' = TRUE
          /\ listsTable' = [ReloadData(listsTable, current'.lists) EXCEPT !.enabled = TRUE]
          /\ log' = {"success"}
          /\ UNCHANGED proc
    /\ UNCHANGED <<nav, itemsVars>>

ListsEditDoneTapped ==
    /\ Facing("lists") /\ listsTable.enabled
    /\ listsTable' = EditDoneTapped(listsTable)
    /\ log' = {}
    /\ UNCHANGED <<storeVars, nav, proc, alert, toDoLists, nextList, itemsVars>>

\* didSelectRowAt: push a new items screen for the object at that index.
SelectList(i) ==
    LET fault == RowFault(toDoLists, Len(current.lists), i)
    IN
    /\ Facing("lists") /\ ~listsTable.editing
    /\ i \in DOMAIN listsTable.rows
    /\ log' = {}
    /\ IF fault = "none"
       THEN nav' = "pushing" /\ toDoList' = current.lists[i].listId /\ UNCHANGED proc
       ELSE Crash(fault) /\ UNCHANGED <<nav, toDoList>>
    /\ UNCHANGED <<storeVars, alert, listsVars, toDoListItems, itemsTable, nameField, nextItem>>

\* commit editingStyle: .delete.  The list's items stay in the database.
CommitDeleteList(i, opens, commits) ==
    LET fault == DeleteFault(toDoLists, Len(current.lists), i, Len(listsTable.rows))
    IN
    /\ Facing("lists") /\ listsTable.editing
    /\ i \in DOMAIN listsTable.rows
    /\ \/ /\ GetRealm(opens) /\ fault # "none"
          /\ log' = {} /\ Crash(fault)
          /\ UNCHANGED <<storeVars, listsTable>>
       \/ /\ GetRealm(opens) => fault = "none"
          /\ IF GetRealm(opens)
             THEN /\ realm' = TRUE
                  /\ Write([current EXCEPT !.lists = MoveLastOver(@, i)], commits)
                  /\ listsTable' = DisableIfNone(EndEditing(DeleteRows(listsTable, i)),
                                                 Len(current'.lists))
                  /\ log' = {"success"}
             ELSE /\ listsTable' = EndEditing(listsTable)
                  /\ log' = {"noRealm"}
                  /\ UNCHANGED storeVars
          /\ UNCHANGED proc
    /\ UNCHANGED <<nav, alert, toDoLists, nextList, itemsVars>>

RedrawListRow(i) ==
    LET fault == RowFault(toDoLists, Len(current.lists), i)
    IN
    /\ proc = "running" /\ nav = "lists"
    /\ i \in DOMAIN listsTable.rows
    /\ IF fault = "none"
       THEN listsTable' = RedrawRow(listsTable, current.lists, i) /\ UNCHANGED proc
       ELSE Crash(fault) /\ UNCHANGED listsTable
    /\ UNCHANGED <<storeVars, nav, alert, log, toDoLists, nextList, itemsVars>>

SwipeList ==
    /\ Facing("lists") /\ ~listsTable.editing /\ listsTable.rows # << >>
    /\ listsTable' = Swiped(listsTable)
    /\ UNCHANGED <<storeVars, shellVars, toDoLists, nextList, itemsVars>>

SwipeListEnds ==
    /\ proc = "running" /\ nav = "lists" /\ SwipeIsOpen(listsTable)
    /\ listsTable' = SwipeEnded(listsTable)
    /\ UNCHANGED <<storeVars, shellVars, toDoLists, nextList, itemsVars>>

=============================================================================
