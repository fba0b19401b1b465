---------------------------- MODULE ToDoListItems ----------------------------
(***************************************************************************)
(* The controller of the screen that shows the items of one to do list.    *)
(* One action per handler; a handler runs to its end on the main thread,   *)
(* so it is one step.  `opens' and `commits' say whether opening the Realm *)
(* and committing the transaction succeed, `t' is the text typed.          *)
(***************************************************************************)
EXTENDS AppDelegate

VARIABLES
    toDoList,       \* listId of the list the screen was pushed for
    toDoListItems,  \* toDoListItems # nil: bound to the filtered Results
    itemsTable,     \* table view and Edit/Done button
    nameField,      \* toDoListNameTextField: text shown, being edited
    nextItem        \* the next oid

screenVars == <<toDoList, toDoListItems, itemsTable, nameField>>

ItemsTypeOK ==
    /\ toDoList \in 0..MaxLists
    /\ toDoListItems \in BOOLEAN
    /\ itemsTable \in Tables(Item)
    /\ nameField \in [text : Names \cup {Empty}, editing : BOOLEAN]
    /\ nextItem \in 1..(MaxItems + 1)

\* The name field when no items screen exists.
NoNameField == [text |-> Empty, editing |-> FALSE]

\* The live results of the filter, and the stored name of the open list.
ItemResults(db) == Filter(db.items, toDoList)
ListStored      == \E k \in 1..Len(current.lists) : current.lists[k].listId = toDoList
ListSlot        == CHOOSE k \in 1..Len(current.lists) : current.lists[k].listId = toDoList
ListName        == current.lists[ListSlot].name

\* The row of the database behind toDoListItems![i].
ItemSlot(i) == NthMatch(current.items, toDoList, i)

\* viewDidLoad, on the push that SelectList began.
ItemsViewDidLoad(opens) ==
    /\ proc = "running" /\ nav = "pushing"
    /\ log' = {}
    /\ IF ListStored
       THEN /\ nav' = "items"
            /\ nameField' = [text |-> ListName, editing |-> FALSE]
            /\ realm' = GetRealm(opens)
            /\ toDoListItems' = GetRealm(opens)
            /\ itemsTable' =
                 IF GetRealm(opens)
                 THEN EnableIfAny(ReloadData(FreshTable, ItemResults(current)),
                                  Len(ItemResults(current)))
                 ELSE FreshTable
            /\ UNCHANGED <<proc, toDoList>>
       ELSE Crash("invalidated") /\ UNCHANGED <<realm, nav, screenVars>>
    /\ UNCHANGED <<inWrite, current, durable, alert, nextItem>>

AddItemTapped ==
    /\ Facing("items")
    /\ nextItem <= MaxItems
    /\ alert' = [NoAlert EXCEPT !.kind = "addItem"]
    /\ log' = {}
    /\ UNCHANGED <<storeVars, nav, proc, screenVars, nextItem>>

\* The alert's text field has taken over from the name field by the time one
\* of the alert's buttons can be tapped.
AlertReady(kind) ==
    proc = "running" /\ alert.kind = kind /\ ~nameField.editing

\* A handler that returns early: it only prints.
ItemsReturn(printed) ==
    log' = printed /\ UNCHANGED <<storeVars, proc, screenVars, nextItem>>

ItemsCrash(fault) ==
    log' = {} /\ Crash(fault) /\ UNCHANGED <<storeVars, screenVars, nextItem>>

\* The handler of "Add".  `success' is set inside the block, before the
\* commit, so a commit that throws still leaves it true.
AddItemConfirmed(t, opens, commits) ==
    /\ AlertReady("addItem")
    /\ alert' = NoAlert
    /\ UNCHANGED nav
    /\ \/ /\ ~Accepts(t) \/ ~GetRealm(opens)
          /\ ItemsReturn(IF Accepts(t) THEN {"noRealm"} ELSE {})
       \/ /\ Accepts(t) /\ GetRealm(opens) /\ inWrite
          /\ ItemsCrash("nestedWrite")
       \/ /\ Accepts(t) /\ GetRealm(opens) /\ ~inWrite
          /\ realm' = TRUE
          /\ Write([current EXCEPT !.items =
                      AddRow(@, [oid |-> nextItem, listId |-> toDoList, name |-> t])],
                   commits)
          /\ nextItem' = nextItem + 1
          /\ toDoListItems' = TRUE
          /\ itemsTable' = [ReloadData(itemsTable, Filter(current'.items, toDoList))
                              EXCEPT !.enabled = TRUE]
          /\ log' = {"success"}
          /\ UNCHANGED <<proc, toDoList, nameField>>

ItemsEditDoneTapped ==
    /\ Facing("items") /\ itemsTable.enabled
    /\ itemsTable' = EditDoneTapped(itemsTable)
    /\ log' = {}
    /\ UNCHANGED <<storeVars, nav, proc, alert, toDoList, toDoListItems, nameField, nextItem>>

\* Mutant: the alert is about the object the row shows.
Captured_Shown(i) == itemsTable.rows[i].oid

\* The object didSelectRowAt hands to the alert: the one the Results has now.
Captured(i) == ItemResults(current)[i].oid

\* didSelectRowAt, which UIKit calls only outside editing mode: the alert
\* keeps the index path and the object that was there.
SelectItem(i) ==
    /\ Facing("items") /\ ~itemsTable.editing
    /\ i \in DOMAIN itemsTable.rows
    /\ log' = {}
    /\ LET fault == RowFault(toDoListItems, Len(ItemResults(current)), i)
       IN  IF fault = "none"
           THEN /\ alert' = [kind |-> "editItem", row |-> i, item |-> Captured(i)]
                /\ UNCHANGED proc
           ELSE Crash(fault) /\ UNCHANGED alert
    /\ UNCHANGED <<storeVars, nav, screenVars, nextItem>>

\* The object the edit alert captured, and the faults of the "Edit" handler in
\* the order it can meet them.
CapturedStored == \E k \in 1..Len(current.items) : current.items[k].oid = alert.item
CapturedName ==
    LET k == CHOOSE k \in 1..Len(current.items) : current.items[k].oid = alert.item
    IN  current.items[k].name
EditFault ==
    IF ~CapturedStored THEN "invalidated"
    ELSE IF inWrite THEN "nestedWrite"
    ELSE RowFault(toDoListItems, Len(ItemResults(current)), alert.row)

\* Mutant: an unchanged text is written all the same.
EditReturns_OnlyBlank(t, opens) ==
    ~Accepts(t) \/ (CapturedStored /\ ~GetRealm(opens))

\* The guards of the handler: blank text, unchanged text, no Realm.
EditReturns(t, opens) ==
    ~Accepts(t) \/ (CapturedStored /\ (t = CapturedName \/ ~GetRealm(opens)))

\* The handler of "Edit": the text is compared with the captured object but
\* written to whatever is at the captured index.  The `return' in the block
\* leaves only the block, so the failure message is printed every time.
EditItemConfirmed(t, opens, commits) ==
    /\ AlertReady("editItem")
    /\ alert' = NoAlert
    /\ UNCHANGED nav
    /\ \/ /\ EditReturns(t, opens)
          /\ ItemsReturn(IF Accepts(t) /\ t # CapturedName THEN {"noRealm"} ELSE {})
       \/ /\ ~EditReturns(t, opens) /\ EditFault # "none"
          /\ ItemsCrash(EditFault)
       \/ /\ ~EditReturns(t, opens) /\ EditFault = "none"
          /\ realm' = TRUE
          /\ Write([current EXCEPT !.items[ItemSlot(alert.row)].name = t], commits)
          /\ itemsTable' = ReloadData(itemsTable, Filter(current'.items, toDoList))
          /\ log' = {"success", "failure"}
          /\ UNCHANGED <<proc, toDoList, toDoListItems, nameField, nextItem>>

\* commit editingStyle: .delete, reached from edit mode or from a swipe.
CommitDeleteItem(i, opens, commits) ==
    LET fault == DeleteFault(toDoListItems, Len(ItemResults(current)), i,
                             Len(itemsTable.rows))
    IN
    /\ Facing("items") /\ itemsTable.editing
    /\ i \in DOMAIN itemsTable.rows
    /\ \/ /\ GetRealm(opens) /\ fault # "none"
          /\ log' = {} /\ Crash(fault)
          /\ UNCHANGED <<storeVars, itemsTable>>
       \/ /\ GetRealm(opens) => fault = "none"
          /\ IF GetRealm(opens)
             THEN /\ realm' = TRUE
                  /\ Write([current EXCEPT !.items = MoveLastOver(@, ItemSlot(i))], commits)
                  /\ itemsTable' = DisableIfNone(EndEditing(DeleteRows(itemsTable, i)),
                                                 Len(Filter(current'.items, toDoList)))
                  /\ log' = {"success"}
             ELSE /\ itemsTable' = EndEditing(itemsTable)
                  /\ log' = {"noRealm"}
                  /\ UNCHANGED storeVars
          /\ UNCHANGED proc
    /\ UNCHANGED <<nav, alert, toDoList, toDoListItems, nameField, nextItem>>

\* cellForRowAt for a row scrolled back into view.
RedrawItemRow(i) ==
    /\ proc = "running" /\ nav = "items"
    /\ i \in DOMAIN itemsTable.rows
    /\ LET results == ItemResults(current)
           fault   == RowFault(toDoListItems, Len(results), i)
       IN  IF fault = "none"
           THEN itemsTable' = RedrawRow(itemsTable, results, i) /\ UNCHANGED proc
           ELSE Crash(fault) /\ UNCHANGED itemsTable
    /\ UNCHANGED <<storeVars, nav, alert, log, toDoList, toDoListItems, nameField, nextItem>>

\* The swipe gesture of UITableView and its end without a deletion.
SwipeItem ==
    /\ Facing("items") /\ ~itemsTable.editing /\ itemsTable.rows # << >>
    /\ itemsTable' = Swiped(itemsTable)
    /\ UNCHANGED <<storeVars, shellVars, toDoList, toDoListItems, nameField, nextItem>>

SwipeItemEnds ==
    /\ proc = "running" /\ nav = "items" /\ SwipeIsOpen(itemsTable)
    /\ itemsTable' = SwipeEnded(itemsTable)
    /\ UNCHANGED <<storeVars, shellVars, toDoList, toDoListItems, nameField, nextItem>>

NameFieldTapped ==
    /\ Facing("items") /\ ~nameField.editing
    /\ nameField' = [nameField EXCEPT !.editing = TRUE]
    /\ UNCHANGED <<storeVars, shellVars, toDoList, toDoListItems, itemsTable, nextItem>>

\* Mutant: the field keeps the text that was refused.
RevertedText_Kept(t) == t

\* What a refused text is replaced by: the stored name.
RevertedText(t) == ListName

\* UIKit ends an edit at any time: on Return, for an alert, or for a pop.
FieldEnds == nameField.editing

\* textFieldDidEndEditing with text t: on Return, when an alert's text field
\* takes over, or when the screen is popped.
TextFieldDidEndEditing(t, opens, commits) ==
    LET reverts == ListStored /\ (~Accepts(t) \/ t = ListName \/ ~GetRealm(opens))
        fault   == IF ListStored THEN WriteFault ELSE "invalidated"
    IN
    /\ proc = "running" /\ FieldEnds
    /\ \/ /\ reverts
          /\ nameField' = [text |-> RevertedText(t), editing |-> FALSE]
          /\ log' = IF Accepts(t) /\ t # ListName THEN {"noRealm"} ELSE {}
          /\ UNCHANGED <<storeVars, proc>>
       \/ /\ ~reverts /\ fault # "none"
          /\ log' = {} /\ Crash(fault)
          /\ UNCHANGED <<storeVars, nameField>>
       \/ /\ ~reverts /\ fault = "none"
          /\ realm' = TRUE
          /\ Write([current EXCEPT !.lists[ListSlot].name = t], commits)
          /\ nameField' = [text |-> current'.lists[ListSlot].name, editing |-> FALSE]
          /\ log' = {"success"}
          /\ UNCHANGED proc
    /\ UNCHANGED <<nav, alert, toDoList, toDoListItems, itemsTable, nextItem>>

\* The navigation bar's back button.
BackTapped ==
    /\ Facing("items")
    /\ nav' = "popping"
    /\ UNCHANGED <<storeVars, proc, alert, log, screenVars, nextItem>>

=============================================================================
