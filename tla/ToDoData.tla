------------------------------ MODULE ToDoData ------------------------------
(***************************************************************************)
(* What the app promises about the data it keeps, apart from any screen:   *)
(* named lists, each with its own named items.  One operation at a time,   *)
(* each all or nothing; deleting a list takes its items with it.           *)
(***************************************************************************)
CONSTANTS ListIds, ItemIds, Names

VARIABLES lists,  \* the lists there are: records [listId, name]
          items   \* the items there are: records [oid, listId, name]

vars == <<lists, items>>

Init == lists = {} /\ items = {}

AddList == \E l \in ListIds, n \in Names :
    /\ \A x \in lists : x.listId # l
    /\ lists' = lists \cup {[listId |-> l, name |-> n]}
    /\ UNCHANGED items

RenameList == \E x \in lists, n \in Names :
    /\ lists' = (lists \ {x}) \cup {[x EXCEPT !.name = n]}
    /\ UNCHANGED items

DeleteList == \E x \in lists :
    /\ lists' = lists \ {x}
    /\ items' = {y \in items : y.listId # x.listId}

AddItem == \E o \in ItemIds, x \in lists, n \in Names :
    /\ \A y \in items : y.oid # o
    /\ items' = items \cup {[oid |-> o, listId |-> x.listId, name |-> n]}
    /\ UNCHANGED lists

EditItem == \E y \in items, n \in Names :
    /\ items' = (items \ {y}) \cup {[y EXCEPT !.name = n]}
    /\ UNCHANGED lists

DeleteItem == \E y \in items :
    /\ items' = items \ {y}
    /\ UNCHANGED lists

Next == AddList \/ RenameList \/ DeleteList \/ AddItem \/ EditItem \/ DeleteItem

Spec == Init /\ [][Next]_vars

=============================================================================
