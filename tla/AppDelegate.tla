----------------------------- MODULE AppDelegate -----------------------------
(***************************************************************************)
(* The process: the Realm it opens (AppDelegate.getRealm and the write     *)
(* transactions made through it), which screen the navigation controller   *)
(* shows, the alert on top of it, and how the process ended if it crashed. *)
(*                                                                         *)
(* `durable' is the database file.  `current' is what the opened Realm     *)
(* reads, which differs from the file only while a transaction whose       *)
(* commit failed is still open.                                            *)
(***************************************************************************)
EXTENDS TableScreen

CONSTANTS Names,     \* the texts a user may type, the empty one apart
          Empty,     \* the empty text
          MaxLists,  \* bound on the to do lists ever created
          MaxItems   \* bound on the items ever created

ASSUME NamesAssumption  == Empty \notin Names
ASSUME BoundsAssumption == MaxLists \in Nat /\ MaxItems \in Nat

VARIABLES
    realm,     \* AppDelegate.realm # nil
    inWrite,   \* realm.isInWriteTransaction between two handlers
    current,   \* the objects the opened Realm reads
    durable,   \* the objects in the database file
    nav,       \* the screen, or the transition under way
    proc,      \* "running", or the fault that terminated the process
    alert,     \* the UIAlertController presented, if any
    log        \* the outcomes the last handler printed

storeVars == <<realm, inWrite, current, durable>>
shellVars == <<nav, proc, alert, log>>

NoList  == 0
NoAlert == [kind |-> "none", row |-> 0, item |-> 0]

\* ToDoList and ToDoListItem.  A list's UUID is a number never used before.
\* oid tells item objects apart; Realm knows them by their accessor.
List == [listId : 1..MaxLists, name : Names]
Item == [oid : 1..MaxItems, listId : 1..MaxLists, name : Names]
DB   == [lists : Seq(List), items : Seq(Item)]

Faults  == {"nilUnwrap", "outOfBounds", "rowCount", "invalidated", "nestedWrite"}
Screens == {"launching", "lists", "pushing", "items", "popping"}
Alerts  == [kind : {"none", "addList", "addItem", "editItem"},
            row : Nat, item : 0..MaxItems]

ShellTypeOK ==
    /\ realm \in BOOLEAN /\ inWrite \in BOOLEAN
    /\ current \in DB /\ durable \in DB
    /\ nav \in Screens
    /\ proc \in {"running"} \cup Faults
    /\ alert \in Alerts
    /\ log \subseteq {"success", "failure", "noRealm"}

\* Mutant: blank text is not refused.
Accepts_Blank(t) == TRUE

\* The guard textField.text != "" of every handler that stores a text.
Accepts(t) == t # Empty

\* getRealm(): the cached Realm, or one more attempt to open the file, which
\* may fail (opens = FALSE).
GetRealm(opens) == realm \/ opens

\* The user can act on screen s: it is on top and no alert covers it.
Facing(s) == proc = "running" /\ nav = s /\ alert = NoAlert

\* A Swift trap or an Objective-C exception nobody catches.
Crash(fault) == proc' = fault

\* Mutant: the file takes the changes although the commit reports an error.
Write_AlwaysStored(db, commits) ==
    /\ current' = db
    /\ durable' = db
    /\ inWrite' = ~commits

\* realm.write when no transaction is open: the block turns the objects into
\* db and the commit either reaches the file, or throws and leaves the
\* transaction open (write does not cancel it).
Write(db, commits) ==
    /\ current' = db
    /\ durable' = IF commits THEN db ELSE durable
    /\ inWrite' = ~commits

\* What results![i] and the write after it run into, the first fault that
\* applies: results is nil, i is past its end, a transaction is still open.
WriteFault == IF inWrite THEN "nestedWrite" ELSE "none"
RowFault(bound, n, i) ==
    IF ~bound THEN "nilUnwrap" ELSE IF i > n THEN "outOfBounds" ELSE "none"

\* The same for a commit handler, with UIKit's check in deleteRows that the
\* data source, now at n - 1, has one row less than the table showed.
DeleteFault(bound, n, i, shown) ==
    IF RowFault(bound, n, i) # "none" THEN RowFault(bound, n, i)
    ELSE IF inWrite THEN "nestedWrite"
    ELSE IF n # shown THEN "rowCount" ELSE "none"

\* The cancel action of every alert.
AlertCancelled ==
    /\ proc = "running" /\ alert # NoAlert
    /\ alert' = NoAlert
    /\ log' = {}
    /\ UNCHANGED <<storeVars, nav, proc>>

=============================================================================
