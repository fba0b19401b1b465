# To Do List: a TLA+ model

This directory specifies the To Do List iOS app (Swift 4, Realm database, UIKit)
whose source is under `To Do List Realm/To Do List Realm/`, and the parts of the
Realm library in its `Pods/` that have behaviour of their own: sync sessions, sync
files, and collection notifications from the transaction log to the block that is
called. TLC checks the modules on small instances; TLAPS proves the safety of the app and of
the sync and notification modules for every value of their constants. Paths are relative to the
repository; `ObjectStore/` stands for
`To Do List Realm/Pods/Realm/Realm/ObjectStore/src/`.

## 1. The system

### Parts, their state and their operations

| part | state | operations |
|---|---|---|
| `AppDelegate.swift` | the cached `realm` | launch; `getRealm`, which opens the file again on every call until it succeeds once |
| `ToDoLists.swift`, the root screen | `toDoLists: Results?`, the table view's cells and editing mode, title and state of the Edit/Done button | `viewDidLoad`, `viewDidAppear`, add (button, alert, handler), Edit/Done, select, delete, draw a cell |
| `ToDoListItems.swift`, the items screen | `toDoList`, `toDoListItems: Results?`, the same table state, the text field with the list's name | `viewDidLoad`, add, edit (select, alert, handler), delete, draw a cell, end of the name field's editing |
| `ToDoList.swift`, `ToDoListItem.swift` | `listId` (a UUID), `name`; `listId`, `name` | none; `listItems` is declared and never used |
| `Pods/RealmSwift`, `Pods/Realm` (vendored) | the file, the open transaction, the row order of each table | `write`, `add`, `delete`, `objects`, `filter` |
| `ObjectStore/sync/`: `SyncSession`, `SyncManager`, `SyncUser` | a session's state, its `sync::Session`, queued completion callbacks, deferred close and commit; the registry of sessions; the user and its sessions | get, drop and revive a session, log in and out, tokens, errors, waits, commits |
| `ObjectStore/sync/`: file actions and metadata | Realm files, recovery copies, recorded actions and users, all on disk | launch, client reset, log-in and log-out, removal of a user's directory |
| `ObjectStore/impl/collection_notifier`: callbacks | the callbacks of a collection, the index and count of the delivery loop | add, remove, suppress, accumulate, package, deliver, report an error |
| `ObjectStore/impl/realm_coordinator`, `shared_realm`, `results_notifier` | versions, notifiers old and new, packages, table views handed over | the worker's rounds; begin, commit, cancel, refresh, invalidate, notify |
| `ObjectStore/index_set`, `impl/collection_change_builder` | sets of indexes as ranges in chunks; deletions, insertions, modifications, moves | one per instruction of the log, merge, diff |
| `ObjectStore/impl/transact_log_handler`, `list_notifier`, `results_notifier`, `DeepChangeChecker` | change infos per version, observed lists, the rows a query last had, rows known as unmodified | parse, combine, run, look for modified rows behind links |
| UIKit (external) | navigation, alerts, first responder, cells | calls the handlers |
| UI tests | none | drive the app; their assertions are where some properties come from |

### How they interact

Everything runs on the main thread, so one handler is one step. Handlers of the two
screens and of the alerts interleave as the user acts and as UIKit calls back. They
share the one Realm: a `Results` is live, so every write changes what both screens
read, while the cells are copies that change only when the code reloads, removes or
redraws them. An alert keeps an index path and an object from the time it was
presented until a button is tapped. The end of the name field's editing is a
handler of its own that UIKit calls while an alert is being presented or the screen
is being popped. `realm.write` runs a block and then commits; the block has
already changed the screen when the commit fails.

Below the app, three threads meet. The main thread owns the Realm and its blocks; the
notification worker follows the log and shares the notifiers with it under
`m_notifier_mutex`, and a collection's callbacks under `m_callback_mutex`, neither of
which is held while user code runs; other processes commit to the same file and write
to a named pipe. A commit also reaches the sync session of the Realm, which is shared by
the main thread, the thread of the sync client and the binding that fetches tokens; its
lock is released between a decision and what follows from it. The app itself neither
observes collections nor uses sync: these modules are about the library as the app
ships it.

### What is hard here

* cells are moved by hand while a deletion in Realm moves the *last* row into the
  freed one: row *i* of the screen and object *i* of the results drift apart;
* a commit may fail after the block reported success, and leaves the transaction
  open, so the app reads objects that are not in the file;
* the Realm may fail to open and open later, with screens already up;
* the process may be killed, or crash, between any two handlers;
* state captured when an alert is presented is used after other handlers ran;
* editing mode is entered and left in four ways while rows come and go;
* a session is revived, referenced, closed and unregistered in separate critical
  sections;
* the process dies within a client reset, whose steps are repeated at the next launch;
* callbacks change the list of callbacks while a loop over it runs;
* notifiers are added, skipped, dropped and moved to new versions while a round of the
  worker is under way, and packages are delivered later than they were made;
* change sets describe lists by indexes, which every instruction and every merge
  shifts, and are stored in chunks that are split and skipped.

`PROJECT.json` lists these hazards at the lines where they bite, with the properties
about each.

### What makes each part correct

* root and items screen: as many rows as objects (`RowCountsMatch`), a usable
  Edit/Done button (`EditButtonCoherent`), rows that show what a tap acts on except
  after the one kind of deletion that breaks it (`...DivergeOnlyByDelete`);
* items screen: the edit reaches the item the alert was about
  (`EditHitsCapturedItem`), only the open list's items are shown (`ShowsOwnItems`),
  the name field shows the stored name (`NameFieldShowsStored`);
* the Realm: reads are the file unless a commit failed (`ReadsAreDurable`), no
  object is stored twice or lost but by its own deletion (`ObjectsKept`), the file changes by whole operations only
  (`ImplementsToDoData`), a crash has one possible cause
  (`CrashOnlyAfterLostCommit`);
* sync session: a client session in step with the state (`ClientSessionMatchesState`),
  that knows the commits (`ActiveKnowsCommits`), stops only uploaded
  (`DiesOnlyUploaded`) and does stop (`DyingEnds`); a completion callback called once
  (`WaitersCalledOnce`) and in the end (`WaitersAnswered`);
* sync files: no copy lost (`BackedUpOrThere`), no successor deleted
  (`ActionsHitTheirIncarnation`), the right users back (`UsersRestored`);
* callbacks: each delivery visits the callbacks it was packaged for once and in order
  (`ImplementsRounds`), loses no change (`ChangesNeverLost`), calls nobody after an
  error (`NoCallAfterError`), and the worker knows whether anyone listens
  (`HaveCallbacksExact`);
* worker: main thread and worker agree on versions (`VersionsMeet`), a block hears of
  each transaction (`NothingMissed`) once (`NothingExtra`) and in the end
  (`BlocksAreTold`), and nobody waits for ever (`WaitsEnd`);
* change sets: applied to what the block saw they give what it sees
  (`ReportIsRight`), mark exactly what was modified (`ModificationsAreExact`,
  `ModifiedRowsAreMarked`, `DeepChangesAreExact`), follow rows and lists by index
  (`RowsAreTracked`, `ListsFollowOwners`), and are stored as they should be
  (`RepresentsSet`, `AnswersAreRight`).

## 2. Modules

| module | models |
|---|---|
| `RealmTable` | the Realm table operations the app uses, as pure operators: append, move-last-over, query results in row order; `UITableView.deleteRows` on cells |
| `TableScreen` | a table view with its Edit/Done button, as a record, and what the controllers do to it |
| `AppDelegate` | the process: Realm, file, pending transaction, navigation, alert, fault |
| `ToDoListItems` | the items screen, one action per handler; extends `AppDelegate` |
| `ToDoLists` | the root screen; extends `ToDoListItems`, whose screen it pushes |
| `ToDoApp` | the composition: `Init`, relaunch, `Next`, all properties |
| `ToDoData` | the abstract specification: sets of lists and items, one whole operation per step |
| `SyncSession` | one sync session with manager, user, binding, client and committing threads |
| `SyncFiles` | the sync subsystem's disk state and `configure_file_system`, step by step, with deaths of the process |
| `CallbackRounds` | abstract: what a delivery promises to callbacks |
| `CollectionCallbacks` | `m_callbacks` and the delivery loop, with adds and removals from user code and other threads |
| `RealmNotifications` | the main thread, the worker and another process, with any number of notifiers |
| `ChangeBuilder` | `IndexSet` as a set and `CollectionChangeBuilder`, as pure operators |
| `ListChanges` | a list's instructions, `ListNotifier`, accumulation for a callback |
| `TableChanges` | `TransactLogObserver` and `IncrementalChangeInfo` for one table and the lists its rows own |
| `ResultsDiff`, `ResultsChanges` | `calculate`, sorted and unsorted; the notifier of a query on the table of `TableChanges` |
| `ChunkedRanges` | `IndexSet` as stored, against the set operations of `ChangeBuilder` |
| `DeepChanges` | `DeepChangeChecker` on arbitrary links |
| `MCToDoApp`, `MCSyncFiles`, `MCRealmNotifications`, `MCDeepChanges` | instances for TLC |
| `ToDoAppProofs` | proofs: the table operators, the app's invariants, its screens and the refinement of `ToDoData` |
| `SyncFilesProofs`, `SyncSessionProofs`, `CollectionCallbacksProofs`, `RealmNotificationsProofs`, `ListChangesProofs`, `TableChangesProofs`, `DeepChangesProofs` | proofs of these components |

### From code to model

* An action has the name of its handler. Inputs are parameters: `t`, the text in the
  field; `opens`, whether opening the Realm succeeds if it is tried now; `commits`,
  whether the commit of the transaction succeeds. All three are chosen
  nondeterministically.
* `durable` is the file, `current` what the opened Realm reads. `Write` is
  `Realm.write` (`Realm.swift:152-161`): the block takes effect in `current`; a
  successful commit copies it to `durable`, a failed one leaves `inWrite` true, as
  `write` cancels only when the block throws.
* A crash (Swift trap or Objective-C exception) is a value of `proc` that says which
  fault it was; afterwards only `Relaunch` is possible. Every `results![row]`, every
  write and every `deleteRows` is guarded in the model by the fault it can meet, in
  the order the handler meets them (`RowFault`, `WriteFault`, `DeleteFault`,
  `EditFault`), so that "this never traps" is a property and not an assumption.
* `toDoLists` and `toDoListItems` are Booleans, "is bound": a bound `Results` is
  live, so its value is always the query over `current`.
* `listsTable.rows` and `itemsTable.rows` are the objects the cells show.
  `RedrawListRow` and `RedrawItemRow` are `cellForRowAt` for a row that scrolls
  back into view, which may happen at any time.
* `log` holds the kind of messages the last handler printed: success, failure, no
  Realm. Wording, colours, alpha and animation are left out.
* A UUID is the number of the list in order of creation (`nextList`), since
  `NSUUID` never repeats. Items have no key in the code; `oid` tells their objects
  apart.
* `Accepts` is the only thing the handlers ask of a text besides equality, so a name
  is a member of `Names` or `Empty`.

In the modules of the library:

* `SyncSession`: a step is a critical section of the code. `s` is the session object, one
  field per member; the stages of a call that spans several sections are variables of
  their own (`opening` for `get_session`, `drops` and `unregs` for pending drops and
  unregistrations, `reviving` and `leaving` for log-in and log-out, `err` for an error
  being handled, `asking` for a binding that is to be asked for a token once the lock is
  released). `SyncManager::reconnect` alone asks in one step, with `m_session_mutex` held
  over both. A `weak_ptr` can be locked as long as one of the holders in `Held` is there;
  user code that holds the session for the time of a call is not one of them. The sync client is external: it answers waits of a `sync::Session`
  once, or never if the session is destroyed first, and uploads what was announced.
* `SyncFiles`: a metadata transaction or a file operation is a step; `Die` may come
  between any two, and while a file action is handled other threads log in and out, open
  Realms and record further actions (`Serving`). A log-in has three steps, the last of
  them `set_is_admin`; a user's directory goes one Realm at a time. One action is handled at
  a time, `perform_metadata_update` is one step, and an error that `remove_realm` throws is
  a death of the process at that point. A file deleted and downloaded again is a new incarnation, so that
  "the right file was deleted" can be said. `owed`, `reopened` and `last` are history.
* `CollectionCallbacks`: a step is a section under `m_callback_mutex`; `calling` is the
  callback whose code runs. `index` and `count` wrap around at `Npos` as `size_t` does.
  `LateRemoval = FALSE` restricts user code not to remove a callback in the delivery in
  which it was added (see disagreement 17).
* `RealmNotifications`: a change set is the set of versions it describes, so "missed"
  and "twice" can be said; every transaction changes every collection. `use` is the kind
  of application, constant in a behaviour: what it calls and what may fail. `place`,
  `ver`, `pend`, `hand` ... are a notifier's members, `acc`, `out`, `skip` its block's.
  `missed`, `extra` and `fault` are history. Another process commits at any time the
  main thread does not hold the write lock, which `promote_to_write` takes before it waits
  for the worker.
  Auto-refresh is on, as it is by default on the main thread, and the `changes_available`
  callback of a binding that turned it off is left out.
* `ListChanges`, `TableChanges`, `ResultsChanges`: an instruction of the log is a step.
  Slots and rows have identities only the model sees, with which a report is judged.
  `ChangeBuilder` translates the builder operator by operator; moves are a sequence, as
  their order matters to `merge`, and the map `m_move_mapping` is a function. Indexes
  start at 0 as in the code.
* `ChunkedRanges`: chunks hold `MaxSize` ranges, 4 in debug builds and 256 in release
  builds; 2 makes every chunk split and join. `ideal` is the set that the calls so far
  describe.
* `DeepChanges`: `Init` chooses the links and any set of modified rows, `Ask` is one question to a checker that
  remembers what earlier questions found.

### What is assumed of UIKit

UIKit is not in the repository; it is modelled from how the controllers use it.

* The user acts on the screen on top, and on none while an alert covers it or a
  transition runs (`Facing`).
* A row can be selected only outside editing mode (the xib files leave selection
  during editing off).
* A swipe over a row puts the table in editing mode without touching the button; it
  ends in a deletion or by being dismissed.
* An alert with a text field takes the keyboard from the name field before one of
  the alert's buttons can be tapped (`AlertReady`), and a pop ends its editing before
  the root screen's `viewDidAppear`.
* `deleteRows` raises if the data source did not lose exactly one row.

And of Realm: objects of a transaction whose commit failed stay readable, and are not
in the file after a restart.

## 3. Runs

| run | instance | shows |
|---|---|---|
| `lists` | 3 lists, 1 item | row counts, crashes, button, divergence of the root screen, refinement of `ToDoData` |
| `items` | 2 lists, 3 items | types, reads, edit target, own items, name field, divergence of the items screen, objects stored once and kept |
| `item_row_object` | the smallest that shows it | disagreement 1 below |
| `sync_session` | 1 completion callback, 2 stop policies, 2 opens, 1 error, 1 commit, `FairSpec` | the session's safety, and that it ends and answers |
| `sync_files` | 2 Realms, 2 users, 2 recovery names; 2 each of incarnations, errors, crashes, failed copies, log-outs | nothing lost, no successor deleted, users restored |
| `callbacks` | 4 callbacks, 1 change at a time | refinement of `CallbackRounds`, changes, flag, errors |
| `notifications` | three applications, `FairSpec` | versions, nothing missed or told twice, wake-ups, waits |
| `list_changes` | lists of 4, 4 instructions between calls of the block | reports of lists |
| `table_changes` | 4 rows, 4 instructions, 2 starting versions, 2 observed lists | rows, marks and lists followed through the log |
| `results_changes` | 4 rows (3 if sorted), 3 instructions | reports of queries |
| `index_set` | chunks of 2 ranges, indexes below 8, arguments of up to 3 indexes | storage of index sets |
| `deep_changes` | 5 rows in 2 tables, one linked to itself, and in 3 tables in a circle | modification through links, for every set of modified rows |

**Bounds.** In the app, `MaxLists` and `MaxItems` bound the objects *ever created* in a
behaviour, over any number of relaunches; names are two model values and the empty text.
Three rows are the smallest table in which a deletion reorders. Two lists with three
items give every mixture of an open list's items with another's, in particular a moved
row of the other list, and with `Relaunch` the items of a deleted list.

A second open of a session is the one that can meet a dying or inactive session, and
each error kind is tried at every point; the third policy, which never closes a session,
was checked once. There is one committing thread (disagreement 12).
Two crashes let a client reset be cut short, repeated and cut short again; a third, with
one Realm, was checked once and adds nothing. The second recovery name makes "another
file has this name" possible. With four callbacks one can be added and two removed on
both sides of the one that runs. Three versions of the file let a notification be under
way while the next commit arrives and a third is skipped; two notifiers suffice for one
that is old and one that is new, and these are the only roles. Four slots and
instructions include every pair of operations followed by a merge of the rest. Chunks of
two ranges split at the third, and eight indexes fill two of them. Paths in
`deep_changes` have up to five rows, one more than the limit of four.

Symmetry is not used, as most runs check action or temporal properties. Deadlock checking
is off where the bounds end a behaviour (`sync_session`, `sync_files`, `index_set`,
`deep_changes`); `Relaunch` in the app, and the loops of worker, callbacks and change
sets, always go on.

**Fairness.** Nothing is assumed of UIKit or the user: the app has safety properties only,
as what ends a transition is UIKit's.

In `SyncSession` a thread that is between two critical sections of one call goes on
(`OpeningThread`, `LogInThread`), the sync client's one thread runs (`EventLoop`), a
commit's notice arrives, and the binding's pending request is answered. No open, drop, log-in, error or commit is fair.

In `RealmNotifications` the worker runs when there is work (a dedicated thread blocked on
the pipe), calls that wait for it continue, a transaction is ended by a commit or cancel,
and another process that has committed writes to the pipe (`notify_others` follows the
commit). The main run loop comes round to the signalled source between the application's
calls; as calls may intervene each time this is strong fairness of `Notify`.

**Refinement.** `ImplementsToDoData` maps the file to `ToDoData`: its lists, and the
items that belong to one of them. Items of a deleted list stay in the file and are mapped
away. This is sound only because they can never come back, which the refinement itself
checks: a reused list id would make items appear in an addition of a list.
`ImplementsRounds` maps the callbacks, index and count of `CollectionCallbacks` to the
packaged callbacks that are still there and those the round has yet to visit; the order of
registration is that of the tokens, which `m_next_token` hands out in ascending order.

**Exceptions in properties.** Where the code does not keep a promise in one situation the
property names it: `UsersRestored` counts a log-out that a late `set_is_admin` undid as
not done; `ActionsHitTheirIncarnation` excepts a Realm opened anew while its deletion was
handled; `ListsFollowOwners` a list that `erase_rows` skipped; `NothingMissed` excludes applications that invalidate, that leave
results unused, or that suppress and have commits fail; `NothingExtra` those that
suppress, or leave results unused;
`WaitsEnd` and `BlocksAreTold` a worker that failed to open the file; `BackedUpOrThere`
the directory of a user who logged out; `ActiveKnowsCommits` a commit that met a dying
session; `DyingEnds` an expired token; `ModifiedRowsAreMarked` notifiers without move
information that start before the last version; `RepresentsSet` merges that exceeded
the builder's chunks. Each is one of the disagreements that follow.

### Disagreements between the code and what it says

Number 1 has a run. The others were found with TLC in the same way: check the
definition named, or the property without its exception, with the constants given. The
definitions are at the end of their modules.

The app (`Spec`, 1 list, 1 item unless said otherwise):

1. `ToDoLists.swift:183`, `ToDoListItems.swift:248`: after deleting a row with two or
   more behind it, the rows show other objects than a tap or deletion acts on. Realm
   documents that a deletion moves the last row into the freed slot
   (`table.hpp:370-372`). `ListsDivergeOnlyByDelete` and `ItemsDivergeOnlyByDelete` show
   that this is the only way, and that any later reload repairs it
   (`ItemRowIsItsObject`; `ListRowIsItsObject` with 3 lists).
2. `ToDoListItems.swift:207`: a successful edit also prints the failure message; the
   `return` at line 202 leaves only the block (`FailureMeansFailure`).
3. `ToDoLists.swift:105` (and the other writes): success is recorded before the commit,
   so a failed commit is reported as a success (`SuccessIsDurable`).
4. `ToDoLists.swift:110` with `Realm.swift:160`: nobody ends the transaction whose commit
   failed, and the next write crashes (`FailedCommitIsEnded`).
   `CrashOnlyAfterLostCommit` shows that this is the only crash of the handlers.

`SyncSession` (policy Immediately, 2 opens, no waiters, errors or commits unless said):

5. `sync_session.cpp:580`: an error moves the session to Inactive under a second lock and
   may find it there, against `REALM_ASSERT(&state != m_state)` (`AdvanceChangesState`,
   1 error).
6. `sync_manager.cpp:481`: two unregistrations of a session may be outstanding, and the
   second finds no entry, against the assertion there (`UnregisterFindsSession`).
7. `sync_manager.cpp:461`: `get_session` revives and then references; if the last other
   reference goes in between, the caller gets a session that is being closed, against
   `sync_session.hpp:180-181` (`ReferencedSessionLives`).
8. `sync_user.cpp:224`: sessions are revived after the user's lock was released, so a
   log-out in between leaves a session open, against `sync_user.hpp:92`
   (`LogOutClosesSessions`).
9. `sync_user.cpp:165`: `log_out` calls its sessions with the user's lock held and waits
   for `m_session_mutex`, which `get_session` holds while it waits for the user's lock
   (`UserLockNotHeldInSessions`).
10. `sync_session.hpp:79-81` promises that a completion handler is called unless a
    logged-out session is never logged in again; it is not when the binding gives up on
    the token or the session is destroyed (`WaitersAlwaysCalled`, 1 waiter, 1 error,
    `FairSpec`).
11. `sync_user.cpp:147`: a log-in may revive a session whose last reference is gone, and
    nobody closes it, against `sync_manager.hpp:48` (`UnreferencedSessionStops`).
12. `sync_session.cpp:198`: of two threads that commit, the earlier may notify last, and
    the deferred version is the earlier one (`ActiveKnowsCommits` with 2 commits,
    2 writers, 1 error).

`SyncFiles`:

13. `sync_user.cpp:191`: a log-in writes `is_admin` after `get_user` has returned and
    outside the user's lock, with a row that it unmarks or makes anew (`RLMSyncUser.mm:510`);
    a log-out by another thread in between is undone, and the user is back at the next
    launch (`UsersRestored`, with `last` unchanged in `SetIsAdmin`).
14. `sync_manager.cpp:154-166`: nothing is locked while an action is handled; a Realm
    opened anew between the removal of its file (line 174) and the removal of a
    `DeleteRealm` action (line 161) is deleted at the next launch if the process dies in
    between (`ActionsHitTheirIncarnation` without its last disjunct). An error of the new
    Realm that comes in between overwrites the row, and its action is removed instead.
15. `sync_manager.cpp:184`: a reset cut short while copying leaves the recovery file, and
    is refused for that at every later launch, against `RLMSyncUtil.h:96-98` (the action
    stays recorded and `BackUpRefused` is its only step).
16. `sync_manager.cpp:132`: a copy fails, the user logs out, and the next launch removes
    the directory with the only copy, against `RLMSyncUtil.h:82-84` (`BackedUpOrThere`
    without its last disjunct).

`CollectionCallbacks` (`LateRemoval = TRUE`):

17. `collection_notifier.cpp:214`: removing a callback that was added during the delivery
    decrements the count of packaged ones, so the last of them is not called, or the
    count wraps around and the loop runs past the end (`CountIsStillPackaged`,
    `CountWithinCallbacks`, against `collection_notifier.hpp:240-241` and the assertion
    at line 376).

`RealmNotifications`:

18. `results_notifier.cpp:194`: a round that is under way clears the request not to be
    notified, against `RLMRealm.h:266-267` (`NothingExtra`, an application that
    suppresses, 4 versions).
19. `RLMRealm.mm:599`: the request stays when the commit throws, and a later transaction
    is not notified (`NothingMissed`, suppresses and commits fail).
20. `results_notifier.cpp:103`: results that nobody used are not updated, and the first
    change set of a new block starts from rows older than its initial notification,
    against `RLMResults.h:204-206` (`NothingExtra`, idles, 3 calls).
21. `results_notifier.cpp:103` with `realm_coordinator.cpp:788`: a block added to such
    results between the worker's run and its handover has its initial notification before
    the changes are found; when the Realm's own commit and then another process's follow,
    the package that holds them is out of date and is dropped, against
    `RLMResults.h:204-206` and the comment that this happens only after `begin_read`
    (`NothingMissed` without `use.idles`, idles, 5 versions, 3 calls). The proof of
    `NoneMissed` led to it.
22. `realm_coordinator.cpp:788`: after `invalidate` a package is out of date and is
    dropped with the changes in it (`NothingMissed`, invalidates).
23. `realm_coordinator.cpp:634`: the worker fails to open the file after `refresh` or
    `begin_transaction` began to wait for it, and returns without waking them
    (`WaitsEnd` without `failed`, open fails).

Change sets:

24. `list_notifier.cpp:79`: a list whose owner is deleted after insertions in the same
    pass reports insertions into a list that is empty (`DeletedListIsEmptied`).
25. `collection_change_builder.cpp:132`: without move information, marks of an earlier
    version do not follow rows that move later (`ModifiedRowsAreMarked` without its
    exception, 3 rows).
26. `transact_log_handler.cpp:578`: `erase_rows` puts the last observed list in place of
    the erased one and does not look at it (`NoListIsSkipped`, `MaxLists = 2`), so that it
    keeps an index that is no longer its owner's; and it
    thereby breaks the order by which `find_list` takes the last one (`LastListIsFound`,
    `MaxLists = 3`).
27. `transact_log_handler.cpp:639`: a cleared table is recorded as 2^64-1 deletions, which
    `merge` visits one by one (`MergeVisitsRows`, 2 starting versions).
28. `collection_change_builder.cpp:700`: `find_longest_matches` compares an index into one
    sequence with the end of the other, so that rows that match are deleted and inserted
    (`NothingMovedInVain`, `MaxRows = MaxSorted = 7`, no instruction).
29. `index_set.cpp:244`: a chunk beyond those the builder allocated counts a range of any
    length as one index (`RepresentsSet` without `exceeded`).
30. `index_set.cpp:300`: `count` from a start within a chunk forgets the part of the next
    chunk's first range (`CountsAreRight`).
31. `collection_notifier.cpp:47`: links of a table to itself are not followed if it links
    to no other table, against `RLMCollection.h:381-383` (`LinkedChangesAreSeen`,
    `Layouts <- Own`).

## 4. Proofs

Every theorem holds for every value of its module's constants. The assumptions are in
the modules that declare them: in the app, that `Empty` is not a name and the bounds are
naturals; in `SyncSession`, that the completion callbacks are finitely many, the bounds
are naturals and `MaxOpens >= 1` (the call that creates the session is one of them); in
`SyncFiles`, that every Realm belongs to a user (`Owner \in [Realms -> Users]`), `NoOne`
is neither a Realm, a user nor a name and the bounds are naturals; in
`CollectionCallbacks`, that a `size_t` can count the callbacks (`Npos > MaxTokens + 1`); in
`RealmNotifications`, that `Uses` are kinds of applications over the notifiers and that the
file has at least one version; in `ListChanges`, that the bounds are naturals and a list is
shorter than `npos`, which `clear` takes for "all rows"; in `TableChanges`, that the bounds are
naturals and a table has at most `npos` rows; in `DeepChanges`, that `Depth` is positive and `Layouts` are sets
of links between tables.

Some theorems have a hypothesis. The code breaks the property without it for sessions
(`CommitsKnown`, disagreement 12), callbacks (`NothingLost`, `RoundsImplemented`, 17) and
tables that link only to themselves (`DeepExact`, 31). `ActionsHit` and
`TableListsFollow` state their exceptions in the property (14 and 26). That of `TableMarksRight` leaves the merge of several versions with
move information to TLC, which finds no violation there.

| module | theorem | says |
|---|---|---|
| `ToDoAppProofs` | `DeleteMatchesTableView` | for distinct objects, `MoveLastOver(s, i) = RemoveRow(s, i)` exactly if `i >= Len(s) - 1` |
| | `LateDeleteMatchesTableView` | deleting one of the last two objects of a query's Results shows as the removal of its row |
| | `Invariance` | `[]IInv` |
| | `TypeCorrect` | `[]TypeOK` |
| | `RowsAlwaysMatch` | `[]RowCountsMatch` |
| | `OnlyNestedWriteCrashes` | `[]CrashOnlyAfterLostCommit` |
| | `ReadsMatchFile` | `[]ReadsAreDurable` |
| | `EditHitsItsItem` | `[]EditHitsCapturedItem` |
| | `NothingLost` | `ObjectsKept`: no object stored twice, and each kept until its own deletion |
| | `ButtonsCoherent` | `[]EditButtonCoherent` |
| | `OnlyOwnItems` | `[]ShowsOwnItems` |
| | `NameFieldTruthful` | `[]NameFieldShowsStored` |
| | `ListsDiverge`, `ItemsDiverge` | the action properties `ListsDivergeOnlyByDelete`, `ItemsDivergeOnlyByDelete` |
| | `Refinement` | `ImplementsToDoData`: the app implements `ToDoData` |
| `SyncFilesProofs` | `TypesOK` | `[]TypeOK` |
| | `LoginsRestored` | `[]UsersRestored` |
| | `ActionsHit`, `NeverLost` | the action properties `ActionsHitTheirIncarnation`, `BackedUpOrThere` |
| `SyncSessionProofs` | `TypesOK` | `[]TypeOK` |
| | `ClientSessionFits` | `[]ClientSessionMatchesState` |
| | `DeathsUploaded`, `WaitersOnce` | the action properties `DiesOnlyUploaded`, `WaitersCalledOnce` |
| | `CommitsKnown` | `[]ActiveKnowsCommits`, if `MaxWriters <= 1` |
| `CollectionCallbacksProofs` | `HaveExact` | `[]HaveCallbacksExact` |
| | `NoneAfterError` | the action property `NoCallAfterError` |
| | `NothingLost` | `[]ChangesNeverLost`, if `~LateRemoval` |
| | `RoundsImplemented` | `ImplementsRounds`: the loop implements `CallbackRounds`, if `~LateRemoval` |
| `RealmNotificationsProofs` | `TypesOK` | `[]TypeOK` |
| | `MeetAtOneVersion` | `[]VersionsMeet` |
| | `NoneMissed` | `[]NothingMissed` |
| | `NoneExtra` | `[]NothingExtra` |
| `ListChangesProofs` | `ListReportRight` | `[]ReportIsRight` |
| `TableChangesProofs` | `TableRowsTracked` | `[]RowsAreTracked` |
| | `TableMarksRight` | `[]ModifiedRowsAreMarked`, if `MaxSpans = 1` or `~moveInfo` |
| | `TableListsFollow` | `[]ListsFollowOwners` |
| `DeepChangesProofs` | `DeepExact` | `[]DeepChangesAreExact`, if no collection's table links to itself alone |

### The app

`IInv` of `ToDoAppProofs` adds to the properties three conjuncts they are not inductive
without.

* `RowCountsMatch` survives a deletion on the items screen because the query
  loses exactly one match even when the row moved is another match
  (`DeleteShrinksMatches`); it also needs to know that there is no items table while
  no items screen exists (`ScreensCoherent`).
* `EditHitsCapturedItem` survives because while the edit alert is up only the name
  field can write, and that leaves the items alone. An edit needs the Results the
  alert was opened from (`ScreensCoherent`) and that an object has one row
  (`StoredOnce`), so that the name compared is the name overwritten and the write
  changes something.
* That every write changes something is what `ReadsAreDurable` needs: an edit or
  rename to the same text would leave a transaction open with nothing in it.
* No handler meets a deleted object because the open list is stored
  (`OpenListStored`): while the items screen is up nothing deletes lists.
* `OnlyNestedWrites` remembers that a crashed process had a pending transaction; with
  `ReadsAreDurable` it gives `CrashOnlyAfterLostCommit`.

`ToDoAppProofs` proceeds bottom up: what each write block makes of a database
(`AddListDB` ... `EditItemDB`), that table operators keep types and row counts, two
lemmas for the two kinds of step (`QuietInv` for a step that writes nothing,
`WriteInv` for one that does), one lemma per handler, then `InitInv`, `NextInv` and
the theorems. It begins with the facts about tables: the ranks of the
matching rows are exactly 1 to their number (`RankOnto`), so `NthMatch` and
`Filter` are what their names say.

The theorems about the screens build on `IInv`. The three invariants about the screens are
inductive together with `RealmOpen`: a screen that shows anything has opened the Realm,
so the branch of a handler that leaves the screen as it was for want of a Realm is never
taken with rows on it. The two action properties take one step that makes rows and objects
differ and show, handler by handler, that it is a deletion with two or more rows
behind it; that any other deletion keeps them equal is `DeleteMatchesTableView` for the
table and `LateDeleteMatchesTableView` for the query.

The refinement of `ToDoData` first says what any step does to the file (`FileSteps`): nothing, or one
of the six write blocks. The mapping hides items whose list is gone, so a step that adds a
list must not bring any back; the invariant `OldOwners`, that every owner of a stored item
was created before, is what the simulation needs beyond `IInv`.

### Sync files

`Phases` says what the phases of a launch have in common: where `configure_file_system`
stands determines which of its local variables mean anything. `UsersInv` ties the rows of
the metadata Realm to the log-ins and log-outs that are half done, `ActionsInv` each
recorded action to the incarnation of the Realm it was recorded for, to what the copy
under way has reached and (`Taken`) to recovery names that are in use. The conjunction is
inductive, and each action property is one step from it: the action that deletes finds
the incarnation it was recorded for, and one whose copy exists or that nobody owes.

### Sync sessions

A lemma (`Shapes`) reduces the twenty-odd handlers to a few shapes of step: a locked step
that only moves the session between states, a revival, and the seven that touch waits,
deaths or commits. The invariant is proved shape by shape.

* `BoundOK` and `DeathsOK` are the parts of `SessionInv` that give
  `ClientSessionMatchesState` and `DiesOnlyUploaded`: only the newest death has the
  session's count, and its callback waits for the version of `closedAt`.
* `WaitersOK` says where a completion callback is: called, queued, or at the client, one
  of the three and once. `PlacesOf` computes the count of `WaitersCalledOnce` from it.
* `TypeOK` is not inductive alone: that session numbers stay below `MaxOpens` needs
  `RevivalsInv`, which charges every sync::Session to a revival and every revival to a
  call of `get_session` or a log-in that was counted, the pending ones included.
* `KnownInv` is about versions: with one writer the only notice under way is of the
  latest version, and a session that waits for a token with a sync::Session has the
  latest version announced or deferred. With two writers it fails (disagreement 12).

### Callbacks

Indexes wrap around in the model as in the code; `Wraps` evaluates the increments and
decrements once for all. Erasing from the vector is described by its effect on places
(`Without`, `Before`). `IInv` says that tokens ascend, that the loop stands at a callback,
that the flag is exact and that a callback given an error is gone unless it runs; it holds
whoever removes what. `DeliveryInv` adds that the packaged callbacks are the first `count`
ones and that changes are only overwritten by packaging when they were delivered
(`Delivered(i)`: nothing is about to be delivered to the i-th callback); it needs
`~LateRemoval`. `RoundsStep` is the simulation: the callbacks the round has still to
visit are those from `Start` to `count`, and an erasure takes one away on
either side of the loop without moving another into or out of that range.

### Notifications

`Deliveries` reduces the four steps in which the main thread delivers (`Notify`, the end of
a refresh, the end of waiting to begin a transaction, a refresh from scratch) to three:
nothing, the error, or a package of notifiers at one version. The invariant then has four
layers, each using the ones before.

* `RoundsInv`: the versions of a round of the worker ascend from where the old notifiers
  are to where it takes them, a version to be skipped lies ahead, the round's notifiers
  stay in `m_notifiers` until it ends, and new ones have not run. With `HandInv` (a
  table view waits at its notifier's version) this gives `VersionsMeet`, for every
  application.
* `RowsInv`, for results in use: the changes a notifier holds are those from its version
  to the version the round has computed, and none outside that window. Which notifiers
  are in it (`Computed`) depends on where the worker is between its two runs and two
  handovers.
* `ExtraInv`: what a block has accumulated is later than what it was told of, and a block
  whose notifier has not run has nothing. `NoneExtra` follows.
* `ToldInv`, `WriteInv`, `SkipInv`: a block has accumulated everything it has still to be
  told of and is at most the Realm's own last transaction behind the Realm; a
  transaction begins only when every block was told of everything, so the package that a
  later version overtakes is empty; and a handover that skips does so exactly for the
  versions the block is not to be told of. `NoneMissed` follows.

The last point is where the excluded applications matter: `invalidate` moves the Realm past
a package that is not empty, a commit that fails leaves the request to skip behind, and
results nobody used have changes found after the block was told (disagreements 19, 21, 22).

### Lists

`ListInv` speaks of three lists: the slots when the callback was last called, at the last
run and now. `Right(b, s, c)` is what a change set `c` must mean between two of them.

* `Applies`: to an index that is not deleted belongs one that is not inserted, in the same
  order, with the same slot there. The map is `To(D, I, i)`, an `unshift` by the deletions
  and a `shift` by the insertions; `OnlyTo` says that there is only one such map, so that
  it is enough to name it for each instruction (`InsertApplies`, `EraseApplies`,
  `MoveRight`, `ClearRight`).
* `MovesRight`: a slot that was deleted and is still there has exactly one move. Without
  this a merge could lose the mark of a slot, or its move.

`ListInv` says that the accumulated changes are right between the first and the second
list, `m_change` between the second and the third; that no slot was away and came
back (`Between`); that a slot of the first and the third is dirty exactly if one of the two
change sets or `row_did_change` marks it; and that nothing is reported between equal lists.

`clean_up_stale_moves` looks at one move after another and changes the sets that decide
about the next one. `Cleaned` says what has been achieved after `n` moves; when it ends
between equal lists nothing is left, because a move that is not stale would leave another
order (`CleanUpRight`). `merge` composes the two maps (`MergeApplies`), lets each old move
find the new one that continues it while the new moves change places (`Updated`,
`RestMoves`, `UpdatedAll`), joins what is left (`JoinedMoves`) and collects the marks
(`MergedMarks`). `MergeRight` is the result for any two change sets. The recursive functions
are unfolded with `Recursion`, again from the least number.

### Tables

`IInv` of `TableChangesProofs` says of the change set under construction what it must mean
after every instruction, not only when the log ends: `Tracks`, that an index outside the
insertions holds the row it held at the start, that one `m_move_mapping` leads back from
holds the row of a deleted index, and that the other insertions are new rows; and
`Marked`, that the marks are the current indexes of the modified rows. Each instruction has a lemma for each of the two
(`InsertTracks`, `MoveOverTracks`, `SwapTracks`, `SubsumeTracks`, `ClearTracks`).

`parse_complete` sorts the moves, and the notifier of a query looks a row up in them by
binary search. `SortExists` and `ByOriginSorts` show that the sort is what its name says,
`ParseCompletes` that it keeps what `Tracks` says, `LowerBoundRight` that the search finds
the row's move if there is one, and `NewIndexRight` with `RowsFound` that the index is then
the row's. There is no induction principle the provers could apply to these recursive
functions; the proofs take a least counterexample instead (`LeastNumber`, from the
well-foundedness of `<` in `WellFoundedInduction`).

`TableListsFollow` follows the loop of `erase_rows` list by list: `Halfway` says that the lists
up to the one looked at have the indexes of the rows after the deletion and the others
those before, unless they were skipped. A step of the loop (`EraseStep`) that takes a list out marks the one
it puts there as skipped if its index would have had to change, and shortens the list by one.

### Deep changes

`check_row` is a recursive function on the number of links that are left to follow.
`Sound(n, s, row, t)` is what a call at depth `n` promises about the state `s` it is given
and the state `t` it returns: a change is found only if one is near; the path is as before
and its flags only rise; no row close to a change is remembered as not modified; and a
change within reach is found, or the flag of each link of the path is raised below which
the search was cut short of it, so that the rows there are not remembered.
The last part is what makes the memo right although a search that was cut short finds
nothing. `Sound` is proved for depth 0, for a step over the columns and the links of a row,
and for all depths by the least-number argument above.

The invariant is then short: the memo holds no row that is close to a change
(`notModified \cap Close = {}`), and `Outward`, that the first table has no links or one to
another table, which is where disagreement 31 comes in (`NoneOnlyToItself`).

### What only TLC checks

* Liveness (`DyingEnds`, `WaitersAnswered`, `BlocksAreTold`,
  `WaitsEnd`), as fairness and `ENABLED` are outside the prover's reach.
* `ReportIsRight` and `ModificationsAreExact` of `ResultsChanges`, which compare a query's
  rows by `calculate` (a longest-common-subsequence search for sorted results), and
  `ModifiedRowsAreMarked` of `TableChanges` for several versions with move information.
  `MergeRight` covers their merges, but not that `calculate` finds a right
  change set, nor that the moves of `move_over` and `swap` are right in the order of a list.
* `RepresentsSet` and `AnswersAreRight` of `ChunkedRanges`, whose operators are `RECURSIVE`;
  modules that reach one cannot hold theorems.

## 5. Not modelled

Of the app:

* Failures of `beginWrite` other than nesting, other processes and notifications: the
  app uses none of them.
* A second tap before the first push has begun, and a back swipe that is cancelled half
  way: whether UIKit delivers them does not show in this code.
* `ToDoList.listItems`, the life-cycle callbacks with empty bodies, the xib files.
* The branch of a deletion or item handler in which `getRealm` fails is part of the
  actions but cannot be reached: rows exist only once the Realm was opened, and it is
  never closed. The same holds for `commit` with `.insert`.

Of the library:

* The storage engine and the sync client (`Pods/Realm/include/core/`, about 70,000 of the
  90,000 lines of the repository's code). Only their headers are here, declarations and
  templates for column types; the implementation is a binary. They are external to the
  model, as the code above them uses them. This is why the share of source lines that the
  modules stand for stays small although the object store's control is largely covered.
* The Objective-C and Swift wrappers: conversions and calls passed on, apart from those
  that keep state (`RLMSyncSessionRefreshHandle`, `RLMSyncUser`,
  `commitWriteTransactionWithoutNotifying`), which are in the modules.
* Schema, migration, permissions, key-value observation, subtables, the per-column sets of
  a change (they go through the same calls as the modifications), `insert_column` and
  `move_column`, distinct and aggregates of results.
* Progress notifiers, server override and multiplexing of sync sessions; paths and
  encryption of the metadata Realm; notifiers of single objects; writes from within a
  block; several Realm instances of one process.

## 6. Plan

Done: sections 2 to 4. What would come next is `ModifiedRowsAreMarked` without its
hypothesis: `Tracks` would have to give `Right` for the change set of a table, to which
`MergeRight` then applies.
