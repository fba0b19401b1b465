-------------------------- MODULE RealmNotifications --------------------------
(***************************************************************************)
(* Collection notifications of one Realm instance: the main thread with its *)
(* Realm, the notification worker of RealmCoordinator, and other processes  *)
(* that write to the same file.  A version is a number; a set of changes is *)
(* the set of the versions whose transactions it describes.  Every          *)
(* transaction changes every collection.  One step of the worker is what it *)
(* does while it holds m_notifier_mutex, or between two such sections.      *)
(***************************************************************************)
EXTENDS Naturals, FiniteSets

CONSTANTS Notifiers, \* ResultsNotifiers of this Realm, with at most one block each
          Uses       \* kinds of applications: what they do, what they may meet, bounds

ASSUME NotificationsAssumption ==
    Uses \subseteq [observes : SUBSET Notifiers, \* the collections it uses
                   invalidates : BOOLEAN, \* it calls Realm::invalidate
                   suppresses : BOOLEAN,  \* it commits without notifying
                   idles : BOOLEAN,       \* it may leave Results unused between updates
                   commitsFail : BOOLEAN, openFails : BOOLEAN, \* the latter on the worker
                   versions : Nat \ {0}, \* bound: versions of the file
                   calls : Nat]    \* bound: blocks added, first uses of Results, invalidations

VARIABLES
    use,      \* the application, which never changes
    latest,   \* the newest version in the file
    owes,     \* another process has committed and not yet written to the pipe
    pipe,     \* there is something new in the named pipe
    signal,   \* the Realm's run loop source is signalled
    rv,       \* the Realm's read version, or its last one
    reading,  \* m_group: the Realm is in a read transaction
    pc,       \* what the main thread is doing
    target,   \* the version it waits for the notifiers to reach
    asked,    \* blocks not to be notified of the current transaction
    place,    \* none, new (m_new_notifiers) or main (m_notifiers)
    alive,    \* the collection still exists
    ver,      \* m_sg_version
    ran,      \* m_has_run
    rows,     \* the version m_previous_rows is of
    pend,     \* m_changes
    fresh,    \* m_tv is attached: the query was run in this round
    hand,     \* the version of m_tv_handover, 0 if there is none
    give,     \* the version of m_tv_to_deliver
    view,     \* the Results hold a TableView
    used,     \* m_has_used_table_view
    wants,    \* m_wants_background_updates
    block,    \* a block is registered
    acc, out, \* its accumulated_changes and changes_to_deliver
    skip,     \* its skip_next
    upto,     \* the version it was last notified at, 0 before the initial one
    quiet,    \* versions that it was not to be notified of
    wpc,      \* what the worker is doing
    wver, wskip,  \* version and skip_version of the current round
    wold, wnew,   \* notifiers and new_notifiers of the current round
    nsv,      \* the version m_notifier_sg reads, 0 if none
    pin,      \* the version m_advancer_sg reads, 0 if none
    skipv,    \* m_notifier_skip_version
    failed,   \* m_async_error
    opened,   \* which of the two groups were ever opened
    missed, extra,  \* blocks once called without a change, or with one, they should (not) have had
    fault,    \* a table view was imported at another version than its own
    calls

file   == <<latest, owes>>
wake   == <<pipe, signal>>
main   == <<rv, reading, pc, target, asked>>
results == <<view, used, wants>>
query  == <<place, alive, ver, ran, rows, pend, fresh, hand>>
told   == <<give, results, block, acc, out, skip, upto, quiet>>
worker == <<wpc, wver, wskip, wold, wnew, nsv, pin, skipv, failed, opened>>
hist   == <<missed, extra, fault, calls>>
vars   == <<file, wake, main, query, told, worker, hist>>

All(x) == [n \in Notifiers |-> x]
With(f, S, x) == [n \in Notifiers |-> IF n \in S THEN x ELSE f[n]]

Init ==
    /\ use \in Uses
    /\ latest = 1 /\ owes = FALSE /\ pipe = FALSE /\ signal = FALSE
    /\ rv = 1 /\ reading = TRUE /\ pc = "idle" /\ target = 0 /\ asked = {}
    /\ place = All("none") /\ alive = All(FALSE) /\ ver = All(0) /\ ran = All(FALSE)
    /\ rows = All(0) /\ pend = All({}) /\ fresh = {} /\ hand = All(0)
    /\ give = All(0) /\ view = {} /\ used = {} /\ wants = {} /\ block = {} /\ acc = All({}) /\ out = All({}) /\ skip = {}
    /\ upto = All(0) /\ quiet = All({})
    /\ wpc = "idle" /\ wver = 0 /\ wskip = 0 /\ wold = {} /\ wnew = {}
    /\ nsv = 0 /\ pin = 0 /\ skipv = 0 /\ failed = FALSE /\ opened = {}
    /\ missed = {} /\ extra = {} /\ fault = FALSE /\ calls = 0

Main == {n \in Notifiers : place[n] = "main"}
New  == {n \in Notifiers : place[n] = "new"}
Mine == {n \in Main \cup New : alive[n]}  \* notifiers_for_realm
Ready == {n \in Mine : ran[n]}

-----------------------------------------------------------------------------
(* The worker: RealmCoordinator::on_change *)

Dead == {n \in Main \cup New : ~alive[n]}

(* listen wakes up and run_async_notifiers begins: clean_up_dead_notifiers,
   open_helper_shared_group, new notifiers are brought to the latest version,
   and a round is set up with the versions it goes to. *)
Collect ==
    /\ wpc = "idle" /\ pipe /\ pipe' = FALSE
    /\ LET old   == Main \ Dead
           added == New \ Dead
           skipped == IF old = {} THEN 0 ELSE skipv
           kept == [n \in Notifiers |-> IF n \in old \cup added THEN "main" ELSE "none"]
       IN  /\ place' = kept /\ pin' = 0
           /\ \/ /\ old \cup added = {}
                 /\ nsv' = 0 /\ skipv' = 0 /\ wpc' = "signal"
                 /\ UNCHANGED <<wver, wskip, wold, wnew, failed, opened>>
              \/ /\ old \cup added # {}
                 /\ failed \/ (use.openFails /\ "notifier" \notin opened)
                 /\ failed' = TRUE /\ nsv' = 0 /\ skipv' = skipped /\ wpc' = "signal"
                 /\ UNCHANGED <<wver, wskip, wold, wnew, opened>>
              \/ /\ old \cup added # {} /\ ~failed
                 /\ opened' = opened \cup {"notifier"}
                 /\ nsv' = (IF old = {} THEN latest ELSE nsv) /\ wver' = latest
                 /\ wskip' = skipped /\ skipv' = 0
                 /\ wold' = old /\ wnew' = added
                 /\ wpc' = IF skipped # 0 THEN "skip" ELSE "run"
                 /\ UNCHANGED failed
    /\ UNCHANGED <<file, signal, main, alive, ver, ran, rows, pend, fresh, hand, told, hist>>

(* need_to_run *)
NeedToRun(n, v) ==
    alive[n] /\ n \in block \cup wants /\ ~(ran[n] /\ rows[n] = v)

(* run, of the notifiers in S at version v: calculate_changes *)
Run(S, v) ==
    LET R == {n \in S : NeedToRun(n, v)}
    IN  /\ fresh' = R
        /\ pend' = [n \in Notifiers |-> IF n \in R /\ ran[n] THEN (rows[n] + 1) .. v ELSE pend[n]]
        /\ rows' = With(rows, R, v)

\* Mutant: the changes are copied to the blocks and kept.
Remaining_Kept(S) == pend

(* m_changes after they were moved into the blocks. *)
Remaining(S) == With(pend, S, {})

\* Mutant: changes that were not delivered yet are overwritten.
Accumulated_Replaced(n) == pend[n]

Accumulated(n) == acc[n] \cup pend[n]

(* prepare_handover of the notifiers in S: do_prepare_handover, add_changes *)
PrepareHandover(S) ==
    /\ ver' = With(ver, S, nsv) /\ ran' = With(ran, S, TRUE)
    /\ hand' = With(hand, {n \in S : n \in fresh \/ hand[n] # 0}, nsv)
    /\ acc' = [n \in Notifiers |-> IF n \in (S \cap block) \ skip THEN Accumulated(n) ELSE acc[n]]
    /\ pend' = Remaining(S) /\ fresh' = {}
    /\ skip' = skip \ S

(* A version that is to be skipped has a round of its own. *)
SkipTo == wskip

SkipRun ==
    /\ wpc = "skip" /\ nsv' = SkipTo /\ Run(wold, SkipTo) /\ wpc' = "skipped"
    /\ UNCHANGED <<file, wake, main, place, alive, ver, ran, hand, told,
                   wver, wskip, wold, wnew, pin, skipv, failed, opened, hist>>

SkipHandover ==
    /\ wpc = "skipped" /\ PrepareHandover(wold) /\ wpc' = "run"
    /\ UNCHANGED <<file, wake, main, place, alive, rows, give, results, block, out, upto, quiet,
                   wver, wskip, wold, wnew, nsv, pin, skipv, failed, opened, hist>>

RunNotifiers ==
    /\ wpc = "run" /\ nsv' = wver /\ Run(wold \cup wnew, wver) /\ wpc' = "ran"
    /\ UNCHANGED <<file, wake, main, place, alive, ver, ran, hand, told,
                   wver, wskip, wold, wnew, pin, skipv, failed, opened, hist>>

HandedOver == wold \cup wnew

(* The results of the round become visible and the dead are cleaned up. *)
Handover ==
    /\ wpc = "ran" /\ PrepareHandover(HandedOver) /\ wpc' = "signal"
    /\ place' = With(place, Dead, "none")
    /\ nsv' = IF Main \subseteq Dead THEN 0 ELSE nsv
    /\ skipv' = IF Main \subseteq Dead THEN 0 ELSE skipv
    /\ pin' = IF New \subseteq Dead THEN 0 ELSE pin
    /\ wold' = {} /\ wnew' = {} /\ wver' = 0 /\ wskip' = 0
    /\ UNCHANGED <<file, wake, main, alive, rows, give, results, block, out, upto, quiet, failed, opened, hist>>

(* The rest of on_change: WeakRealmNotifier::notify *)
SignalRealms ==
    /\ wpc = "signal" /\ wpc' = "idle" /\ signal' = TRUE
    /\ UNCHANGED <<file, pipe, main, query, told, wver, wskip, wold, wnew, nsv, pin, skipv,
                   failed, opened, hist>>

-----------------------------------------------------------------------------
(* The main thread: packages, and what is delivered *)

(* What the block of n ought to be told at version v. *)
Expected(n, v) == ((upto[n] + 1) .. v) \ quiet[n]

(* Results::Internal::set_table_view *)
SetTableView(S) ==
    /\ wants' = (wants \ (S \cap view)) \cup (S \cap view \cap used)
    /\ view' = view \cup S
    /\ used' = IF use.idles THEN used \ S ELSE used \cup S

(* package_for_delivery of S; the blocks of those in C are called at version v;
   those in D also get the new table view, at read version r. *)
Deliver(S, C, D, v, r) ==
    /\ hand' = With(hand, S, 0)
    /\ give' = [n \in Notifiers |-> IF n \in D THEN 0 ELSE IF n \in S THEN hand[n] ELSE give[n]]
    /\ fault' = (fault \/ \E n \in D : hand[n] \notin {0, r})
    /\ SetTableView({n \in D : hand[n] # 0})
    /\ LET P == S \cap block
           B == C \cap block
           N == {n \in B : upto[n] = 0 \/ acc[n] # {}}  \* whose block is called
       IN  /\ acc' = With(acc, P, {})
           /\ out' = [n \in Notifiers |-> IF n \in B THEN {} ELSE IF n \in P THEN acc[n] ELSE out[n]]
           /\ upto' = With(upto, N, v)
           /\ missed' = missed \cup {n \in N : upto[n] # 0 /\ ~(Expected(n, v) \subseteq acc[n])}
           /\ extra' = extra \cup {n \in N : upto[n] # 0 /\ ~(acc[n] \subseteq Expected(n, v))}

Common(S) == CHOOSE v \in {ver[n] : n \in S} : TRUE

(* Blocks are removed when they have been told of the error. *)
DeliverError ==
    /\ block' = block \ Mine /\ skip' = skip \ Mine
    /\ UNCHANGED <<hand, give, results, acc, out, upto, missed, extra, fault>>

NothingDelivered ==
    UNCHANGED <<hand, give, results, block, skip, acc, out, upto, missed, extra, fault>>

(* process_available_async, of a Realm that reads version r or does not read *)
ProcessAvailable(inRead, r) ==
    LET S == {n \in Ready : inRead => ver[n] = r} IN
    CASE failed -> DeliverError
      [] ~failed /\ S = {} -> NothingDelivered
      [] OTHER -> Deliver(S, S, IF inRead THEN S ELSE {}, Common(S), r) /\ UNCHANGED <<block, skip>>

ReadyVersion == Common(Ready)

(* advance_to_ready *)
AdvanceToReady ==
    CASE failed -> rv' = latest /\ DeliverError
      [] ~failed /\ Ready = {} -> rv' = latest /\ NothingDelivered
      [] ~failed /\ Ready # {} /\ Common(Ready) < rv ->
            Deliver(Ready, {}, {}, rv, rv) /\ UNCHANGED <<rv, block, skip>>
      [] OTHER ->
            /\ rv' = ReadyVersion /\ Deliver(Ready, Ready, Ready, Common(Ready), rv')
            /\ UNCHANGED <<block, skip>>

(* Realm::notify on the run loop *)
Notify ==
    /\ signal /\ pc \in {"idle", "write"} /\ signal' = FALSE
    /\ CASE pc = "write" -> NothingDelivered /\ UNCHANGED rv
         [] pc = "idle" /\ rv # latest /\ reading -> AdvanceToReady
         [] OTHER -> ProcessAvailable(reading, rv) /\ UNCHANGED rv
    /\ UNCHANGED <<file, pipe, reading, pc, target, asked, place, alive, ver, ran, rows, pend,
                   fresh, quiet, worker, calls>>

\* Mutant: off by one.
HasReached_Strictly(n) == ran[n] /\ ver[n] > target

HasReached(n) == ran[n] /\ ver[n] >= target

(* package_and_wait returns when this holds: at once if there was an error when
   the package was made (no target). *)
Reached == target = 0 \/ \A n \in Mine \cap block : HasReached(n)

(* What refresh and begin_transaction do before they wait. *)
Wait(where) ==
    /\ pc = "idle" /\ pc' = where
    /\ target' = IF failed THEN 0 ELSE latest
    /\ pipe' = (pipe \/ (~failed /\ \E n \in Mine \cap block : ~(ran[n] /\ ver[n] >= latest)))
    /\ UNCHANGED <<file, signal, asked, query, told, worker, hist>>

(* Packages that are older than what was waited for are dropped. *)
Packaged == IF Ready # {} /\ Common(Ready) >= target THEN Ready ELSE {}

(* What they do then; in a write transaction blocks are called but no table
   view is handed over. *)
Advance(v, reads) ==
    /\ Reached /\ target' = 0 /\ rv' = v
    /\ CASE target = 0 -> DeliverError
         [] target # 0 /\ Ready = {} -> NothingDelivered
         [] OTHER -> /\ Deliver(Ready, Packaged, IF reads THEN Packaged ELSE {}, Common(Ready), v)
                     /\ UNCHANGED <<block, skip>>
    /\ UNCHANGED <<file, wake, reading, place, alive, ver, ran, rows, pend, fresh, quiet,
                   worker, calls>>

(* Realm::refresh in a read transaction: advance_to_latest *)
RefreshBegins ==
    reading /\ Wait("refresh") /\ UNCHANGED <<rv, reading>>

RefreshEnds ==
    /\ pc = "refresh" /\ pc' = "idle" /\ UNCHANGED asked
    /\ Advance(IF target # 0 /\ Packaged # {} THEN Common(Ready) ELSE latest, TRUE)

(* Realm::refresh otherwise *)
RefreshAnew ==
    /\ pc = "idle" /\ ~reading /\ reading' = TRUE /\ rv' = latest
    /\ ProcessAvailable(TRUE, latest)
    /\ UNCHANGED <<file, wake, pc, target, asked, place, alive, ver, ran, rows, pend, fresh,
                   quiet, worker, calls>>

(* Realm::begin_transaction: promote_to_write *)
BeginTransaction ==
    /\ latest < use.versions /\ Wait("begin")
    /\ rv' = (IF reading THEN rv ELSE latest) /\ reading' = TRUE

BeginEnds ==
    pc = "begin" /\ pc' = "write" /\ asked' = {} /\ Advance(latest, FALSE)

(* commitWriteTransactionWithoutNotifying, before it commits *)
SuppressNext(n) ==
    /\ pc \in {"write", "commit"} /\ use.suppresses /\ n \in block \ asked
    /\ skip' = skip \cup {n} /\ asked' = asked \cup {n} /\ pc' = "commit"
    /\ UNCHANGED <<file, wake, rv, reading, target, query, give, results, block, acc, out,
                   upto, quiet, worker, hist>>

(* m_notifier_skip_version after a commit; new notifiers skip nothing. *)
SkipVersion == IF \E n \in Main : alive[n] THEN latest + 1 ELSE skipv

(* commit_write; if the commit throws, the transaction is still open. *)
CommitTransaction ==
    /\ pc \in {"write", "commit"}
    /\ \/ /\ latest' = latest + 1 /\ rv' = latest'
          /\ skipv' = SkipVersion /\ pc' = "idle" /\ pipe' = TRUE
          /\ quiet' = [n \in Notifiers |-> IF n \in asked THEN quiet[n] \cup {latest'} ELSE quiet[n]]
          /\ asked' = {}
       \/ use.commitsFail /\ pc' = "write" /\ UNCHANGED <<latest, rv, skipv, pipe, quiet, asked>>
    /\ UNCHANGED <<owes, signal, reading, target, query, give, results, block, acc, out, skip, upto,
                   wpc, wver, wskip, wold, wnew, nsv, pin, failed, opened, hist>>

CancelTransaction ==
    /\ pc = "write" /\ pc' = "idle" /\ asked' = {}
    /\ UNCHANGED <<file, wake, rv, reading, target, query, told, worker, hist>>

Call == calls < use.calls /\ calls' = calls + 1

\* Mutant: the advancer keeps the newest version that was pinned.
Pinned_Newest == IF New = {} \/ rv > pin THEN rv ELSE pin

Pinned == IF New = {} \/ rv < pin THEN rv ELSE pin

(* pin_version *)
PinVersion ==
    \/ failed /\ UNCHANGED <<pin, failed, opened>>
    \/ ~failed /\ pin' = Pinned /\ opened' = opened \cup {"advancer"} /\ UNCHANGED failed
    \/ /\ ~failed /\ use.openFails /\ "advancer" \notin opened
       /\ failed' = TRUE /\ UNCHANGED <<pin, opened>>

(* register_notifier of a new ResultsNotifier, which is at the Realm's version *)
RegisterNotifier(n) ==
    /\ place' = [place EXCEPT ![n] = "new"] /\ alive' = [alive EXCEPT ![n] = TRUE]
    /\ ver' = [ver EXCEPT ![n] = rv] /\ ran' = [ran EXCEPT ![n] = FALSE]
    /\ rows' = [rows EXCEPT ![n] = 0] /\ pend' = [pend EXCEPT ![n] = {}]
    /\ hand' = [hand EXCEPT ![n] = 0] /\ give' = [give EXCEPT ![n] = 0]
    /\ wants' = wants \cup {n} /\ UNCHANGED fresh
    /\ PinVersion

\* Mutant: the worker is not woken up.
WokenByAdd_Not == pipe

(* wake_up_notifier_worker in add_callback *)
WokenByAdd == TRUE

(* add_notification_callback: prepare_async, add_callback *)
AddBlock(n) ==
    /\ Call /\ pc = "idle" /\ reading /\ n \notin block /\ n \notin Dead
    /\ block' = block \cup {n} /\ pipe' = WokenByAdd
    /\ acc' = With(acc, {n}, {}) /\ out' = With(out, {n}, {}) /\ skip' = skip \ {n}
    /\ upto' = With(upto, {n}, 0) /\ quiet' = With(quiet, {n}, {})
    /\ IF place[n] = "none" THEN RegisterNotifier(n)
       ELSE UNCHANGED <<query, give, wants, pin, failed, opened>>
    /\ UNCHANGED <<file, signal, main, view, used, wpc, wver, wskip, wold, wnew, nsv, skipv,
                   missed, extra, fault>>

(* evaluate_query_if_needed: the first use starts background updates. *)
EvaluateQuery(n) ==
    /\ Call /\ pc = "idle" /\ reading /\ n \notin Dead /\ n \notin view \cap used
    /\ view' = view \cup {n} /\ used' = used \cup {n}
    /\ IF place[n] = "none" THEN RegisterNotifier(n)
       ELSE UNCHANGED <<query, give, wants, pin, failed, opened>>
    /\ UNCHANGED <<file, wake, main, block, acc, out, skip, upto, quiet,
                   wpc, wver, wskip, wold, wnew, nsv, skipv, missed, extra, fault>>

(* remove_callback *)
RemoveBlock(n) ==
    /\ n \in block /\ block' = block \ {n}
    /\ acc' = With(acc, {n}, {}) /\ out' = With(out, {n}, {}) /\ skip' = skip \ {n}
    /\ upto' = With(upto, {n}, 0) /\ quiet' = With(quiet, {n}, {})
    /\ asked' = asked \ {n}
    /\ UNCHANGED <<file, wake, rv, reading, pc, target, query, give, results, worker, hist>>

(* The collection is destroyed, on whichever thread: unregister *)
Unregister(n) ==
    /\ alive[n] /\ n \notin block
    /\ alive' = [alive EXCEPT ![n] = FALSE]
    /\ view' = view \ {n} /\ used' = used \ {n} /\ wants' = wants \ {n}
    /\ UNCHANGED <<file, wake, main, place, ver, ran, rows, pend, fresh, hand, give, block,
                   acc, out, skip, upto, quiet, worker, hist>>

(* Realm::invalidate, and the next access *)
Invalidate ==
    /\ Call /\ use.invalidates /\ pc = "idle" /\ reading /\ reading' = FALSE
    /\ UNCHANGED <<file, wake, rv, pc, target, asked, query, told, worker, missed, extra, fault>>

ReadGroup ==
    /\ pc = "idle" /\ ~reading /\ reading' = TRUE /\ rv' = latest
    /\ UNCHANGED <<file, wake, pc, target, asked, query, told, worker, hist>>

(* Another process commits, and then writes to the pipe.  It cannot commit while
   begin_transaction waits for the worker: promote_to_write takes the write lock
   (group_shared.hpp:977) before the log is parsed and package_and_wait called. *)
OtherCommits ==
    /\ pc \in {"idle", "refresh"} /\ latest < use.versions /\ ~owes
    /\ latest' = latest + 1 /\ owes' = TRUE
    /\ UNCHANGED <<wake, main, query, told, worker, hist>>

OtherNotifies ==
    /\ owes /\ owes' = FALSE /\ pipe' = TRUE
    /\ UNCHANGED <<latest, signal, main, query, told, worker, hist>>

Next ==
    \/ Collect \/ SkipRun \/ SkipHandover \/ RunNotifiers \/ Handover \/ SignalRealms
    \/ Notify \/ RefreshBegins \/ RefreshEnds \/ RefreshAnew \/ BeginTransaction \/ BeginEnds
    \/ CommitTransaction \/ CancelTransaction \/ Invalidate \/ ReadGroup
    \/ OtherCommits \/ OtherNotifies
    \/ \E n \in use.observes :
          SuppressNext(n) \/ AddBlock(n) \/ EvaluateQuery(n) \/ RemoveBlock(n) \/ Unregister(n)

Spec == Init /\ [][Next /\ UNCHANGED use]_<<vars, use>>

(* The worker runs when it has work, a call that waits goes on when it can, the
   run loop comes round to its sources between the calls of the application, a
   transaction is ended, and a process that has committed tells the others. *)
FairSpec ==
    /\ Spec
    /\ WF_vars(Collect) /\ WF_vars(SkipRun) /\ WF_vars(SkipHandover)
    /\ WF_vars(RunNotifiers) /\ WF_vars(Handover) /\ WF_vars(SignalRealms)
    /\ SF_vars(Notify) /\ WF_vars(RefreshEnds) /\ WF_vars(BeginEnds)
    /\ WF_vars(CommitTransaction \/ CancelTransaction) /\ WF_vars(OtherNotifies)
-----------------------------------------------------------------------------
(* The versions and what everyone is doing. *)
TypeOK ==
    /\ {latest, rv} \subseteq 1..use.versions /\ rv <= latest
    /\ {target, wver, wskip, nsv, pin, skipv} \subseteq 0..latest
    /\ pc \in {"idle", "refresh", "begin", "write", "commit"}
    /\ wpc \in {"idle", "skip", "skipped", "run", "ran", "signal"}
    /\ place \in [Notifiers -> {"none", "new", "main"}]
    /\ \A f \in {ver, rows, hand, give, upto} : f \in [Notifiers -> 0..latest]
    /\ \A f \in {pend, acc, out, quiet} : f \in [Notifiers -> SUBSET (1..latest)]
    /\ block \subseteq Mine /\ results \in (SUBSET Mine) \X (SUBSET Mine) \X (SUBSET Mine)
    /\ skip \subseteq block /\ asked \subseteq block

(* REALM_ASSERTs of run_async_notifiers and clean_up_dead_notifiers: a version to
   be skipped is between those the round starts from and goes to, and there is
   a notifier to skip it; the helper group reads exactly while there are
   notifiers; the advancer reads a version no newer than any new notifier's. *)
GroupsAreRight ==
    /\ wpc = "skip" => wold # {} /\ nsv <= wskip /\ wskip <= wver
    /\ wpc \in {"run", "ran"} => nsv <= wver
    /\ ~failed => /\ (nsv # 0) = (Main # {})
                  /\ (pin # 0) = (New # {})
                  /\ \A n \in New : pin <= ver[n]

(* Whenever the main thread can look, all notifiers that have run are at one
   version: a package takes the version of any of them. *)
VersionsAgree ==
    \A m, n \in {x \in Main : ran[x]} : ver[m] = ver[n]

(* A table view is imported into the Realm only at the version it is of. *)
HandoverAtReadVersion == ~fault

(* Main thread and worker never meet at different versions, whatever is registered,
   committed, skipped, invalidated or advanced between two of the worker's locks. *)
VersionsMeet == GroupsAreRight /\ VersionsAgree /\ HandoverAtReadVersion

(* After its initial notification a block is told of every transaction, except
   those committed without notifying it, across packages that were dropped,
   skipped versions and blocks removed and added again.  Three uses are excluded:
   invalidate lets a package be overwritten that was never delivered, a
   suppression outlives the commit that failed, and changes of Results that were
   left unused are found too late, in a round whose package is dropped. *)
NothingMissed ==
    use.invalidates \/ use.idles \/ (use.suppresses /\ use.commitsFail) \/ missed = {}

(* ... and of none that it was told of already or is not to be told of.  A round
   that is under way takes the request not to be told for its own, and Results
   that were left unused are compared with rows from before the block. *)
NothingExtra == use.suppresses \/ use.idles \/ extra = {}

(* Blocks that have not been told of all versions will be: no wake-up is lost between
   the pipe, the worker, the run loop source and notifications that come while
   the Realm is in a transaction or was moved on by refresh. *)
AllTold == \A n \in block : Expected(n, latest) = {}
BlocksAreTold == ~AllTold ~> AllTold \/ failed

(* refresh and begin_transaction, which wait for the worker, return, unless the
   worker fails to open the file when they have begun to wait. *)
WaitsEnd == pc \in {"refresh", "begin"} ~> pc \in {"idle", "write"} \/ failed
=============================================================================
