------------------------------- MODULE SyncFiles -------------------------------
(***************************************************************************)
(* What the sync subsystem keeps on disk: synced Realm files, recovery      *)
(* copies, and the metadata Realm with the file actions still to be carried *)
(* out and the known users.  SyncManager::configure_file_system carries     *)
(* them out at launch; the process may die between any two steps.           *)
(* Every metadata transaction is one step.  A Realm that is deleted and     *)
(* downloaded again is a new incarnation of its file.  Nothing is locked     *)
(* while immediately_run_file_actions works: other threads log in and out,   *)
(* open Realms and record further actions between any two of its steps.      *)
(***************************************************************************)
EXTENDS Naturals, FiniteSets

CONSTANTS Realms, Users, Names,
          Owner,           \* the user whose directory holds the Realm
          NoOne,           \* no user, no Realm, no recovery name
          MaxIncarnations, \* bound: downloads of a Realm
          MaxErrors,       \* bound: errors that record a file action
          MaxCrashes,      \* bound: deaths of the process
          MaxCopyFailures, \* bound: copies the file system refuses half-way
          MaxLogOuts       \* bound: log-outs

ASSUME SyncFilesAssumption ==
    /\ Owner \in [Realms -> Users]
    /\ NoOne \notin Realms \cup Users \cup Names
    /\ {MaxIncarnations, MaxErrors, MaxCrashes, MaxCopyFailures, MaxLogOuts} \subseteq Nat

VARIABLES
    file,     \* the incarnation of each Realm on disk, 0 if there is none
    made,     \* how many incarnations there have been
    rec,      \* the recovery directory
    action,   \* SyncFileActionMetadata, by the Realm's path
    account,  \* SyncUserMetadata
    proc,     \* what the process is doing
    todo,     \* file actions not yet tried in this round
    done,     \* completed_actions
    copying,  \* the Realm being copied to the recovery directory
    gone,     \* dead_users
    mem,      \* users in SyncManager::m_users that are logged in
    busy,     \* a log-in or log-out between its two steps
    admin,    \* users whose log-in has yet to call set_is_admin
    owed,     \* incarnations whose last recorded action was to back them up
    reopened, \* Realms opened anew before the row of their action was removed
    last,     \* the last log-in or log-out of a user that returned
    errors, crashes, failures, logOuts

disk == <<file, made, rec, action, account>>
run  == <<proc, todo, done, copying, gone, mem, busy, admin>>
hist == <<owed, reopened, last, errors, crashes, failures, logOuts>>
vars == <<disk, run, hist>>

NoAction  == [kind |-> "none", name |-> NoOne, of |-> 0]
NoAccount == [known |-> FALSE, token |-> FALSE, marked |-> FALSE]
NoFile    == [realm |-> NoOne, of |-> 0, full |-> FALSE]
Idle      == [op |-> "none", user |-> NoOne]

Init ==
    /\ file = [r \in Realms |-> 0] /\ made = file
    /\ rec = [n \in Names |-> NoFile]
    /\ action = [r \in Realms |-> NoAction]
    /\ account = [u \in Users |-> NoAccount]
    /\ proc = "down" /\ todo = {} /\ done = {} /\ copying = NoOne /\ gone = {}
    /\ mem = {} /\ busy = Idle /\ admin = {}
    /\ owed = {} /\ reopened = {} /\ last = [u \in Users |-> "out"]
    /\ errors = 0 /\ crashes = 0 /\ failures = 0 /\ logOuts = 0

(* The app runs; a file action may be handled meanwhile. *)
Serving == proc \in {"up", "handling"}

-----------------------------------------------------------------------------
(* run_file_action, for the actions of a launch ("launching") or the one of
   immediately_run_file_actions ("handling"). *)

Running == proc \in {"launching", "handling"} /\ copying = NoOne

(* configure_file_system: all_pending_actions *)
Launch ==
    /\ proc = "down" /\ proc' = "launching"
    /\ todo' = {r \in Realms : action[r] # NoAction}
    /\ UNCHANGED <<disk, hist, done, copying, gone, mem, busy, admin>>

(* immediately_run_file_actions *)
ImmediatelyRunFileActions(r) ==
    /\ proc = "up" /\ action[r] # NoAction
    /\ proc' = "handling" /\ todo' = {r}
    /\ UNCHANGED <<disk, hist, done, copying, gone, mem, busy, admin>>

Finished(r) == todo' = todo \ {r} /\ done' = done \cup {r}
Postponed(r) == todo' = todo \ {r} /\ UNCHANGED done

(* DeleteRealm, or a backup whose file is gone already. *)
DeleteRealm(r) ==
    /\ Running /\ r \in todo
    /\ action[r].kind = "DeleteRealm" \/ file[r] = 0
    /\ file' = [file EXCEPT ![r] = 0]
    /\ Finished(r)
    /\ UNCHANGED <<made, rec, action, account, proc, copying, gone, mem, busy, admin, hist>>

(* The recovery name must be free: a copy is never written over another. *)
MayCopy(r) == file[r] # 0 /\ rec[action[r].name] = NoFile

(* BackUpThenDeleteRealm cannot go on: the recovery file is there already. *)
BackUpRefused(r) ==
    /\ Running /\ r \in todo /\ action[r].kind = "BackUpThenDeleteRealm"
    /\ file[r] # 0 /\ ~MayCopy(r)
    /\ Postponed(r)
    /\ UNCHANGED <<disk, proc, copying, gone, mem, busy, admin, hist>>

(* copy_realm_file creates the recovery file... *)
CopyBegins(r) ==
    /\ Running /\ r \in todo /\ action[r].kind = "BackUpThenDeleteRealm"
    /\ MayCopy(r)
    /\ rec' = [rec EXCEPT ![action[r].name] = [realm |-> r, of |-> file[r], full |-> FALSE]]
    /\ copying' = r
    /\ UNCHANGED <<file, made, action, account, proc, todo, done, gone, mem, busy, admin, hist>>

(* ... may fail half-way... *)
CopyFails ==
    /\ copying # NoOne /\ ~rec[action[copying].name].full
    /\ failures < MaxCopyFailures /\ failures' = failures + 1
    /\ copying' = NoOne /\ Postponed(copying)
    /\ UNCHANGED <<disk, proc, gone, mem, busy, admin, owed, reopened, last, errors, crashes,
                   logOuts>>

(* ... or is complete. *)
CopyEnds ==
    /\ copying # NoOne /\ ~rec[action[copying].name].full
    /\ rec' = [rec EXCEPT ![action[copying].name].full = TRUE]
    /\ UNCHANGED <<file, made, action, account, run, hist>>

\* Mutant: the Realm is removed whether or not the copy succeeded.
CopyIsSafe_Always == TRUE

CopyIsSafe == rec[action[copying].name].full

(* remove_realm after the copy. *)
RemoveCopied ==
    /\ copying # NoOne /\ CopyIsSafe
    /\ file' = [file EXCEPT ![copying] = 0]
    /\ copying' = NoOne /\ Finished(copying)
    /\ UNCHANGED <<made, rec, action, account, proc, gone, mem, busy, admin, hist>>

\* Mutant: an action that was run at once stays recorded.
Recorded_WhenHandled(r) == IF proc = "handling" THEN action[r] ELSE NoAction

(* What is left of a completed action: SyncFileActionMetadata::remove. *)
Recorded(r) == NoAction

RemoveAction(r) ==
    /\ Running /\ todo = {} /\ r \in done
    /\ action' = [action EXCEPT ![r] = Recorded(r)]
    /\ done' = done \ {r} /\ reopened' = reopened \ {r}
    /\ UNCHANGED <<file, made, rec, account, proc, todo, copying, gone, mem, busy, admin,
                   owed, last, errors, crashes, failures, logOuts>>

HandlingEnds ==
    /\ proc = "handling" /\ copying = NoOne /\ todo = {} /\ done = {}
    /\ proc' = "up"
    /\ UNCHANGED <<disk, hist, todo, done, copying, gone, mem, busy, admin>>

-----------------------------------------------------------------------------
(* The users: the rest of configure_file_system. *)

\* Mutant: users that were marked for removal are loaded too.
PersistedUsers_All == {u \in Users : account[u].known /\ account[u].token}

(* all_unmarked_users that have a token *)
PersistedUsers == {u \in Users : account[u].known /\ account[u].token /\ ~account[u].marked}

LoadUsers ==
    /\ proc = "launching" /\ copying = NoOne /\ todo = {} /\ done = {}
    /\ mem' = PersistedUsers
    /\ proc' = "purging" /\ todo' = {u \in Users : account[u].marked}
    /\ UNCHANGED <<disk, hist, done, copying, gone, busy, admin>>

(* remove_user_directory deletes recursively, one file after another, until the
   directory is gone or the file system refuses; a death may leave it half done.
   A user who logs in again later gets a new directory (a new uuid); the model
   keeps the paths, so that actions left over for the old ones can still find a
   file. *)
PurgeRealm(r) ==
    /\ proc = "purging" /\ Owner[r] \in todo /\ file[r] # 0
    /\ file' = [file EXCEPT ![r] = 0]
    /\ UNCHANGED <<made, rec, action, account, run, hist>>

RemoveUserDirectory(u) ==
    /\ proc = "purging" /\ u \in todo /\ todo' = todo \ {u}
    /\ \/ (\A r \in Realms : Owner[r] = u => file[r] = 0) /\ gone' = gone \cup {u}
       \/ UNCHANGED gone
    /\ UNCHANGED <<disk, proc, done, copying, mem, busy, admin, hist>>

(* SyncUserMetadata::remove *)
RemoveUser(u) ==
    /\ proc = "purging" /\ todo = {} /\ u \in gone /\ gone' = gone \ {u}
    /\ account' = [account EXCEPT ![u] = NoAccount]
    /\ UNCHANGED <<file, made, rec, action, proc, todo, done, copying, mem, busy, admin, hist>>

LaunchEnds ==
    /\ proc = "purging" /\ todo = {} /\ gone = {} /\ proc' = "up"
    /\ UNCHANGED <<disk, hist, todo, done, copying, gone, mem, busy, admin>>

(* get_or_make_user_metadata *)
GetOrMake(u) == [account[u] EXCEPT !.known = TRUE, !.marked = FALSE]

(* get_user: SyncUser's constructor or update_refresh_token writes the row, then
   the token; of a user who is logged in already, too. *)
LogIn(u) ==
    /\ Serving /\ busy = Idle
    /\ account' = [account EXCEPT ![u] = GetOrMake(u)]
    /\ busy' = [op |-> "in", user |-> u]
    /\ last' = IF u \in mem THEN last ELSE [last EXCEPT ![u] = "open"]
    /\ UNCHANGED <<file, made, rec, action, proc, todo, done, copying, gone, mem, admin,
                   owed, reopened, errors, crashes, failures, logOuts>>

SetUserToken ==
    /\ busy.op = "in"
    /\ account' = [account EXCEPT ![busy.user].token = TRUE]
    /\ mem' = mem \cup {busy.user} /\ busy' = Idle
    /\ admin' = admin \cup {busy.user}
    /\ last' = [last EXCEPT ![busy.user] = "in"]
    /\ UNCHANGED <<file, made, rec, action, proc, todo, done, copying, gone,
                   owed, reopened, errors, crashes, failures, logOuts>>

(* set_is_admin, which the log-in calls when get_user has returned, outside the
   user's lock: it takes the row as a log-in does, also the row of a user whom
   another thread logged out in between, and so undoes the log-out. *)
SetIsAdmin(u) ==
    /\ u \in admin /\ busy.op # "in" /\ admin' = admin \ {u}
    /\ account' = [account EXCEPT ![u] = GetOrMake(u)]
    /\ last' = IF last[u] = "out" THEN [last EXCEPT ![u] = "open"] ELSE last
    /\ UNCHANGED <<file, made, rec, action, proc, todo, done, copying, gone, mem, busy,
                   owed, reopened, errors, crashes, failures, logOuts>>

(* SyncUser::log_out: the state, then mark_for_removal. *)
LogOut(u) ==
    /\ Serving /\ busy = Idle /\ u \in mem
    /\ logOuts < MaxLogOuts /\ logOuts' = logOuts + 1
    /\ mem' = mem \ {u} /\ busy' = [op |-> "out", user |-> u]
    /\ last' = [last EXCEPT ![u] = "open"]
    /\ UNCHANGED <<disk, proc, todo, done, copying, gone, admin, owed, reopened, errors,
                   crashes, failures>>

MarkForRemoval ==
    /\ busy.op = "out"
    /\ account' = [account EXCEPT ![busy.user].marked = TRUE]
    /\ busy' = Idle
    /\ last' = [last EXCEPT ![busy.user] = "out"]
    /\ UNCHANGED <<file, made, rec, action, proc, todo, done, copying, gone, mem, admin,
                   owed, reopened, errors, crashes, failures, logOuts>>

-----------------------------------------------------------------------------
(* Opening a synced Realm downloads it if it is not there. *)
OpenRealm(r) ==
    /\ Serving /\ Owner[r] \in mem
    /\ file[r] = 0 /\ made[r] < MaxIncarnations
    /\ made' = [made EXCEPT ![r] = @ + 1]
    /\ file' = [file EXCEPT ![r] = made[r] + 1]
    /\ reopened' = IF action[r] = NoAction THEN reopened ELSE reopened \cup {r}
    /\ UNCHANGED <<rec, action, account, run, owed, last, errors, crashes, failures, logOuts>>

(* update_error_and_mark_file_for_deletion, make_file_action_metadata: one row for
   a path, written over an action that is there.  The recovery name is reserved
   by mkstemp.  The app closes a Realm before it has its action handled, so an
   error comes only for one that was not begun or was opened anew. *)
RecordAction(r, kind) ==
    /\ Serving /\ r \notin todo
    /\ file[r] # 0 /\ errors < MaxErrors /\ errors' = errors + 1
    /\ \E n \in Names :
          /\ rec[n] = NoFile /\ \A x \in Realms : action[x].name # n
          /\ action' = [action EXCEPT ![r] =
                [kind |-> kind, of |-> file[r],
                 name |-> IF kind = "BackUpThenDeleteRealm" THEN n ELSE NoOne]]
    /\ owed' = IF kind = "BackUpThenDeleteRealm" THEN owed \cup {<<r, file[r]>>}
                                                 ELSE owed \ {<<r, file[r]>>}
    /\ reopened' = reopened \ {r}
    /\ UNCHANGED <<file, made, rec, account, run, last, crashes, failures, logOuts>>

(* The process dies; the disk stays as it is. *)
Die ==
    /\ proc # "down" /\ crashes < MaxCrashes /\ crashes' = crashes + 1
    /\ proc' = "down" /\ todo' = {} /\ done' = {} /\ copying' = NoOne
    /\ gone' = {} /\ mem' = {} /\ busy' = Idle /\ admin' = {}
    /\ UNCHANGED <<disk, owed, reopened, last, errors, failures, logOuts>>

Next ==
    \/ Launch \/ CopyFails \/ CopyEnds \/ RemoveCopied \/ HandlingEnds
    \/ LoadUsers \/ LaunchEnds \/ SetUserToken \/ MarkForRemoval \/ Die
    \/ \E r \in Realms :
          \/ ImmediatelyRunFileActions(r) \/ DeleteRealm(r) \/ BackUpRefused(r)
          \/ CopyBegins(r) \/ RemoveAction(r) \/ PurgeRealm(r) \/ OpenRealm(r)
          \/ \E kind \in {"DeleteRealm", "BackUpThenDeleteRealm"} : RecordAction(r, kind)
    \/ \E u \in Users :
          RemoveUserDirectory(u) \/ RemoveUser(u) \/ LogIn(u) \/ SetIsAdmin(u) \/ LogOut(u)

Spec == Init /\ [][Next]_vars

-----------------------------------------------------------------------------
(* What is on disk and what the process is doing. *)
TypeOK ==
    /\ file \in [Realms -> 0..MaxIncarnations] /\ made \in [Realms -> 0..MaxIncarnations]
    /\ rec \in [Names -> [realm : Realms \cup {NoOne}, of : 0..MaxIncarnations, full : BOOLEAN]]
    /\ action \in [Realms -> [kind : {"none", "DeleteRealm", "BackUpThenDeleteRealm"},
                              name : Names \cup {NoOne}, of : 0..MaxIncarnations]]
    /\ account \in [Users -> [known : BOOLEAN, token : BOOLEAN, marked : BOOLEAN]]
    /\ proc \in {"down", "launching", "handling", "purging", "up"}
    /\ todo \subseteq Realms \cup Users /\ done \subseteq Realms \ todo
    /\ copying \in Realms \cup {NoOne} /\ gone \subseteq Users /\ mem \subseteq Users
    /\ busy \in [op : {"none", "in", "out"}, user : Users \cup {NoOne}]
    /\ admin \subseteq Users /\ reopened \subseteq Realms
    /\ owed \subseteq Realms \X (1..MaxIncarnations)
    /\ last \in [Users -> {"in", "out", "open"}]
    /\ {errors, crashes, failures, logOuts} \subseteq Nat

(* A Realm that was to be backed up is on disk or complete in the recovery
   directory, at every point at which the process may die, however often
   launches are cut short and copies fail; it is lost only with the directory of
   its user, who must have logged out. *)
InSafety(x) ==
    \/ file[x[1]] = x[2]
    \/ \E n \in Names : rec[n] = [realm |-> x[1], of |-> x[2], full |-> TRUE]
BackedUpOrThere ==
    [][\A x \in owed' : \/ InSafety(x)'
                        \/ x \in owed /\ ~InSafety(x)
                        \/ proc = "purging" /\ last[Owner[x[1]]] # "in"]_vars

(* A file action deletes the incarnation it was recorded for and not the Realm
   downloaded in its place, although actions are repeated after a crash.  One
   case is excepted, in which the code does otherwise: a Realm whose deletion was
   carried out at once, and that was opened anew before the row of the deletion
   was removed.  A backup never deletes a later download, not even then. *)
ActionsHitTheirIncarnation ==
    [][\A r \in Realms :
        file[r] # 0 /\ file'[r] = 0 /\ proc # "purging" =>
            \/ action[r].of = file[r]
            \/ r \in reopened /\ action[r].kind = "DeleteRealm"]_vars

(* A launch restores who was logged in and nobody who was logged out, whatever
   threads and crashes came between the steps of log-ins and log-outs.  Either may
   come of an operation that the crash cut short, and of a log-out that a log-in
   begun before it undid with its late set_is_admin. *)
UsersRestored ==
    Serving => \A u \in Users : /\ last[u] = "in" => u \in mem
                                /\ last[u] = "out" => u \notin mem
=============================================================================
