---------------------------- MODULE SyncFilesProofs ----------------------------
(***************************************************************************)
(* Proofs about SyncFiles: types, the phases of the process, what the       *)
(* metadata says of the users and of the Realms, for any number of them and *)
(* any number of crashes, failed copies and errors.                         *)
(***************************************************************************)
EXTENDS SyncFiles, TLAPS

\* What each phase of the process leaves in the local variables of its loops.
Phases ==
    /\ proc \in {"down", "purging", "up"} => done = {} /\ copying = NoOne
    /\ proc \in {"down", "up"} => todo = {}
    /\ proc # "purging" => todo \subseteq Realms /\ gone = {}
    /\ proc = "purging" => todo \subseteq Users
    /\ copying # NoOne => copying \in todo
    /\ busy.op # "none" => busy.user \in Users /\ Serving
    /\ admin # {} => Serving

\* The metadata tells who is logged in, but for an operation between its steps.
UsersInv ==
    /\ \A u \in Users : /\ last[u] = "in" => u \in PersistedUsers
                        /\ last[u] = "out" => u \notin PersistedUsers
    /\ proc \in {"purging", "up", "handling"} =>
          \A u \in Users : /\ last[u] = "in" => u \in mem
                           /\ last[u] = "out" => u \notin mem
    /\ busy.op = "in" => /\ account[busy.user].known /\ ~account[busy.user].marked
                         /\ last[busy.user] # "out"
    /\ busy.op = "out" => busy.user \notin mem /\ last[busy.user] = "open"
    /\ proc = "purging" => \A u \in Users : u \in todo \/ u \in gone => account[u].marked

\* The recovery file of r's action is there, so the action can only be postponed
\* as long as there is a Realm to back up.
Taken(r) == action[r].kind = "BackUpThenDeleteRealm" /\ rec[action[r].name] # NoFile

\* The deletion of r was carried out, and r opened anew before its row was gone.
Overtaken(r) == action[r].kind = "DeleteRealm" /\ r \in reopened

\* Every recorded action is for the incarnation on disk, or will be postponed, or
\* is a deletion that was overtaken.
ActionsInv ==
    /\ \A r \in Realms : action[r] # NoAction =>
          /\ action[r].kind # "none" /\ action[r].of # 0
          /\ action[r].kind = "BackUpThenDeleteRealm" => action[r].name \in Names
          /\ file[r] = 0 \/ action[r].of = file[r] \/ Taken(r) \/ Overtaken(r)
          /\ proc = "launching" => r \in todo \/ r \in done \/ Taken(r)
          /\ proc = "purging" => Taken(r)
          /\ proc \in {"up", "handling"} =>
                \/ action[r].of = file[r] \/ Taken(r)
                \/ action[r].kind = "DeleteRealm" /\ r \in done
          /\ action[r].kind = "DeleteRealm" => <<r, action[r].of>> \notin owed
    /\ \A r \in reopened : <<r, file[r]>> \notin owed
    /\ \A r \in Realms : file[r] <= made[r]
    /\ \A x \in owed : x[2] <= made[x[1]]
    /\ proc \in {"launching", "handling"} =>
          \A r \in Realms : r \in todo => action[r] # NoAction
    /\ proc = "launching" => \A r \in Realms : r \in done => file[r] = 0
    /\ copying # NoOne =>
          /\ action[copying].kind = "BackUpThenDeleteRealm"
          /\ file[copying] # 0 /\ action[copying].of = file[copying]
          /\ rec[action[copying].name].realm = copying
          /\ rec[action[copying].name].of = file[copying]

IInv == TypeOK /\ Phases /\ UsersInv /\ ActionsInv

-----------------------------------------------------------------------------
(* Types and phases *)

LEMMA FullCopy ==
    ASSUME NEW R, NEW N, NEW f \in [realm : R, of : N, full : BOOLEAN]
    PROVE  /\ [f EXCEPT !.full = TRUE] \in [realm : R, of : N, full : BOOLEAN]
           /\ [f EXCEPT !.full = TRUE].realm = f.realm
           /\ [f EXCEPT !.full = TRUE].of = f.of
           /\ [f EXCEPT !.full = TRUE].full
OBVIOUS

LEMMA LoggedInRow ==
    ASSUME NEW a \in [known : BOOLEAN, token : BOOLEAN, marked : BOOLEAN]
    PROVE  [a EXCEPT !.known = TRUE, !.marked = FALSE]
                \in [known : BOOLEAN, token : BOOLEAN, marked : BOOLEAN]
OBVIOUS

LEMMA InitTypes == Init => TypeOK /\ Phases
<1> SUFFICES ASSUME Init PROVE TypeOK /\ Phases
  OBVIOUS
<1> USE SyncFilesAssumption DEF Init
<1>1. MaxIncarnations \in Nat
  OBVIOUS
<1>2. TypeOK
  BY <1>1 DEF TypeOK, NoFile, NoAction, NoAccount, Idle
<1>3. Phases
  BY DEF Phases, Idle
<1> QED BY <1>2, <1>3

LEMMA NextTypes == ASSUME TypeOK, Phases, [Next]_vars PROVE TypeOK' /\ Phases'
<1> USE SyncFilesAssumption DEF TypeOK, Phases, Serving, disk, run, hist
<1>0. MaxIncarnations \in Nat
  OBVIOUS
<1>1. CASE UNCHANGED vars
  BY <1>1 DEF vars
<1>2. CASE Launch
  BY <1>2 DEF Launch
<1>3. CASE CopyFails
  BY <1>3 DEF CopyFails, Postponed
<1>4. CASE CopyEnds
  <2> DEFINE n == action[copying].name
             Files == [realm : Realms \cup {NoOne}, of : 0..MaxIncarnations, full : BOOLEAN]
  <2>1. rec' = [rec EXCEPT ![n] = [rec[n] EXCEPT !.full = TRUE]] /\ rec \in [Names -> Files]
    BY <1>4 DEF CopyEnds
  <2>2. n \in Names => [rec[n] EXCEPT !.full = TRUE] \in Files
    <3>1. n \in Names => rec[n] \in Files
      <4> HIDE DEF Files, n
      <4> QED BY <2>1
    <3> HIDE DEF TypeOK, Phases, n
    <3> QED BY <3>1, FullCopy
  <2>3. rec' \in [Names -> Files]
    <3> HIDE DEF n, Files
    <3> QED BY <2>1, <2>2
  <2> QED BY <1>4, <2>3 DEF CopyEnds
<1>5. CASE RemoveCopied
  BY <1>0, <1>5 DEF RemoveCopied, Finished
<1>6. CASE HandlingEnds
  BY <1>6 DEF HandlingEnds
<1>7. CASE LoadUsers
  BY <1>7 DEF LoadUsers, PersistedUsers
<1>8. CASE LaunchEnds
  BY <1>8 DEF LaunchEnds
<1>9. CASE SetUserToken
  BY <1>9, ZenonT(60) DEF SetUserToken, Idle
<1>10. CASE MarkForRemoval
  BY <1>10, ZenonT(60) DEF MarkForRemoval, Idle
<1>11. CASE Die
  BY <1>11 DEF Die, Idle
<1>12. ASSUME NEW r \in Realms, ImmediatelyRunFileActions(r) PROVE TypeOK' /\ Phases'
  BY <1>12 DEF ImmediatelyRunFileActions
<1>13. ASSUME NEW r \in Realms, DeleteRealm(r) PROVE TypeOK' /\ Phases'
  BY <1>0, <1>13 DEF DeleteRealm, Running, Finished
<1>14. ASSUME NEW r \in Realms, BackUpRefused(r) PROVE TypeOK' /\ Phases'
  BY <1>14 DEF BackUpRefused, Running, Postponed
<1>15. ASSUME NEW r \in Realms, CopyBegins(r) PROVE TypeOK' /\ Phases'
  BY <1>15 DEF CopyBegins, Running
<1>16. ASSUME NEW r \in Realms, RemoveAction(r) PROVE TypeOK' /\ Phases'
  BY <1>0, <1>16 DEF RemoveAction, Running, Recorded, NoAction
<1>17. ASSUME NEW r \in Realms, OpenRealm(r) PROVE TypeOK' /\ Phases'
  BY <1>0, <1>17 DEF OpenRealm
<1>18. ASSUME NEW r \in Realms, NEW kind \in {"DeleteRealm", "BackUpThenDeleteRealm"},
              RecordAction(r, kind)
       PROVE  TypeOK' /\ Phases'
  BY <1>0, <1>18 DEF RecordAction
<1>19. ASSUME NEW u \in Users, RemoveUserDirectory(u) PROVE TypeOK' /\ Phases'
  BY <1>0, <1>19 DEF RemoveUserDirectory
<1>20. ASSUME NEW u \in Users, RemoveUser(u) PROVE TypeOK' /\ Phases'
  BY <1>20 DEF RemoveUser, NoAccount
<1>21. ASSUME NEW u \in Users, LogIn(u) PROVE TypeOK' /\ Phases'
  <2> DEFINE Accounts == [known : BOOLEAN, token : BOOLEAN, marked : BOOLEAN]
  <2>1. /\ account' = [account EXCEPT ![u] = GetOrMake(u)]
        /\ account \in [Users -> Accounts]
    BY <1>21 DEF LogIn
  <2>2. account[u] \in Accounts => GetOrMake(u) \in Accounts
    <3> HIDE DEF TypeOK, Phases
    <3> QED BY LoggedInRow DEF GetOrMake
  <2>3. account' \in [Users -> Accounts]
    <3> HIDE DEF TypeOK, Phases, Accounts
    <3> QED BY <2>1, <2>2
  <2> QED BY <1>21, <2>3 DEF LogIn
<1>22. ASSUME NEW u \in Users, LogOut(u) PROVE TypeOK' /\ Phases'
  BY <1>22 DEF LogOut
<1>23. ASSUME NEW r \in Realms, PurgeRealm(r) PROVE TypeOK' /\ Phases'
  BY <1>0, <1>23 DEF PurgeRealm
<1>24. ASSUME NEW u \in Users, SetIsAdmin(u) PROVE TypeOK' /\ Phases'
  <2> DEFINE Accounts == [known : BOOLEAN, token : BOOLEAN, marked : BOOLEAN]
  <2>1. /\ account' = [account EXCEPT ![u] = GetOrMake(u)]
        /\ account \in [Users -> Accounts]
    BY <1>24 DEF SetIsAdmin
  <2>2. account[u] \in Accounts => GetOrMake(u) \in Accounts
    <3> HIDE DEF TypeOK, Phases
    <3> QED BY LoggedInRow DEF GetOrMake
  <2>3. account' \in [Users -> Accounts]
    <3> HIDE DEF TypeOK, Phases, Accounts
    <3> QED BY <2>1, <2>2
  <2> QED BY <1>24, <2>3 DEF SetIsAdmin
<1> QED BY <1>1, <1>2, <1>3, <1>4, <1>5, <1>6, <1>7, <1>8, <1>9, <1>10, <1>11, <1>12,
           <1>13, <1>14, <1>15, <1>16, <1>17, <1>18, <1>19, <1>20, <1>21, <1>22, <1>23,
           <1>24 DEF Next

-----------------------------------------------------------------------------
(* The users *)

LEMMA NextUsers == ASSUME TypeOK, Phases, UsersInv, [Next]_vars PROVE UsersInv'
<1> USE DEF UsersInv, Serving, disk, run, hist, PersistedUsers
<1>0. /\ account \in [Users -> [known : BOOLEAN, token : BOOLEAN, marked : BOOLEAN]]
      /\ last \in [Users -> {"in", "out", "open"}]
      /\ mem \subseteq Users /\ gone \subseteq Users
      /\ busy.op \in {"none", "in", "out"}
  BY DEF TypeOK
<1>p. /\ proc \in {"down", "launching", "handling", "purging", "up"}
      /\ proc # "purging" => gone = {}
      /\ busy.op # "none" => busy.user \in Users /\ proc \in {"up", "handling"}
      /\ admin # {} => proc \in {"up", "handling"}
      /\ admin \subseteq Users
  BY DEF Phases, TypeOK
<1>1. CASE UNCHANGED vars
  BY <1>1 DEF vars
<1>2. CASE Launch
  BY <1>p, <1>2 DEF Launch
<1>3. CASE CopyFails
  BY <1>3 DEF CopyFails, Phases
<1>4. CASE CopyEnds
  BY <1>4 DEF CopyEnds
<1>5. CASE RemoveCopied
  BY <1>5 DEF RemoveCopied, Phases
<1>6. CASE HandlingEnds
  BY <1>6 DEF HandlingEnds
<1>7. CASE LoadUsers
  BY <1>p, <1>7 DEF LoadUsers
<1>8. CASE LaunchEnds
  BY <1>8 DEF LaunchEnds
<1>9. CASE SetUserToken
  BY <1>0, <1>p, <1>9 DEF SetUserToken, Idle
<1>10. CASE MarkForRemoval
  BY <1>0, <1>p, <1>10 DEF MarkForRemoval, Idle
<1>11. CASE Die
  BY <1>11 DEF Die, Idle
<1>12. ASSUME NEW r \in Realms, ImmediatelyRunFileActions(r) PROVE UsersInv'
  BY <1>12 DEF ImmediatelyRunFileActions
<1>13. ASSUME NEW r \in Realms, DeleteRealm(r) PROVE UsersInv'
  BY <1>13 DEF DeleteRealm, Running
<1>14. ASSUME NEW r \in Realms, BackUpRefused(r) PROVE UsersInv'
  BY <1>14 DEF BackUpRefused, Running
<1>15. ASSUME NEW r \in Realms, CopyBegins(r) PROVE UsersInv'
  BY <1>15 DEF CopyBegins, Running
<1>16. ASSUME NEW r \in Realms, RemoveAction(r) PROVE UsersInv'
  BY <1>16 DEF RemoveAction, Running
<1>17. ASSUME NEW r \in Realms, OpenRealm(r) PROVE UsersInv'
  BY <1>17 DEF OpenRealm
<1>18. ASSUME NEW r \in Realms, NEW kind \in {"DeleteRealm", "BackUpThenDeleteRealm"},
              RecordAction(r, kind)
       PROVE  UsersInv'
  BY <1>18 DEF RecordAction
<1>19. ASSUME NEW u \in Users, RemoveUserDirectory(u) PROVE UsersInv'
  BY <1>0, <1>p, <1>19 DEF RemoveUserDirectory
<1>20. ASSUME NEW u \in Users, RemoveUser(u) PROVE UsersInv'
  BY <1>0, <1>p, <1>20 DEF RemoveUser, NoAccount
<1>21. ASSUME NEW u \in Users, LogIn(u) PROVE UsersInv'
  BY <1>0, <1>p, <1>21 DEF LogIn, GetOrMake, Idle
<1>22. ASSUME NEW u \in Users, LogOut(u) PROVE UsersInv'
  BY <1>0, <1>p, <1>22 DEF LogOut, Idle
<1>23. ASSUME NEW r \in Realms, PurgeRealm(r) PROVE UsersInv'
  BY <1>23 DEF PurgeRealm
<1>24. ASSUME NEW u \in Users, SetIsAdmin(u) PROVE UsersInv'
  BY <1>0, <1>p, <1>24 DEF SetIsAdmin, GetOrMake
<1> QED BY <1>1, <1>2, <1>3, <1>4, <1>5, <1>6, <1>7, <1>8, <1>9, <1>10, <1>11, <1>12,
           <1>13, <1>14, <1>15, <1>16, <1>17, <1>18, <1>19, <1>20, <1>21, <1>22, <1>23,
           <1>24 DEF Next

-----------------------------------------------------------------------------
(* The file actions *)

LEMMA NextActions == ASSUME TypeOK, Phases, ActionsInv, [Next]_vars PROVE ActionsInv'
<1> USE DEF ActionsInv, Taken, Overtaken, Serving, disk, run, hist
<1>0. /\ file \in [Realms -> 0..MaxIncarnations]
      /\ DOMAIN rec = Names /\ DOMAIN action = Realms
      /\ \A r \in Realms : action[r].of \in Nat
      /\ \A r \in Realms : file[r] \in Nat /\ made[r] \in Nat
      /\ DOMAIN made = Realms /\ reopened \subseteq Realms
      /\ \A x \in owed : x[1] \in Realms /\ x[2] \in Nat /\ x[2] # 0
      /\ done \subseteq Realms \ todo
      /\ NoOne \notin Realms
  BY SyncFilesAssumption DEF TypeOK
<1>p. /\ proc \in {"down", "launching", "handling", "purging", "up"}
      /\ proc \in {"down", "purging", "up"} => done = {} /\ copying = NoOne
      /\ proc \in {"down", "up"} => todo = {}
      /\ proc # "purging" => todo \subseteq Realms
      /\ copying # NoOne => copying \in todo
  BY DEF Phases, TypeOK
<1>1. CASE UNCHANGED vars
  BY <1>1 DEF vars
<1>2. CASE Launch
  BY <1>p, <1>2 DEF Launch
<1>3. CASE CopyFails
  <2>1. copying \in Realms /\ copying # NoOne
    BY <1>3 DEF CopyFails, TypeOK
  <2>2. Taken(copying)
    BY <2>1 DEF NoFile
  <2> QED BY <1>0, <1>p, <1>3, <2>1, <2>2 DEF CopyFails, Postponed
<1>4. CASE CopyEnds
  <2> DEFINE n == action[copying].name
             Files == [realm : Realms \cup {NoOne}, of : 0..MaxIncarnations, full : BOOLEAN]
  <2>1. /\ copying # NoOne /\ copying \in Realms
        /\ rec' = [rec EXCEPT ![n] = [rec[n] EXCEPT !.full = TRUE]]
        /\ rec \in [Names -> Files]
    BY <1>4 DEF CopyEnds, TypeOK
  <2>2. n \in Names
    BY <1>p, <2>1
  <2>3. /\ DOMAIN rec' = Names
        /\ \A m \in Names : m # n => rec'[m] = rec[m]
        /\ rec'[n] = [rec[n] EXCEPT !.full = TRUE] /\ rec[n] \in Files
    <3> HIDE DEF n, Files
    <3> QED BY <2>1, <2>2
  <2>4. rec'[n].realm = rec[n].realm /\ rec'[n].of = rec[n].of
    <3> HIDE DEF TypeOK, Phases, ActionsInv, n
    <3> QED BY <2>3, FullCopy
  <2>5. rec[n].realm = copying /\ rec[n].of = file[copying] /\ NoFile.realm = NoOne
    BY <2>1 DEF NoFile
  <2>6. \A m \in Names : rec[m] # NoFile => rec'[m] # NoFile
    <3> HIDE DEF n
    <3> QED BY <2>1, <2>3, <2>4, <2>5
  <2> HIDE DEF n, Files
  <2> QED BY <1>0, <1>p, <1>4, <2>1, <2>4, <2>5, <2>6 DEF CopyEnds, n
<1>5. CASE RemoveCopied
  <2>1. copying \in Realms /\ copying # NoOne
    BY <1>5 DEF RemoveCopied, TypeOK
  <2>2. Taken(copying)
    BY <2>1 DEF NoFile
  <2>3. <<copying, 0>> \notin owed
    BY <1>0
  <2> QED BY <1>0, <1>p, <1>5, <2>1, <2>2, <2>3 DEF RemoveCopied, Finished
<1>6. CASE HandlingEnds
  BY <1>p, <1>6 DEF HandlingEnds
<1>7. CASE LoadUsers
  BY <1>p, <1>7 DEF LoadUsers
<1>8. CASE LaunchEnds
  BY <1>p, <1>8 DEF LaunchEnds
<1>9. CASE SetUserToken
  BY <1>9 DEF SetUserToken
<1>10. CASE MarkForRemoval
  BY <1>10 DEF MarkForRemoval
<1>11. CASE Die
  BY <1>0, <1>p, <1>11 DEF Die
<1>12. ASSUME NEW r \in Realms, ImmediatelyRunFileActions(r) PROVE ActionsInv'
  BY <1>0, <1>p, <1>12 DEF ImmediatelyRunFileActions
<1>13. ASSUME NEW r \in Realms, DeleteRealm(r) PROVE ActionsInv'
  BY <1>0, <1>p, <1>13 DEF DeleteRealm, Running, Finished
<1>14. ASSUME NEW r \in Realms, BackUpRefused(r) PROVE ActionsInv'
  BY <1>0, <1>p, <1>14 DEF BackUpRefused, Running, Postponed, MayCopy
<1>15. ASSUME NEW r \in Realms, CopyBegins(r) PROVE ActionsInv'
  BY <1>0, <1>p, <1>15 DEF CopyBegins, Running, MayCopy, NoFile
<1>16. ASSUME NEW r \in Realms, RemoveAction(r) PROVE ActionsInv'
  BY <1>0, <1>p, <1>16 DEF RemoveAction, Running, Recorded
<1>17. ASSUME NEW r \in Realms, OpenRealm(r) PROVE ActionsInv'
  BY <1>0, <1>p, <1>17 DEF OpenRealm
<1>18. ASSUME NEW r \in Realms, NEW kind \in {"DeleteRealm", "BackUpThenDeleteRealm"},
              RecordAction(r, kind)
       PROVE  ActionsInv'
  BY <1>0, <1>p, <1>18 DEF RecordAction
<1>19. ASSUME NEW u \in Users, RemoveUserDirectory(u) PROVE ActionsInv'
  BY <1>0, <1>p, <1>19 DEF RemoveUserDirectory
<1>20. ASSUME NEW u \in Users, RemoveUser(u) PROVE ActionsInv'
  BY <1>p, <1>20 DEF RemoveUser
<1>21. ASSUME NEW u \in Users, LogIn(u) PROVE ActionsInv'
  BY <1>21 DEF LogIn
<1>22. ASSUME NEW u \in Users, LogOut(u) PROVE ActionsInv'
  BY <1>22 DEF LogOut
<1>23. ASSUME NEW r \in Realms, PurgeRealm(r) PROVE ActionsInv'
  BY <1>0, <1>p, <1>23 DEF PurgeRealm
<1>24. ASSUME NEW u \in Users, SetIsAdmin(u) PROVE ActionsInv'
  BY <1>24 DEF SetIsAdmin
<1> QED BY <1>1, <1>2, <1>3, <1>4, <1>5, <1>6, <1>7, <1>8, <1>9, <1>10, <1>11, <1>12,
           <1>13, <1>14, <1>15, <1>16, <1>17, <1>18, <1>19, <1>20, <1>21, <1>22, <1>23,
           <1>24 DEF Next

-----------------------------------------------------------------------------
(* The theorems *)

LEMMA InitInv == Init => IInv
<1>1. Init => UsersInv
  BY DEF Init, UsersInv, PersistedUsers, NoAccount, Idle
<1>2. Init => ActionsInv
  BY DEF Init, ActionsInv
<1> QED BY <1>1, <1>2, InitTypes DEF IInv

LEMMA NextInv == IInv /\ [Next]_vars => IInv'
BY NextTypes, NextUsers, NextActions DEF IInv

LEMMA Invariance == Spec => []IInv
BY InitInv, NextInv, PTL DEF Spec

\* The variables of the sync file model keep their types.
THEOREM TypesOK == Spec => []TypeOK
BY Invariance, PTL DEF IInv

\* While the process serves the app, who was logged in is logged in and who was
\* logged out is not: a launch after a crash at any point of a log-in, a log-out,
\* a file action or another launch restores exactly the users whose last
\* operation returned, unless the late set_is_admin of a log-in undid a log-out.
THEOREM LoginsRestored == Spec => []UsersRestored
<1>1. IInv => UsersRestored
  BY DEF IInv, UsersInv, UsersRestored, Serving
<1> QED BY <1>1, Invariance, PTL

\* A file action, run at once while other threads work on or repeated by any
\* number of launches, deletes the incarnation of the Realm it was recorded for
\* and never a later download, but for a deletion overtaken by a new opening.
THEOREM ActionsHit == Spec => ActionsHitTheirIncarnation
<1> DEFINE Hit(r) == \/ action[r].of = file[r]
                     \/ r \in reopened /\ action[r].kind = "DeleteRealm"
<1>1. IInv /\ [Next]_vars =>
        [\A r \in Realms :
           file[r] # 0 /\ file'[r] = 0 /\ proc # "purging" =>
               \/ action[r].of = file[r]
               \/ r \in reopened /\ action[r].kind = "DeleteRealm"]_vars
  <2> SUFFICES ASSUME TypeOK, Phases, ActionsInv, Next, NEW x \in Realms,
                      file[x] # 0, file'[x] = 0, proc # "purging"
               PROVE  Hit(x)
    BY DEF IInv
  <2>0. file \in [Realms -> 0..MaxIncarnations] /\ MaxIncarnations \in Nat
    BY SyncFilesAssumption DEF TypeOK
  <2>1. CASE file' = file
    BY <2>1
  <2>2. CASE RemoveCopied
    <3>1. x = copying
      BY <2>0, <2>2 DEF RemoveCopied
    <3>2. action[copying].of = file[copying]
      BY <2>2 DEF RemoveCopied, ActionsInv
    <3> QED BY <3>1, <3>2
  <2>3. ASSUME NEW r \in Realms, DeleteRealm(r) PROVE Hit(x)
    <3>1. x = r /\ action[x] # NoAction /\ action[x].kind = "DeleteRealm"
      BY <2>0, <2>3 DEF DeleteRealm, Running, ActionsInv
    <3> QED BY <3>1 DEF ActionsInv, Taken, Overtaken
  <2>4. ASSUME NEW r \in Realms, OpenRealm(r) PROVE Hit(x)
    <3>1. made[r] + 1 # 0
      BY SyncFilesAssumption DEF TypeOK
    <3> QED BY <2>0, <2>4, <3>1 DEF OpenRealm
  <2>5. \/ file' = file \/ RemoveCopied
        \/ \E r \in Realms : DeleteRealm(r) \/ OpenRealm(r)
    BY DEF Next, disk, Launch, CopyFails, CopyEnds, HandlingEnds, LoadUsers, LaunchEnds,
           SetUserToken, MarkForRemoval, Die, ImmediatelyRunFileActions, BackUpRefused,
           CopyBegins, RemoveAction, RecordAction, RemoveUserDirectory, PurgeRealm,
           RemoveUser, LogIn, SetIsAdmin, LogOut
  <2> QED BY <2>1, <2>2, <2>3, <2>4, <2>5
<1> QED BY <1>1, Invariance, PTL DEF Spec, ActionsHitTheirIncarnation

\* A Realm to be backed up is on disk or complete in the recovery directory
\* after every step, unless the step removes the directory of its owner, who is
\* not logged in.
THEOREM NeverLost == Spec => BackedUpOrThere
<1>1. IInv /\ [Next]_vars =>
        [\A x \in owed' : \/ InSafety(x)'
                          \/ x \in owed /\ ~InSafety(x)
                          \/ proc = "purging" /\ last[Owner[x[1]]] # "in"]_vars
  <2> SUFFICES ASSUME IInv, Next, NEW x \in owed', x \in owed => InSafety(x),
                      ~(proc = "purging" /\ last[Owner[x[1]]] # "in")
               PROVE  InSafety(x)'
    OBVIOUS
  <2>0. /\ TypeOK /\ Phases /\ UsersInv /\ ActionsInv /\ MaxIncarnations \in Nat
        /\ Owner \in [Realms -> Users] /\ NoOne \notin Realms
        /\ file \in [Realms -> 0..MaxIncarnations] /\ DOMAIN rec = Names
    BY SyncFilesAssumption DEF IInv, TypeOK
  <2>x. x \in Realms \X (1..MaxIncarnations) /\ x[1] \in Realms /\ x[2] \in 1..MaxIncarnations
        /\ x = <<x[1], x[2]>>
    <3>1. owed' \subseteq Realms \X (1..MaxIncarnations)
      BY NextTypes, <2>0 DEF TypeOK
    <3> QED BY <3>1
  <2> DEFINE a == x[1]
             i == x[2]
             c == [realm |-> a, of |-> i, full |-> TRUE]
  <2>s. /\ InSafety(x) <=> (file[a] = i \/ \E n \in Names : rec[n] = c)
        /\ InSafety(x)' <=> (file'[a] = i \/ \E n \in Names : rec'[n] = c)
        /\ a \in Realms /\ i \in Nat /\ i # 0 /\ x = <<a, i>>
    BY <2>0, <2>x DEF InSafety
  <2> HIDE DEF a, i, c
  <2>1. CASE UNCHANGED <<file, rec, owed>>
    BY <2>1 DEF InSafety
  <2>2. CASE RemoveCopied
    <3>1. /\ copying # NoOne /\ copying \in Realms /\ UNCHANGED <<rec, owed>>
          /\ rec[action[copying].name].full /\ file' = [file EXCEPT ![copying] = 0]
      BY <2>0, <2>2 DEF RemoveCopied, CopyIsSafe, TypeOK, hist
    <3>2. CASE file[x[1]] = x[2] /\ x[1] = copying
      <4> DEFINE n == action[copying].name
      <4>1. n \in Names /\ rec[n].realm = copying /\ rec[n].of = file[copying]
        BY <2>0, <3>1 DEF ActionsInv, Phases, TypeOK
      <4>2. rec[n] \in [realm : Realms \cup {NoOne}, of : 0..MaxIncarnations, full : BOOLEAN]
        BY <2>0, <4>1 DEF TypeOK
      <4>3. rec[n] = [realm |-> x[1], of |-> x[2], full |-> TRUE]
        <5> HIDE DEF n
        <5>1. rec[n].full = TRUE
          BY <3>1, <4>2 DEF n
        <5> QED BY <3>2, <4>1, <4>2, <5>1
      <4> QED BY <3>1, <4>1, <4>3 DEF InSafety
    <3>3. CASE file[x[1]] = x[2] /\ x[1] # copying
      BY <2>0, <2>x, <3>1, <3>3 DEF InSafety
    <3>4. CASE file[x[1]] # x[2]
      BY <3>1, <3>4 DEF InSafety
    <3> QED BY <3>2, <3>3, <3>4
  <2>3. CASE CopyEnds
    <3> DEFINE n == action[copying].name
    <3>1. /\ ~rec[n].full /\ UNCHANGED <<file, owed>>
          /\ rec' = [rec EXCEPT ![n] = [rec[n] EXCEPT !.full = TRUE]]
      BY <2>3 DEF CopyEnds, hist
    <3>2. \A m \in Names : rec[m] = [realm |-> x[1], of |-> x[2], full |-> TRUE]
                              => rec'[m] = rec[m]
      <4> HIDE DEF n
      <4>1. \A m \in Names : m # n => rec'[m] = rec[m]
        BY <2>0, <3>1
      <4> QED BY <3>1, <4>1
    <3> QED BY <3>1, <3>2 DEF InSafety
  <2>4. ASSUME NEW r \in Realms, CopyBegins(r) PROVE InSafety(x)'
    <3>1. /\ rec[action[r].name] = NoFile /\ UNCHANGED <<file, owed>>
          /\ \A m \in Names : m # action[r].name => rec'[m] = rec[m]
      BY <2>0, <2>4 DEF CopyBegins, MayCopy, hist
    <3>2. NoFile # [realm |-> x[1], of |-> x[2], full |-> TRUE]
      BY DEF NoFile
    <3> QED BY <3>1, <3>2 DEF InSafety
  <2>5. ASSUME NEW r \in Realms, DeleteRealm(r) PROVE InSafety(x)'
    <3>1. UNCHANGED <<rec, owed>> /\ file' = [file EXCEPT ![r] = 0]
          /\ (action[r].kind = "DeleteRealm" \/ file[r] = 0)
      BY <2>5 DEF DeleteRealm, hist
    <3>2. CASE x[1] = r /\ file[r] = x[2]
      <4>1. action[r] # NoAction /\ action[r].kind = "DeleteRealm"
        BY <2>0, <2>x, <2>5, <3>1, <3>2 DEF DeleteRealm, Running, ActionsInv
      <4>2. <<r, file[r]>> \notin owed
        <5>1. file[r] # 0
          BY <2>s, <3>2 DEF a, i
        <5>2. action[r].of = file[r] \/ r \in reopened
          BY <2>0, <4>1, <5>1 DEF ActionsInv, Taken, Overtaken
        <5> QED BY <2>0, <4>1, <5>2 DEF ActionsInv
      <4>3. x = <<r, file[r]>>
        BY <2>s, <3>2 DEF a, i
      <4> QED BY <3>1, <4>2, <4>3
    <3>3. CASE ~(x[1] = r /\ file[r] = x[2])
      BY <2>0, <2>x, <3>1, <3>3 DEF InSafety
    <3> QED BY <3>2, <3>3
  <2>6. ASSUME NEW r \in Realms, OpenRealm(r) PROVE InSafety(x)'
    <3>1. UNCHANGED <<rec, owed>> /\ file[r] = 0 /\ file' = [file EXCEPT ![r] = made[r] + 1]
      BY <2>6 DEF OpenRealm, hist
    <3> QED BY <2>0, <2>s, <3>1
  <2>7. ASSUME NEW r \in Realms, NEW kind \in {"DeleteRealm", "BackUpThenDeleteRealm"},
               RecordAction(r, kind)
        PROVE  InSafety(x)'
    <3>1. UNCHANGED <<file, rec>> /\ (x \in owed \/ x = <<r, file[r]>>)
      BY <2>7 DEF RecordAction
    <3>2. CASE x = <<r, file[r]>>
      BY <2>s, <3>1, <3>2
    <3> QED BY <2>s, <3>1, <3>2
  <2>8. ASSUME NEW r \in Realms, PurgeRealm(r) PROVE InSafety(x)'
    <3>1. /\ UNCHANGED <<rec, owed>> /\ file' = [file EXCEPT ![r] = 0]
          /\ last[Owner[x[1]]] = "in" /\ account[Owner[r]].marked /\ Owner[r] \in Users
      BY <2>0, <2>x, <2>8 DEF PurgeRealm, hist, run, UsersInv, TypeOK
    <3>2. x[1] # r
      BY <2>0, <2>x, <3>1 DEF UsersInv, PersistedUsers
    <3>3. file'[x[1]] = file[x[1]]
      BY <2>0, <2>x, <3>1, <3>2
    <3> QED BY <3>1, <3>3 DEF InSafety
  <2>9. \/ UNCHANGED <<file, rec, owed>> \/ RemoveCopied \/ CopyEnds
        \/ \E r \in Realms :
              \/ CopyBegins(r) \/ DeleteRealm(r) \/ OpenRealm(r) \/ PurgeRealm(r)
              \/ \E kind \in {"DeleteRealm", "BackUpThenDeleteRealm"} : RecordAction(r, kind)
    BY DEF Next, disk, run, hist, Launch, CopyFails, HandlingEnds, LoadUsers, LaunchEnds,
           SetUserToken, MarkForRemoval, Die, ImmediatelyRunFileActions, BackUpRefused,
           RemoveAction, RemoveUserDirectory, RemoveUser, LogIn, SetIsAdmin, LogOut
  <2> QED BY <2>1, <2>2, <2>3, <2>4, <2>5, <2>6, <2>7, <2>8, <2>9
<1> QED BY <1>1, Invariance, PTL DEF Spec, BackedUpOrThere

=============================================================================
