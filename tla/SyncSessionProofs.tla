--------------------------- MODULE SyncSessionProofs ---------------------------
(***************************************************************************)
(* Proofs about SyncSession, for any number of completion callbacks, opens, *)
(* log-ins, errors and commits.                                             *)
(***************************************************************************)
EXTENDS SyncSession, FiniteSetTheorems, TLAPS

\* A sync::Session that exists has been bound, and only a live state has one.
BoundOK(t) ==
    /\ t.sess # 0 => t.bound
    /\ t.state \in {"active", "dying"} => t.sess # 0
    /\ t.state \in {"inactive", "destroyed"} => t.sess = 0

\* get_session will still revive the session.
Opening == opening \in {"create", "found", "come online", "revive"}

\* The revivals still to come of calls that were counted.
Pending == IF reviving THEN IF Opening THEN 2 ELSE 1 ELSE IF Opening THEN 1 ELSE 0

\* Every sync::Session costs a revival, and every revival a call that was counted.
RevivalsInv ==
    /\ s.made + Pending <= opens
    /\ s.state = "waiting" /\ s.sess = 0 => s.made + 1 + Pending <= opens

\* A waiter is called (c), in the queue (q) or at the client (ws), once in all.
WaitersOK(c, q, ws) ==
    /\ \A w \in Waiters : /\ c[w] \in {0, 1}
                          /\ c[w] = 1 => w \notin q /\ \A x \in ws : x.w # w
                          /\ w \in q => \A x \in ws : x.w # w
    /\ \A x, y \in ws : x.w = y.w => x = y

\* The callback of the death the session is dying waits for what was announced then.
DeathsOK(t, ds, at) ==
    /\ \A d \in ds : d.count <= t.deathCount
    /\ t.state = "dying" =>
          \A d \in ds : d.count = t.deathCount => d.sess = t.sess /\ d.target = at

\* What holds of the session whenever its lock is free.
SessionInv ==
    BoundOK(s) /\ WaitersOK(calls, s.packages, waits) /\ DeathsOK(s, deaths, closedAt)

\* With one writer at a time, what the client does not know is on its way.
KnownInv ==
    /\ announced <= committed /\ s.deferredCommit <= committed
    /\ notices \subseteq {committed}
    /\ notices = {} /\ ~unheard =>
          /\ s.state \in {"active", "dying"} => announced = committed
          /\ s.state = "waiting" /\ s.sess # 0 =>
                LatestOf(announced, s.deferredCommit) = committed

\* Everything but the knowledge of commits, which needs a single writer.
IInv == TypeOK /\ SessionInv /\ RevivalsInv

-----------------------------------------------------------------------------
(* Types *)

SessionFields ==
    [state : {"inactive", "waiting", "active", "dying", "destroyed"},
     sess : 0..MaxOpens, bound : BOOLEAN, deferredClose : BOOLEAN,
     packages : SUBSET Waiters, deferredCommit : 0..MaxCommits,
     deathCount : Nat, made : 0..MaxOpens]

States == {"inactive", "waiting", "active", "dying", "destroyed"}

\* The updates of the session's fields that the handlers make.
LEMMA Moved ==
    ASSUME NEW t \in SessionFields, NEW st \in States, NEW q \in SUBSET Waiters,
           NEW k \in 0..MaxOpens
    PROVE  /\ [t EXCEPT !.state = st] \in SessionFields
           /\ [t EXCEPT !.packages = q] \in SessionFields
           /\ [t EXCEPT !.state = st, !.packages = q, !.sess = k] \in SessionFields
BY DEF SessionFields, States

LEMMA Counted ==
    ASSUME NEW t \in SessionFields, NEW st \in States, NEW n \in Nat, NEW b \in BOOLEAN,
           NEW c \in 0..MaxCommits
    PROVE  /\ [t EXCEPT !.state = st, !.deathCount = n] \in SessionFields
           /\ [t EXCEPT !.deferredClose = b] \in SessionFields
           /\ [t EXCEPT !.deferredCommit = c] \in SessionFields
BY DEF SessionFields, States

LEMMA Flagged ==
    ASSUME NEW t \in SessionFields, NEW st \in States, NEW b \in BOOLEAN
    PROVE  [t EXCEPT !.state = st, !.deferredClose = b] \in SessionFields
BY DEF SessionFields, States

LEMMA Bounds == MaxOpens \in Nat /\ MaxOpens >= 1 /\ MaxErrors \in Nat /\ MaxCommits \in Nat
BY SyncSessionAssumption

LEMMA TypeParts ==
    ASSUME TypeOK
    PROVE  /\ s \in SessionFields /\ calls \in [Waiters -> Nat]
           /\ deaths \subseteq [count : Nat, sess : 1..MaxOpens, target : 0..MaxCommits]
           /\ waits \subseteq [w : Waiters, sess : 1..MaxOpens]
           /\ closedAt \in 0..MaxCommits /\ announced \in 0..MaxCommits
           /\ committed \in 0..MaxCommits /\ notices \subseteq 1..MaxCommits
           /\ opens \in Nat /\ opens <= MaxOpens
<1>1. opens \in 0..MaxOpens
  BY DEF TypeOK
<1>2. opens \in Nat /\ opens <= MaxOpens
  BY <1>1, Bounds
<1> QED BY <1>2 DEF TypeOK, SessionFields

LEMMA FieldTypes ==
    ASSUME NEW t \in SessionFields
    PROVE  /\ t.state \in States /\ t.sess \in Nat /\ t.sess \in 0..MaxOpens
           /\ t.bound \in BOOLEAN /\ t.deferredClose \in BOOLEAN
           /\ t.packages \in SUBSET Waiters
           /\ t.deferredCommit \in 0..MaxCommits /\ t.deferredCommit \in Nat
           /\ t.deathCount \in Nat /\ t.made \in Nat /\ t.made \in 0..MaxOpens
BY Bounds DEF SessionFields, States

LEMMA AbortedType ==
    ASSUME calls \in [Waiters -> Nat], NEW ws
    PROVE  Aborted(ws) \in [Waiters -> Nat]
BY DEF Aborted

\* u is t but for the state, the sync::Session, the queue and the deferred close.
Kept(t, u) ==
    /\ u.bound = t.bound /\ u.deferredCommit = t.deferredCommit
    /\ u.deathCount = t.deathCount /\ u.made = t.made

LEMMA InactiveFields ==
    ASSUME NEW t \in SessionFields, EnterInactive(t)
    PROVE  /\ s' \in SessionFields /\ Kept(t, s')
           /\ s'.state = "inactive" /\ s'.sess = 0 /\ s'.packages = {}
<1>1. 0 \in 0..MaxOpens /\ "inactive" \in States /\ {} \in SUBSET Waiters
  BY Bounds DEF States
<1>2. [t EXCEPT !.state = "inactive", !.packages = {}, !.sess = 0] \in SessionFields
  BY <1>1, Moved
<1>3. s' = [t EXCEPT !.state = "inactive", !.packages = {}, !.sess = 0]
  BY DEF EnterInactive
<1> QED BY <1>2, <1>3 DEF SessionFields, Kept

LEMMA WaitingFields ==
    ASSUME NEW t \in SessionFields,
           Stay([t EXCEPT !.state = "waiting", !.deferredClose = FALSE])
    PROVE  /\ s' \in SessionFields /\ Kept(t, s')
           /\ s'.state = "waiting" /\ s'.sess = t.sess /\ s'.packages = t.packages
<1>1. "waiting" \in States /\ FALSE \in BOOLEAN
  BY DEF States
<1>2. [t EXCEPT !.state = "waiting", !.deferredClose = FALSE] \in SessionFields
  BY <1>1, Flagged
<1>3. s' = [t EXCEPT !.state = "waiting", !.deferredClose = FALSE]
  BY DEF Stay
<1> QED BY <1>2, <1>3 DEF SessionFields, Kept

-----------------------------------------------------------------------------
(* The shapes of a step.  What the invariants are about changes in a few ways
   only, whichever handler the step belongs to. *)

know == <<committed, notices, unheard>>

\* Dying::enter_state of an active session that has a sync::Session.
StartsDying(t) ==
    /\ t.state = "active" /\ t.sess # 0
    /\ s' = [t EXCEPT !.state = "dying", !.deathCount = t.deathCount + 1]
    /\ deaths' = deaths \cup {[count |-> t.deathCount + 1, sess |-> t.sess,
                               target |-> announced']}
    /\ closedAt' = announced'
    /\ UNCHANGED <<calls, unregs>>

LEMMA CloseShape ==
    ASSUME NEW t, Close(t)
    PROVE  \/ Stay(t) \/ EnterInactive(t) \/ StartsDying(t)
           \/ t.state = "waiting" /\ Stay([t EXCEPT !.deferredClose = TRUE])
BY DEF Close, EnterDying, StartsDying

\* The session stays, perhaps in another state.
Revived == s.state = "inactive" /\ Stay([s EXCEPT !.state = "waiting", !.deferredClose = FALSE])
Refreshing == s.state = "active" /\ Stay([s EXCEPT !.state = "waiting", !.deferredClose = FALSE])
Resumed == s.state = "dying" /\ Stay([s EXCEPT !.state = "active"])
CloseNoted == s.state = "waiting" /\ \E b \in BOOLEAN : Stay([s EXCEPT !.deferredClose = b])

\* One locked step of the session that neither the client nor a writer sees.
Locked ==
    \/ UNCHANGED <<s, calls, deaths, closedAt>> \/ Refreshing \/ Resumed \/ CloseNoted
    \/ EnterInactive(s) \/ StartsDying(s) \/ CancelPendingWaits

\* How a step looks to the invariants.
Shape ==
    \/ /\ Locked /\ UNCHANGED <<waits, announced, know>>
       /\ Pending' + opens <= Pending + opens'
    \/ /\ Revived /\ UNCHANGED <<waits, announced, know, opens>>
       /\ Pending' + 1 = Pending
    \/ /\ UNCHANGED <<reviving, opening, opens>>
       /\ \/ Destroy \/ Commit
          \/ \E w \in Waiters : WaitForCompletion(w)
          \/ \E v \in notices : NonsyncTransactNotify(v)
          \/ \E x \in waits : WaitEnds(x)
          \/ \E d \in deaths : UploadCompleted(d)
          \/ RefreshAccessToken /\ UNCHANGED know

LEMMA PendingValues ==
    /\ reviving /\ Opening => Pending = 2
    /\ reviving /\ ~Opening => Pending = 1
    /\ ~reviving /\ Opening => Pending = 1
    /\ ~reviving /\ ~Opening => Pending = 0
    /\ reviving' /\ Opening' => Pending' = 2
    /\ reviving' /\ ~Opening' => Pending' = 1
    /\ ~reviving' /\ Opening' => Pending' = 1
    /\ ~reviving' /\ ~Opening' => Pending' = 0
BY DEF Pending

LEMMA PendingFacts ==
    /\ Pending \in 0..2 /\ Pending' \in 0..2
    /\ UNCHANGED <<reviving, opening>> => Pending' = Pending
    /\ opening' = opening => Pending' <= Pending + 1
    /\ opening' = opening /\ reviving /\ ~reviving'
          => Pending' + 1 = Pending /\ Pending' <= Pending
    /\ reviving' = reviving => Pending' <= Pending + 1
    /\ reviving' = reviving /\ Opening => Pending' <= Pending
    /\ reviving' = reviving /\ Opening /\ ~Opening'
          => Pending' + 1 = Pending /\ Pending' <= Pending
    /\ reviving' = reviving /\ ~Opening /\ ~Opening' => Pending' <= Pending
<1>0. opening' = opening => (Opening' = Opening)
  BY DEF Opening
<1>1. Pending \in 0..2 /\ Pending' \in 0..2
  BY PendingValues
<1>2. UNCHANGED <<reviving, opening>> => Pending' = Pending
  BY <1>0, PendingValues
<1>3. opening' = opening => Pending' <= Pending + 1
  BY <1>0, PendingValues
<1>4. opening' = opening /\ reviving /\ ~reviving'
          => Pending' + 1 = Pending /\ Pending' <= Pending
  BY <1>0, PendingValues
<1>5. reviving' = reviving => Pending' <= Pending + 1
  BY PendingValues
<1>6. reviving' = reviving /\ Opening => Pending' <= Pending
  BY PendingValues
<1>7. reviving' = reviving /\ Opening /\ ~Opening'
          => Pending' + 1 = Pending /\ Pending' <= Pending
  BY PendingValues
<1>8. reviving' = reviving /\ ~Opening /\ ~Opening' => Pending' <= Pending
  BY PendingValues
<1> QED BY <1>1, <1>2, <1>3, <1>4, <1>5, <1>6, <1>7, <1>8

LEMMA Calm ==
    ASSUME TypeOK
    PROVE  /\ Pending' <= Pending /\ opens' = opens => Pending' + opens <= Pending + opens'
           /\ Pending' <= Pending + 1 /\ opens' = opens + 1
                => Pending' + opens <= Pending + opens'
<1>1. opens \in 0..MaxOpens
  BY DEF TypeOK
<1>2. opens \in Nat
  BY <1>1, Bounds
<1>3. Pending \in Int /\ Pending' \in Int
  BY PendingFacts
<1> QED BY <1>2, <1>3

LEMMA Shapes == ASSUME TypeOK, Next PROVE Shape
<1> USE DEF session, manager, account, store, tokens, client, know
<1>s. UNCHANGED <<session, waits, announced, know>>
         /\ Pending' + opens <= Pending + opens' => Shape
  BY DEF Shape, Locked
<1>t. Locked /\ UNCHANGED <<waits, announced, know, reviving, opening, opens>> => Shape
  <2>1. ASSUME UNCHANGED <<reviving, opening, opens>>
        PROVE  Pending' + opens <= Pending + opens'
    <3>1. Pending' = Pending /\ Pending \in 0..2
      BY <2>1, PendingFacts
    <3> QED BY <2>1, <3>1, Calm
  <2> QED BY <2>1 DEF Shape
<1>v. (\E caller : ReviveIfNeeded(caller)) => Revived \/ Locked
  BY DEF ReviveIfNeeded, Revived, Locked, CloseNoted, Resumed, Stay
<1>0. ASSUME NEW caller \in asking, BindSession(caller) PROVE Shape
  BY <1>t, <1>0 DEF BindSession, Locked
<1>1. CASE GetSession
  <2>1. /\ opens' = opens + 1 /\ reviving' = reviving
        /\ UNCHANGED <<session, waits, announced, know>>
    BY <1>1 DEF GetSession
  <2> QED BY <1>s, <2>1, Calm, PendingFacts
<1>2. CASE RegisterSession
  <2>1. /\ Opening /\ reviving' = reviving /\ opens' = opens
        /\ UNCHANGED <<session, waits, announced, know>>
    BY <1>2 DEF RegisterSession, Opening
  <2> QED BY <1>s, <2>1, Calm, PendingFacts
<1>3. CASE GetSessionRevive
  <2>1. /\ Opening /\ ~Opening' /\ reviving' = reviving /\ opens' = opens /\ UNCHANGED <<waits, announced, know>>
        /\ ReviveIfNeeded("get_session")
    BY <1>3 DEF GetSessionRevive, Opening
  <2>2. Pending' + 1 = Pending /\ Pending' <= Pending
    BY <2>1, PendingFacts
  <2> QED BY <1>v, <2>1, <2>2, Calm DEF Shape
<1>4. CASE GetSessionReference
  <2>1. /\ ~Opening /\ ~Opening' /\ reviving' = reviving /\ opens' = opens
        /\ UNCHANGED <<session, waits, announced, know>>
    BY <1>4 DEF GetSessionReference, Opening
  <2> QED BY <1>s, <2>1, Calm, PendingFacts
<1>5. CASE Destroy
  BY <1>5 DEF Destroy, Shape
<1>6. CASE DropReference
  BY <1>t, <1>6 DEF DropReference, Locked
<1>7. CASE DidDropExternalReference
  <2>1. Stay(s) \/ Close(s)
    BY <1>7 DEF DidDropExternalReference
  <2>2. Locked
    BY <2>1, CloseShape DEF Locked, CloseNoted, Stay
  <2> QED BY <1>t, <1>7, <2>2 DEF DidDropExternalReference
<1>8. CASE UnregisterSession
  BY <1>t, <1>8 DEF UnregisterSession, Locked
<1>9. CASE Reconnect
  BY <1>t, <1>9 DEF Reconnect, Locked
<1>10. ASSUME NEW w \in Waiters, WaitForCompletion(w) PROVE Shape
  BY <1>10 DEF WaitForCompletion, Shape
<1>11. CASE Commit
  BY <1>11 DEF Commit, Shape
<1>12. ASSUME NEW v \in notices, NonsyncTransactNotify(v) PROVE Shape
  BY <1>12 DEF NonsyncTransactNotify, Shape
<1>13. CASE LogOut
  <2>1. Locked
    BY <1>13 DEF LogOut, Locked, Stay
  <2> QED BY <1>t, <1>13, <2>1 DEF LogOut
<1>14. CASE InvalidateAllHandles
  BY <1>t, <1>14 DEF InvalidateAllHandles, Locked
<1>15. CASE UpdateRefreshToken
  <2>1. /\ opens' = opens + 1 /\ opening' = opening
        /\ UNCHANGED <<session, waits, announced, know>>
    BY <1>15 DEF UpdateRefreshToken
  <2> QED BY <1>s, <2>1, Calm, PendingFacts
<1>16. CASE ReviveAfterLogIn
  <2>1. /\ reviving /\ ~reviving' /\ opening' = opening /\ opens' = opens
        /\ UNCHANGED <<waits, announced, know>> /\ ReviveIfNeeded("log_in")
    BY <1>16 DEF ReviveAfterLogIn
  <2>2. Pending' + 1 = Pending /\ Pending' <= Pending
    BY <2>1, PendingFacts
  <2> QED BY <1>v, <2>1, <2>2, Calm DEF Shape
<1>17. CASE TokenArrives
  <2>1. UNCHANGED <<reviving, opening, opens, know>>
    BY <1>17 DEF TokenArrives
  <2>2. CASE RefreshAccessToken
    BY <2>1, <2>2 DEF Shape
  <2>3. CASE Stay(s) /\ UNCHANGED <<announced, waits>>
    BY <1>t, <2>1, <2>3 DEF Stay, Locked
  <2> QED BY <1>17, <2>2, <2>3 DEF TokenArrives
<1>18. CASE TokenFails
  BY <1>t, <1>18 DEF TokenFails, Locked
<1>19. ASSUME NEW e \in Error, HandleError(e) PROVE Shape
  <2>1. Locked
    BY <1>19 DEF HandleError, Locked, Stay
  <2> QED BY <1>t, <1>19, <2>1 DEF HandleError
<1>20. CASE HandleErrorCode
  <2>1. Locked
    BY <1>20 DEF HandleErrorCode, Locked, Stay, Refreshing
  <2> QED BY <1>t, <1>20, <2>1 DEF HandleErrorCode
<1>21. CASE Upload
  BY <1>t, <1>21 DEF Upload, Locked
<1>22. ASSUME NEW x \in waits, WaitEnds(x) PROVE Shape
  BY <1>22 DEF WaitEnds, Shape
<1>23. ASSUME NEW d \in deaths, UploadCompleted(d) PROVE Shape
  BY <1>23 DEF UploadCompleted, Shape
<1> HIDE DEF session, manager, account, store, tokens, client, know
<1> QED BY <1>0, <1>1, <1>2, <1>3, <1>4, <1>5, <1>6, <1>7, <1>8, <1>9, <1>10, <1>11, <1>12, <1>13,
           <1>14, <1>15, <1>16, <1>17, <1>18, <1>19, <1>20, <1>21, <1>22, <1>23 DEF Next

-----------------------------------------------------------------------------
(* The session *)

SessionTypes ==
    /\ s \in SessionFields /\ calls \in [Waiters -> Nat]
    /\ deaths \subseteq [count : Nat, sess : 1..MaxOpens, target : 0..MaxCommits]
    /\ closedAt \in 0..MaxCommits

LEMMA AbortedCalls ==
    ASSUME NEW q \in SUBSET Waiters, NEW ws, calls \in [Waiters -> Nat],
           WaitersOK(calls, q, ws), NEW w \in Waiters
    PROVE  /\ w \in q => calls[w] = 0 /\ Aborted(q)[w] = 1
           /\ w \notin q => Aborted(q)[w] = calls[w]
<1>1. Aborted(q)[w] = calls[w] + IF w \in q THEN 1 ELSE 0
  BY DEF Aborted
<1>2. calls[w] \in {0, 1} /\ (calls[w] = 1 => w \notin q)
  BY DEF WaitersOK
<1> QED BY <1>1, <1>2

LEMMA AbortedWaiters ==
    ASSUME NEW q \in SUBSET Waiters, NEW ws, calls \in [Waiters -> Nat],
           WaitersOK(calls, q, ws)
    PROVE  WaitersOK(Aborted(q), {}, ws)
<1>1. \A w \in Waiters : /\ w \in q => calls[w] = 0 /\ Aborted(q)[w] = 1
                         /\ w \notin q => Aborted(q)[w] = calls[w]
  BY AbortedCalls
<1> QED BY <1>1 DEF WaitersOK

\* Wherever a handler leaves a session that was sound, it is sound again.
LEMMA Lands ==
    ASSUME SessionTypes, announced' \in 0..MaxCommits, NEW t \in SessionFields,
           BoundOK(t), WaitersOK(calls, t.packages, waits'), DeathsOK(t, deaths, closedAt),
           Stay(t) \/ EnterInactive(t) \/ StartsDying(t)
    PROVE  /\ SessionTypes' /\ SessionInv' /\ s'.made = t.made
           /\ s'.state = "waiting" => t.state = "waiting" /\ s'.sess = t.sess
<1>1. CASE Stay(t)
  BY <1>1 DEF Stay, SessionTypes, SessionInv
<1>2. CASE EnterInactive(t)
  <2>1. /\ calls' = Aborted(t.packages) /\ UNCHANGED <<deaths, closedAt>>
    BY <1>2 DEF EnterInactive
  <2>2. /\ s' \in SessionFields /\ Kept(t, s')
        /\ s'.state = "inactive" /\ s'.sess = 0 /\ s'.packages = {}
    BY <1>2, InactiveFields
  <2>3. WaitersOK(calls', s'.packages, waits')
    BY <2>1, <2>2, AbortedWaiters, FieldTypes DEF SessionTypes
  <2>4. calls' \in [Waiters -> Nat]
    BY <2>1, AbortedType DEF SessionTypes
  <2>5. DeathsOK(s', deaths', closedAt')
    BY <2>1, <2>2 DEF DeathsOK, Kept
  <2>6. BoundOK(s')
    BY <2>2 DEF BoundOK
  <2> QED BY <2>1, <2>2, <2>3, <2>4, <2>5, <2>6 DEF SessionTypes, SessionInv, Kept
<1>3. CASE StartsDying(t)
  <2> DEFINE d == [count |-> t.deathCount + 1, sess |-> t.sess, target |-> announced']
  <2>1. /\ t.state = "active" /\ t.sess # 0 /\ UNCHANGED calls
        /\ s' = [t EXCEPT !.state = "dying", !.deathCount = t.deathCount + 1]
        /\ deaths' = deaths \cup {d} /\ closedAt' = announced'
    BY <1>3 DEF StartsDying
  <2>2. t.deathCount \in Nat /\ t.sess \in 0..MaxOpens /\ MaxOpens \in Nat
    BY FieldTypes, Bounds
  <2>3. s' \in SessionFields
    <3>1. "dying" \in States /\ t.deathCount + 1 \in Nat
      BY <2>2 DEF States
    <3> QED BY <2>1, <3>1, Counted, Bounds
  <2>4. /\ s'.state = "dying" /\ s'.deathCount = t.deathCount + 1 /\ s'.sess = t.sess
        /\ s'.bound = t.bound /\ s'.packages = t.packages /\ s'.made = t.made
    BY <2>1 DEF SessionFields
  <2>5. d \in [count : Nat, sess : 1..MaxOpens, target : 0..MaxCommits]
    BY <2>1, <2>2
  <2>6. DeathsOK(s', deaths', closedAt')
    <3>1. d.count = t.deathCount + 1 /\ d.sess = t.sess /\ d.target = announced'
      OBVIOUS
    <3>2. \A e \in deaths : e.count \in Nat /\ e.count <= t.deathCount
      BY DEF DeathsOK, SessionTypes
    <3> HIDE DEF d
    <3> QED BY <2>1, <2>2, <2>4, <3>1, <3>2 DEF DeathsOK
  <2>7. BoundOK(s')
    BY <2>1, <2>4 DEF BoundOK
  <2>8. WaitersOK(calls', s'.packages, waits')
    BY <2>1, <2>4
  <2> HIDE DEF d
  <2> QED BY <2>1, <2>3, <2>4, <2>5, <2>6, <2>7, <2>8 DEF SessionTypes, SessionInv
<1> QED BY <1>1, <1>2, <1>3
LEMMA LockedKeeps ==
    ASSUME TypeOK, SessionInv, Locked, UNCHANGED <<waits, announced>>
    PROVE  /\ SessionTypes' /\ SessionInv' /\ s'.made = s.made
           /\ s'.state = "waiting" => s.state \in {"waiting", "active"} /\ s'.sess = s.sess
<1>1. /\ SessionTypes /\ s \in SessionFields /\ announced' \in 0..MaxCommits
      /\ BoundOK(s) /\ WaitersOK(calls, s.packages, waits') /\ DeathsOK(s, deaths, closedAt)
  BY TypeParts DEF SessionTypes, SessionInv
<1>2. CASE UNCHANGED <<s, calls, deaths, closedAt>>
  BY <1>1, <1>2 DEF SessionTypes, SessionInv
<1>3. CASE EnterInactive(s) \/ StartsDying(s)
  BY <1>1, <1>3, Lands
<1>4. CASE Refreshing
  <2> DEFINE t == [s EXCEPT !.state = "waiting", !.deferredClose = FALSE]
  <2>1. Stay(t) /\ s.state = "active" /\ s' = t
    BY <1>4 DEF Refreshing, Stay
  <2>2. /\ t \in SessionFields /\ Kept(s, t) /\ t.state = "waiting" /\ t.sess = s.sess
        /\ t.packages = s.packages
    BY <1>1, <2>1, WaitingFields
  <2> HIDE DEF t
  <2>3. BoundOK(t) /\ WaitersOK(calls, t.packages, waits') /\ DeathsOK(t, deaths, closedAt)
    BY <1>1, <2>2 DEF BoundOK, DeathsOK, Kept
  <2> QED BY <1>1, <2>1, <2>2, <2>3, Lands DEF Kept
<1>5. CASE Resumed
  <2> DEFINE t == [s EXCEPT !.state = "active"]
  <2>1. Stay(t) /\ s.state = "dying"
    BY <1>5 DEF Resumed
  <2>2. t \in SessionFields
    <3>1. "active" \in States /\ 0 \in 0..MaxOpens /\ {} \in SUBSET Waiters
      BY Bounds DEF States
    <3> QED BY <1>1, <3>1, Moved
  <2>3. Kept(s, t) /\ t.state = "active" /\ t.sess = s.sess /\ t.packages = s.packages
    BY <1>1 DEF SessionFields, Kept
  <2> HIDE DEF t
  <2>4. BoundOK(t) /\ WaitersOK(calls, t.packages, waits') /\ DeathsOK(t, deaths, closedAt)
    BY <1>1, <2>1, <2>3 DEF BoundOK, DeathsOK, Kept
  <2> QED BY <1>1, <2>1, <2>2, <2>3, <2>4, Lands DEF Kept
<1>6. CASE CloseNoted
  <2>1. PICK b \in BOOLEAN : Stay([s EXCEPT !.deferredClose = b])
    BY <1>6 DEF CloseNoted
  <2> DEFINE t == [s EXCEPT !.deferredClose = b]
  <2>2. t \in SessionFields
    <3>1. "active" \in States /\ 0 \in Nat /\ 0 \in 0..MaxCommits
      BY Bounds DEF States
    <3> QED BY <1>1, <3>1, Counted
  <2>3. Kept(s, t) /\ t.state = s.state /\ t.sess = s.sess /\ t.packages = s.packages
    BY <1>1 DEF SessionFields, Kept
  <2> HIDE DEF t
  <2>4. BoundOK(t) /\ WaitersOK(calls, t.packages, waits') /\ DeathsOK(t, deaths, closedAt)
    BY <1>1, <2>3 DEF BoundOK, DeathsOK, Kept
  <2>5. Stay(t)
    BY <2>1 DEF t
  <2> QED BY <1>1, <2>2, <2>3, <2>4, <2>5, Lands DEF Kept
<1>7. CASE CancelPendingWaits
  <2>1. /\ calls' = Aborted(s.packages) /\ s' = [s EXCEPT !.packages = {}]
        /\ UNCHANGED <<deaths, closedAt>>
    BY <1>7 DEF CancelPendingWaits
  <2>2. s' \in SessionFields
    <3>1. "active" \in States /\ 0 \in 0..MaxOpens /\ {} \in SUBSET Waiters
      BY Bounds DEF States
    <3> QED BY <1>1, <2>1, <3>1, Moved
  <2>3. Kept(s, s') /\ s'.state = s.state /\ s'.sess = s.sess /\ s'.packages = {}
    BY <1>1, <2>1 DEF SessionFields, Kept
  <2>4. WaitersOK(calls', s'.packages, waits')
    BY <1>1, <2>1, <2>3, AbortedWaiters, FieldTypes DEF SessionTypes
  <2>5. calls' \in [Waiters -> Nat]
    BY <1>1, <2>1, AbortedType DEF SessionTypes
  <2>6. BoundOK(s') /\ DeathsOK(s', deaths', closedAt')
    BY <1>1, <2>1, <2>3 DEF BoundOK, DeathsOK, Kept
  <2> QED BY <1>1, <2>1, <2>2, <2>3, <2>4, <2>5, <2>6 DEF SessionTypes, SessionInv, Kept
<1> QED BY <1>2, <1>3, <1>4, <1>5, <1>6, <1>7 DEF Locked

LEMMA RevivedKeeps ==
    ASSUME TypeOK, SessionInv, Revived, UNCHANGED <<waits, announced>>
    PROVE  SessionTypes' /\ SessionInv' /\ s'.made = s.made
<1>1. /\ SessionTypes /\ s \in SessionFields /\ announced' \in 0..MaxCommits
      /\ BoundOK(s) /\ WaitersOK(calls, s.packages, waits') /\ DeathsOK(s, deaths, closedAt)
  BY TypeParts DEF SessionTypes, SessionInv
<1> DEFINE t == [s EXCEPT !.state = "waiting", !.deferredClose = FALSE]
<1>2. Stay(t) /\ s.state = "inactive" /\ s' = t
  BY DEF Revived, Stay
<1>3. /\ t \in SessionFields /\ Kept(s, t) /\ t.state = "waiting" /\ t.sess = s.sess
      /\ t.packages = s.packages
  BY <1>1, <1>2, WaitingFields
<1> HIDE DEF t
<1>4. BoundOK(t) /\ WaitersOK(calls, t.packages, waits') /\ DeathsOK(t, deaths, closedAt)
  BY <1>1, <1>2, <1>3 DEF BoundOK, DeathsOK, Kept
<1> QED BY <1>1, <1>2, <1>3, <1>4, Lands DEF Kept

LEMMA DestroyKeeps ==
    ASSUME TypeOK, SessionInv, Destroy
    PROVE  SessionTypes' /\ SessionInv' /\ s'.made = s.made /\ s'.state = "destroyed"
<1>1. /\ SessionTypes /\ s \in SessionFields
      /\ BoundOK(s) /\ WaitersOK(calls, s.packages, waits) /\ DeathsOK(s, deaths, closedAt)
  BY TypeParts DEF SessionTypes, SessionInv
<1>2. /\ s' = [s EXCEPT !.state = "destroyed", !.packages = {}, !.sess = 0]
      /\ UNCHANGED <<calls, deaths, closedAt, waits>>
  BY DEF Destroy
<1>3. s' \in SessionFields
  <2>1. "destroyed" \in States /\ 0 \in 0..MaxOpens /\ {} \in SUBSET Waiters
    BY Bounds DEF States
  <2> QED BY <1>1, <1>2, <2>1, Moved
<1>4. Kept(s, s') /\ s'.state = "destroyed" /\ s'.sess = 0 /\ s'.packages = {}
  BY <1>1, <1>2 DEF SessionFields, Kept
<1>5. BoundOK(s') /\ DeathsOK(s', deaths', closedAt')
  BY <1>1, <1>2, <1>4 DEF BoundOK, DeathsOK, Kept
<1>6. WaitersOK(calls', s'.packages, waits')
  BY <1>1, <1>2, <1>4 DEF WaitersOK
<1> QED BY <1>1, <1>2, <1>3, <1>4, <1>5, <1>6 DEF SessionTypes, SessionInv, Kept

LEMMA WaitKeeps ==
    ASSUME TypeOK, SessionInv, NEW w \in Waiters, WaitForCompletion(w)
    PROVE  /\ SessionTypes' /\ SessionInv' /\ s'.made = s.made
           /\ s'.state = s.state /\ s'.sess = s.sess
           /\ waits' \subseteq [w : Waiters, sess : 1..MaxOpens]
<1>1. /\ SessionTypes /\ s \in SessionFields
      /\ waits \subseteq [w : Waiters, sess : 1..MaxOpens]
      /\ BoundOK(s) /\ WaitersOK(calls, s.packages, waits) /\ DeathsOK(s, deaths, closedAt)
  BY TypeParts DEF SessionTypes, SessionInv
<1>2. /\ calls[w] = 0 /\ w \notin s.packages /\ \A x \in waits : x.w # w
      /\ UNCHANGED <<calls, deaths, closedAt>>
  BY DEF WaitForCompletion
<1>3. CASE s.state \in {"active", "dying"}
  <2> DEFINE y == [w |-> w, sess |-> s.sess]
  <2>1. waits' = waits \cup {y} /\ s' = s
    BY <1>3 DEF WaitForCompletion
  <2>2. s.sess \in 1..MaxOpens
    BY <1>1, <1>3, FieldTypes, Bounds DEF BoundOK
  <2>3. y \in [w : Waiters, sess : 1..MaxOpens] /\ y.w = w
    BY <2>2
  <2> HIDE DEF y
  <2>4. WaitersOK(calls', s'.packages, waits')
    BY <1>1, <1>2, <2>1, <2>3 DEF WaitersOK
  <2> QED BY <1>1, <1>2, <2>1, <2>3, <2>4 DEF SessionTypes, SessionInv
<1>4. CASE s.state \notin {"active", "dying"}
  <2>1. s' = [s EXCEPT !.packages = s.packages \cup {w}] /\ waits' = waits
    BY <1>4 DEF WaitForCompletion
  <2>2. s' \in SessionFields
    <3>1. "active" \in States /\ 0 \in 0..MaxOpens /\ s.packages \cup {w} \in SUBSET Waiters
      BY <1>1, Bounds, FieldTypes DEF States
    <3> QED BY <1>1, <2>1, <3>1, Moved
  <2>3. /\ Kept(s, s') /\ s'.state = s.state /\ s'.sess = s.sess
        /\ s'.packages = s.packages \cup {w}
    BY <1>1, <2>1 DEF SessionFields, Kept
  <2>4. BoundOK(s') /\ DeathsOK(s', deaths', closedAt')
    BY <1>1, <1>2, <2>3 DEF BoundOK, DeathsOK, Kept
  <2>5. WaitersOK(calls', s'.packages, waits')
    BY <1>1, <1>2, <2>1, <2>3 DEF WaitersOK
  <2> QED BY <1>1, <1>2, <2>1, <2>2, <2>3, <2>4, <2>5 DEF SessionTypes, SessionInv, Kept
<1> QED BY <1>3, <1>4

LEMMA NotifyKeeps ==
    ASSUME TypeOK, SessionInv, NEW v \in notices, NonsyncTransactNotify(v)
    PROVE  /\ SessionTypes' /\ SessionInv' /\ s'.made = s.made
           /\ s'.state = s.state /\ s'.sess = s.sess /\ waits' = waits
           /\ announced' \in 0..MaxCommits /\ committed' = committed /\ notices' = notices \ {v}
<1>1. /\ SessionTypes /\ s \in SessionFields /\ v \in 1..MaxCommits
      /\ announced \in 0..MaxCommits
      /\ BoundOK(s) /\ WaitersOK(calls, s.packages, waits) /\ DeathsOK(s, deaths, closedAt)
  BY TypeParts DEF SessionTypes, SessionInv
<1>2. /\ UNCHANGED <<calls, deaths, closedAt, waits, committed>> /\ notices' = notices \ {v}
      /\ announced' \in {announced, LatestOf(announced, v)}
      /\ s' \in {s, [s EXCEPT !.deferredCommit = v]}
  BY DEF NonsyncTransactNotify, store
<1>3. announced' \in 0..MaxCommits
  BY <1>1, <1>2, Bounds DEF LatestOf
<1>4. CASE s' = s
  BY <1>1, <1>2, <1>3, <1>4 DEF SessionTypes, SessionInv
<1>5. CASE s' = [s EXCEPT !.deferredCommit = v]
  <2>1. s' \in SessionFields
    <3>1. "active" \in States /\ 0 \in Nat /\ v \in 0..MaxCommits
      BY <1>1, Bounds DEF States
    <3> QED BY <1>1, <1>5, <3>1, Counted
  <2>2. /\ s'.state = s.state /\ s'.sess = s.sess /\ s'.packages = s.packages
        /\ s'.bound = s.bound /\ s'.deathCount = s.deathCount /\ s'.made = s.made
    BY <1>1, <1>5 DEF SessionFields
  <2>3. BoundOK(s') /\ DeathsOK(s', deaths', closedAt') /\ WaitersOK(calls', s'.packages, waits')
    BY <1>1, <1>2, <2>2 DEF BoundOK, DeathsOK
  <2> QED BY <1>1, <1>2, <1>3, <2>1, <2>2, <2>3 DEF SessionTypes, SessionInv
<1> QED BY <1>2, <1>4, <1>5

LEMMA WaitEndsKeeps ==
    ASSUME TypeOK, SessionInv, NEW x \in waits, WaitEnds(x)
    PROVE  SessionTypes' /\ SessionInv' /\ s' = s /\ waits' \subseteq waits
<1>1. /\ SessionTypes /\ s \in SessionFields
      /\ waits \subseteq [w : Waiters, sess : 1..MaxOpens]
      /\ BoundOK(s) /\ WaitersOK(calls, s.packages, waits) /\ DeathsOK(s, deaths, closedAt)
  BY TypeParts DEF SessionTypes, SessionInv
<1>2. waits' = waits \ {x} /\ calls' = Aborted({x.w}) /\ UNCHANGED <<s, deaths, closedAt>>
  BY DEF WaitEnds
<1>3. x.w \in Waiters
  BY <1>1
<1>4. \A w \in Waiters : calls'[w] = IF w = x.w THEN 1 ELSE calls[w]
  <2> SUFFICES ASSUME NEW w \in Waiters PROVE calls'[w] = IF w = x.w THEN 1 ELSE calls[w]
    OBVIOUS
  <2>1. calls'[w] = calls[w] + IF w \in {x.w} THEN 1 ELSE 0
    BY <1>2 DEF Aborted
  <2>2. calls[w] \in Nat /\ (w = x.w => calls[w] = 0)
    BY <1>1 DEF WaitersOK, SessionTypes
  <2> QED BY <2>1, <2>2
<1>5. WaitersOK(calls', s.packages, waits')
  <2>1. \A y \in waits' : y \in waits /\ y # x
    BY <1>2
  <2>2. \A y \in waits' : y.w # x.w
    BY <1>1, <2>1 DEF WaitersOK
  <2>3. x.w \notin s.packages
    BY <1>1, <1>3 DEF WaitersOK
  <2> QED BY <1>1, <1>4, <2>1, <2>2, <2>3 DEF WaitersOK
<1>6. calls' \in [Waiters -> Nat]
  BY <1>1, <1>2, AbortedType DEF SessionTypes
<1> QED BY <1>1, <1>2, <1>5, <1>6 DEF SessionTypes, SessionInv

LEMMA UploadCompletedKeeps ==
    ASSUME TypeOK, SessionInv, NEW d \in deaths, UploadCompleted(d)
    PROVE  /\ SessionTypes' /\ SessionInv' /\ s'.made = s.made
           /\ s' = s \/ s'.state = "inactive"
<1>1. /\ SessionTypes /\ s \in SessionFields
      /\ BoundOK(s) /\ WaitersOK(calls, s.packages, waits) /\ DeathsOK(s, deaths, closedAt)
  BY TypeParts DEF SessionTypes, SessionInv
<1>2. deaths' = deaths \ {d} /\ UNCHANGED <<closedAt, waits>>
  BY DEF UploadCompleted
<1>3. CASE UNCHANGED <<s, calls>>
  <2>1. DeathsOK(s', deaths', closedAt')
    BY <1>1, <1>2, <1>3 DEF DeathsOK
  <2> QED BY <1>1, <1>2, <1>3, <2>1 DEF SessionTypes, SessionInv
<1>4. CASE /\ calls' = Aborted(s.packages)
           /\ s' = [s EXCEPT !.state = "inactive", !.packages = {}, !.sess = 0]
  <2>1. s' \in SessionFields
    <3>1. 0 \in 0..MaxOpens /\ "inactive" \in States /\ {} \in SUBSET Waiters
      BY Bounds DEF States
    <3> QED BY <1>1, <1>4, <3>1, Moved
  <2>2. Kept(s, s') /\ s'.state = "inactive" /\ s'.sess = 0 /\ s'.packages = {}
    BY <1>1, <1>4 DEF SessionFields, Kept
  <2>3. WaitersOK(calls', s'.packages, waits')
    BY <1>1, <1>2, <1>4, <2>2, AbortedWaiters, FieldTypes DEF SessionTypes
  <2>4. calls' \in [Waiters -> Nat]
    BY <1>1, <1>4, AbortedType DEF SessionTypes
  <2>5. BoundOK(s') /\ DeathsOK(s', deaths', closedAt')
    BY <1>1, <1>2, <2>2 DEF BoundOK, DeathsOK, Kept
  <2> QED BY <1>1, <1>2, <2>1, <2>2, <2>3, <2>4, <2>5 DEF SessionTypes, SessionInv, Kept
<1> QED BY <1>3, <1>4 DEF UploadCompleted

\* The token arrives: the session a is active, with all its waits at the client.
Activated(a) ==
    /\ a \in SessionFields /\ a.state = "active" /\ a.bound /\ a.packages = {} /\ a.sess # 0
    /\ a.sess = (IF s.sess # 0 THEN s.sess ELSE s.made + 1)
    /\ a.made = (IF s.sess # 0 THEN s.made ELSE s.made + 1)
    /\ a.deathCount = s.deathCount /\ a.deferredCommit = 0
    /\ waits' = waits \cup [w : s.packages, sess : {a.sess}]
    /\ announced' = (IF s.sess # 0 THEN LatestOf(announced, s.deferredCommit) ELSE committed)
    /\ Stay(a) \/ EnterInactive(a) \/ StartsDying(a)

LEMMA Activation ==
    ASSUME TypeOK, SessionInv, RevivalsInv, RefreshAccessToken
    PROVE  s.state = "waiting" /\ \E a : Activated(a)
<1> DEFINE t == CreateSyncSession
           a == [t EXCEPT !.state = "active", !.bound = TRUE, !.packages = {},
                          !.deferredCommit = 0]
<1>1. /\ s.state = "waiting" /\ announced' = AnnouncedAtActivation(t)
      /\ waits' = waits \cup RegisterWaits(t) /\ CloseIfDeferred(a)
  BY DEF RefreshAccessToken
<1>2. /\ s \in SessionFields /\ opens \in Nat /\ opens <= MaxOpens /\ MaxOpens \in Nat
      /\ s.sess \in Nat /\ s.sess \in 0..MaxOpens /\ s.made \in 0..MaxOpens
      /\ Pending \in 0..2
  BY TypeParts, FieldTypes, Bounds, PendingFacts
<1>3. s.sess = 0 => s.made + 1 \in 0..MaxOpens
  <2>1. s.sess = 0 => s.made + 1 + Pending <= opens
    BY <1>1 DEF RevivalsInv
  <2> QED BY <1>2, <2>1
<1>4. /\ t \in SessionFields /\ t.sess # 0
      /\ t.sess = (IF s.sess # 0 THEN s.sess ELSE s.made + 1)
      /\ t.made = (IF s.sess # 0 THEN s.made ELSE s.made + 1)
      /\ t.packages = s.packages /\ t.deathCount = s.deathCount
      /\ t.deferredCommit = s.deferredCommit
      /\ t.bound = (s.sess # 0)
  <2>1. CASE s.sess # 0
    <3>1. t = s
      BY <2>1 DEF CreateSyncSession
    <3>2. s.bound = TRUE
      BY <1>2, <2>1, FieldTypes DEF SessionInv, BoundOK
    <3> HIDE DEF t
    <3> QED BY <1>2, <2>1, <3>1, <3>2
  <2>2. CASE s.sess = 0
    <3> DEFINE n == s.made + 1
    <3>1. t = [s EXCEPT !.sess = n, !.made = n, !.bound = FALSE]
      BY <2>2 DEF CreateSyncSession
    <3>2. n \in 0..MaxOpens /\ n # 0
      BY <1>2, <1>3, <2>2
    <3>3. s.made + 1 = n
      OBVIOUS
    <3> HIDE DEF t, n
    <3>4. t \in SessionFields
      BY <1>2, <3>1, <3>2 DEF SessionFields
    <3>5. /\ t.sess = n /\ t.made = n /\ t.bound = FALSE /\ t.packages = s.packages
          /\ t.deathCount = s.deathCount /\ t.deferredCommit = s.deferredCommit
      BY <1>2, <3>1 DEF SessionFields
    <3> QED BY <2>2, <3>2, <3>3, <3>4, <3>5
  <2> QED BY <2>1, <2>2
<1> HIDE DEF t
<1>5. /\ a.state = "active" /\ a.bound = TRUE /\ a.packages = {} /\ a.sess = t.sess
      /\ a.made = t.made /\ a.deathCount = t.deathCount /\ a.deferredCommit = 0
  BY <1>4 DEF SessionFields
<1>6. a \in SessionFields
  <2>1. ASSUME NEW st \in States, NEW b \in BOOLEAN, NEW q \in SUBSET Waiters,
               NEW c \in 0..MaxCommits
        PROVE  [t EXCEPT !.state = st, !.bound = b, !.packages = q, !.deferredCommit = c]
                  \in SessionFields
    BY <1>4 DEF SessionFields, States
  <2>2. "active" \in States /\ TRUE \in BOOLEAN /\ {} \in SUBSET Waiters /\ 0 \in 0..MaxCommits
    BY Bounds DEF States
  <2> QED BY <2>1, <2>2
<1> HIDE DEF a
<1>7. announced' = (IF s.sess # 0 THEN LatestOf(announced, s.deferredCommit) ELSE committed)
  BY <1>1, <1>4 DEF AnnouncedAtActivation
<1>8. waits' = waits \cup [w : s.packages, sess : {a.sess}]
  BY <1>1, <1>4, <1>5 DEF RegisterWaits
<1>9. Stay(a) \/ EnterInactive(a) \/ StartsDying(a)
  <2>1. Stay(a) \/ Close(a)
    BY <1>1 DEF CloseIfDeferred
  <2> QED BY <1>5, <2>1, CloseShape
<1>10. Activated(a)
  BY <1>4, <1>5, <1>6, <1>7, <1>8, <1>9 DEF Activated
<1> QED BY <1>1, <1>10

LEMMA TokenKeeps ==
    ASSUME TypeOK, SessionInv, RevivalsInv, RefreshAccessToken
    PROVE  /\ SessionTypes' /\ SessionInv' /\ announced' \in 0..MaxCommits
           /\ waits' \subseteq [w : Waiters, sess : 1..MaxOpens]
           /\ s'.made = (IF s.sess # 0 THEN s.made ELSE s.made + 1)
           /\ s'.state # "waiting" /\ s.state = "waiting"
<1>1. /\ SessionTypes /\ s \in SessionFields /\ announced \in 0..MaxCommits
      /\ committed \in 0..MaxCommits /\ waits \subseteq [w : Waiters, sess : 1..MaxOpens]
      /\ BoundOK(s) /\ WaitersOK(calls, s.packages, waits) /\ DeathsOK(s, deaths, closedAt)
  BY TypeParts DEF SessionTypes, SessionInv
<1>2. s.state = "waiting" /\ \E b : Activated(b)
  BY Activation
<1>3. PICK a : Activated(a)
  BY <1>2
<1>4. announced' \in 0..MaxCommits
  BY <1>1, <1>3, FieldTypes DEF Activated, LatestOf
<1>5. a.sess \in 1..MaxOpens
  BY <1>3, FieldTypes, Bounds DEF Activated
<1> DEFINE new == [w : s.packages, sess : {a.sess}]
<1>6. /\ waits' = waits \cup new
      /\ \A x \in new : x \in [w : Waiters, sess : 1..MaxOpens] /\ x.w \in s.packages
      /\ \A x, y \in new : x.w = y.w => x = y
  BY <1>1, <1>3, <1>5, FieldTypes DEF Activated
<1>7. WaitersOK(calls, a.packages, waits')
  <2> HIDE DEF new
  <2>1. a.packages = {}
    BY <1>3 DEF Activated
  <2>2. \A x \in new : x.w \in Waiters /\ calls[x.w] = 0 /\ \A y \in waits : y.w # x.w
    <3> SUFFICES ASSUME NEW x \in new
                 PROVE  x.w \in Waiters /\ calls[x.w] = 0 /\ \A y \in waits : y.w # x.w
      OBVIOUS
    <3>1. x.w \in s.packages /\ x.w \in Waiters
      BY <1>1, <1>6, FieldTypes
    <3> QED BY <1>1, <3>1 DEF WaitersOK
  <2> QED BY <1>1, <1>6, <2>1, <2>2 DEF WaitersOK
<1>8. BoundOK(a) /\ DeathsOK(a, deaths, closedAt)
  BY <1>1, <1>3 DEF Activated, BoundOK, DeathsOK
<1>9. a \in SessionFields /\ (Stay(a) \/ EnterInactive(a) \/ StartsDying(a))
      /\ a.state = "active" /\ a.made = (IF s.sess # 0 THEN s.made ELSE s.made + 1)
  BY <1>3 DEF Activated
<1>10. /\ SessionTypes' /\ SessionInv' /\ s'.made = a.made
       /\ s'.state = "waiting" => a.state = "waiting"
  BY <1>1, <1>4, <1>7, <1>8, <1>9, Lands
<1> HIDE DEF new
<1> QED BY <1>1, <1>2, <1>4, <1>6, <1>9, <1>10

LEMMA Budget ==
    ASSUME NEW m \in Nat, NEW p \in Nat, NEW q \in Nat, NEW o \in Nat, NEW n \in Nat,
           q + o <= p + n
    PROVE  (m + p <= o => m + q <= n) /\ (m + 1 + p <= o => m + 1 + q <= n)
OBVIOUS

LEMMA Spent ==
    ASSUME NEW m \in Nat, NEW p \in Nat, NEW q \in Nat, NEW o \in Nat, q + 1 = p, m + p <= o
    PROVE  m + 1 + q <= o /\ m + q <= o
OBVIOUS

LEMMA ShapeKeeps ==
    ASSUME IInv, opens' \in Nat, Shape
    PROVE  /\ SessionTypes' /\ SessionInv' /\ RevivalsInv'
           /\ waits' \subseteq [w : Waiters, sess : 1..MaxOpens]
           /\ announced' \in 0..MaxCommits /\ committed' \in 0..MaxCommits
           /\ notices' \subseteq 1..MaxCommits
<1> DEFINE Goal == /\ SessionTypes' /\ SessionInv' /\ RevivalsInv'
                   /\ waits' \subseteq [w : Waiters, sess : 1..MaxOpens]
                   /\ announced' \in 0..MaxCommits /\ committed' \in 0..MaxCommits
                   /\ notices' \subseteq 1..MaxCommits
<1>1. /\ TypeOK /\ SessionInv /\ RevivalsInv /\ SessionTypes
      /\ waits \subseteq [w : Waiters, sess : 1..MaxOpens]
      /\ announced \in 0..MaxCommits /\ committed \in 0..MaxCommits
      /\ notices \subseteq 1..MaxCommits
      /\ opens \in Nat /\ s.made \in Nat /\ Pending \in 0..2 /\ Pending' \in 0..2
  BY TypeParts, FieldTypes, PendingFacts DEF IInv, SessionTypes
<1>r. ASSUME UNCHANGED <<reviving, opening, opens>>, s'.made = s.made,
             s'.state = "waiting" => s.state = "waiting" /\ s'.sess = s.sess
      PROVE  RevivalsInv'
  BY <1>1, <1>r, PendingFacts DEF RevivalsInv
<1>2. CASE /\ Locked /\ UNCHANGED <<waits, announced, know>>
           /\ Pending' + opens <= Pending + opens'
  <2>1. /\ SessionTypes' /\ SessionInv' /\ s'.made = s.made
        /\ s'.state = "waiting" => s.state \in {"waiting", "active"} /\ s'.sess = s.sess
    BY <1>1, <1>2, LockedKeeps
  <2>2. s'.state = "waiting" /\ s'.sess = 0 => s.state = "waiting" /\ s.sess = 0
    BY <1>1, <2>1 DEF SessionInv, BoundOK
  <2>3. RevivalsInv'
    <3>1. Pending \in Nat /\ Pending' \in Nat /\ s.made \in Nat /\ opens \in Nat
      BY <1>1
    <3>2. Pending' + opens <= Pending + opens'
      BY <1>2
    <3>3. /\ s.made + Pending <= opens => s.made + Pending' <= opens'
          /\ s.made + 1 + Pending <= opens => s.made + 1 + Pending' <= opens'
      BY <3>1, <3>2, Budget
    <3> QED BY <1>1, <2>1, <2>2, <3>3 DEF RevivalsInv
  <2> QED BY <1>1, <1>2, <2>1, <2>3 DEF know
<1>3. CASE /\ Revived /\ UNCHANGED <<waits, announced, know, opens>>
           /\ Pending' + 1 = Pending
  <2>1. SessionTypes' /\ SessionInv' /\ s'.made = s.made
    BY <1>1, <1>3, RevivedKeeps
  <2>2. RevivalsInv'
    <3>1. Pending \in Nat /\ Pending' \in Nat /\ s.made \in Nat /\ opens \in Nat
      BY <1>1
    <3>2. Pending' + 1 = Pending /\ s.made + Pending <= opens
      BY <1>1, <1>3 DEF RevivalsInv
    <3>3. s.made + 1 + Pending' <= opens /\ s.made + Pending' <= opens
      BY <3>1, <3>2, Spent
    <3> QED BY <1>3, <2>1, <3>3 DEF RevivalsInv
  <2> QED BY <1>1, <1>3, <2>1, <2>2 DEF know
<1>4. CASE UNCHANGED <<reviving, opening, opens>> /\ Destroy
  BY <1>1, <1>r, <1>4, DestroyKeeps DEF Destroy, store
<1>5. CASE UNCHANGED <<reviving, opening, opens>> /\ Commit
  <2>1. /\ UNCHANGED <<s, calls, deaths, closedAt, waits, announced>>
        /\ committed < MaxCommits /\ committed' = committed + 1
        /\ notices' = notices \cup {committed + 1}
    BY <1>5 DEF Commit, session
  <2>2. committed' \in 0..MaxCommits /\ notices' \subseteq 1..MaxCommits
    BY <1>1, <2>1, Bounds
  <2>3. SessionTypes' /\ SessionInv' /\ RevivalsInv'
    BY <1>1, <1>r, <1>5, <2>1 DEF SessionTypes, SessionInv
  <2> QED BY <1>1, <2>1, <2>2, <2>3
<1>6. ASSUME UNCHANGED <<reviving, opening, opens>>, NEW w \in Waiters, WaitForCompletion(w)
      PROVE  Goal
  BY <1>1, <1>r, <1>6, WaitKeeps DEF WaitForCompletion, store
<1>7. ASSUME UNCHANGED <<reviving, opening, opens>>, NEW v \in notices, NonsyncTransactNotify(v)
      PROVE  Goal
  BY <1>1, <1>r, <1>7, NotifyKeeps
<1>8. ASSUME UNCHANGED <<reviving, opening, opens>>, NEW x \in waits, WaitEnds(x) PROVE Goal
  BY <1>1, <1>r, <1>8, WaitEndsKeeps DEF WaitEnds, store
<1>9. ASSUME UNCHANGED <<reviving, opening, opens>>, NEW d \in deaths, UploadCompleted(d)
      PROVE  Goal
  BY <1>1, <1>r, <1>9, UploadCompletedKeeps DEF UploadCompleted, store
<1>10. CASE UNCHANGED <<reviving, opening, opens>> /\ RefreshAccessToken /\ UNCHANGED know
  <2>1. /\ SessionTypes' /\ SessionInv' /\ announced' \in 0..MaxCommits
        /\ waits' \subseteq [w : Waiters, sess : 1..MaxOpens]
        /\ s'.made = (IF s.sess # 0 THEN s.made ELSE s.made + 1)
        /\ s'.state # "waiting" /\ s.state = "waiting"
    BY <1>1, <1>10, TokenKeeps
  <2>2. RevivalsInv'
    BY <1>1, <1>10, <2>1, PendingFacts DEF RevivalsInv
  <2> QED BY <1>1, <1>10, <2>1, <2>2 DEF know
<1> HIDE DEF Goal
<1>11. Goal
  BY <1>2, <1>3, <1>4, <1>5, <1>6, <1>7, <1>8, <1>9, <1>10 DEF Shape, Goal
<1> QED BY <1>11 DEF Goal

-----------------------------------------------------------------------------
(* The types of the code around the session *)

RestTypes ==
    /\ policy \in Policies /\ ext \in BOOLEAN /\ drops \in Nat
    /\ opening \in {"create", "found", "come online", "revive", "reference", "no"}
    /\ opens \in 0..MaxOpens
    /\ registered \in BOOLEAN /\ unregs \in Nat
    /\ user \in {"active", "out", "error"} /\ pool \in {"none", "sessions", "waiting"}
    /\ reviving \in BOOLEAN /\ leaving \in {"no", "sessions", "handles"}
    /\ handle \in {"none", "binding", "scheduled"} /\ asking \subseteq Callers
    /\ err \in Error \cup {NoError} /\ errors \in 0..MaxErrors
    /\ uploaded \in 0..MaxCommits /\ unheard \in BOOLEAN /\ expired \in BOOLEAN

\* The locked steps leave the number of pending unregistrations a number.
LEMMA UnregsType ==
    ASSUME unregs \in Nat, NEW t, Stay(t) \/ EnterInactive(t) \/ EnterDying(t) \/ Close(t)
    PROVE  unregs' \in Nat
BY DEF Stay, EnterInactive, EnterDying, Close

LEMMA NextRest ==
    ASSUME RestTypes, announced \in 0..MaxCommits, Next PROVE RestTypes'
<1> USE DEF session, manager, account, store, tokens, client
<1> USE DEF Next, GetSession, RegisterSession, GetSessionRevive, GetSessionReference, Destroy,
            DropReference, DidDropExternalReference, UnregisterSession, Reconnect,
            WaitForCompletion, Commit, NonsyncTransactNotify, LogOut, InvalidateAllHandles,
            UpdateRefreshToken, ReviveAfterLogIn, BindSession, TokenArrives, TokenFails, HandleError,
            HandleErrorCode, Upload, WaitEnds, UploadCompleted
<1>1. policy' = policy
  OBVIOUS
<1>2. ext' = ext \/ ext' = TRUE \/ ext' = FALSE
  OBVIOUS
<1>3. drops' = drops \/ drops' = drops + 1 \/ (drops > 0 /\ drops' = drops - 1)
  OBVIOUS
<1>4. \/ opening' = opening
      \/ opening' \in {"create", "found", "come online", "revive", "reference", "no"}
  OBVIOUS
<1>5. opens' = opens \/ (opens < MaxOpens /\ opens' = opens + 1)
  OBVIOUS
<1>6. registered' = registered \/ registered' = (registered /\ ext)
  OBVIOUS
<1>7. user' = user \/ user' \in {"active", "out", "error"}
  OBVIOUS
<1>8. pool' = pool \/ pool' \in {"none", "sessions", "waiting"}
  <2>1. user \in {"active", "out", "error"}
    BY DEF RestTypes
  <2> QED BY <2>1
<1>9. \/ reviving' = reviving \/ reviving' = FALSE
      \/ reviving' = (reviving \/ (pool = "waiting" /\ Held))
  OBVIOUS
<1>10. leaving' = leaving \/ leaving' \in {"no", "sessions", "handles"}
  OBVIOUS
<1>11. handle' = handle \/ handle' \in {"none", "binding", "scheduled"}
  BY DEF ReviveIfNeeded, AskFor
<1>11a. \/ asking' = asking \/ \E caller \in Callers : asking' = asking \cup {caller}
        \/ \E caller \in asking : asking' = asking \ {caller}
  BY DEF ReviveIfNeeded, AskFor, Callers
<1>12. err' = err \/ err' = NoError \/ err' \in Error
  OBVIOUS
<1>13. errors' = errors \/ (errors < MaxErrors /\ errors' = errors + 1)
  OBVIOUS
<1>14. uploaded' = uploaded \/ uploaded' = LatestOf(uploaded, announced)
  OBVIOUS
<1>15. unheard' = unheard \/ unheard' = (unheard \/ s.state = "dying")
  OBVIOUS
<1>16. \/ expired' = expired \/ expired' = (expired /\ s.state \notin {"waiting", "active"})
       \/ \E e \in Error : expired' = (expired \/ e.code = "token_expired")
  OBVIOUS
<1> HIDE DEF session, manager, account, store, tokens, client
<1> HIDE DEF Next, GetSession, RegisterSession, GetSessionRevive, GetSessionReference, Destroy,
             DropReference, DidDropExternalReference, UnregisterSession, Reconnect,
             WaitForCompletion, Commit, NonsyncTransactNotify, LogOut, InvalidateAllHandles,
             UpdateRefreshToken, ReviveAfterLogIn, BindSession, TokenArrives, TokenFails, HandleError,
             HandleErrorCode, Upload, WaitEnds, UploadCompleted
<1>17. unregs' \in Nat
  <2>1. unregs \in Nat
    BY DEF RestTypes
  <2>2. \/ unregs' = unregs \/ unregs' = unregs + 1 \/ (unregs > 0 /\ unregs' = unregs - 1)
        \/ \E t : Stay(t) \/ EnterInactive(t) \/ EnterDying(t) \/ Close(t)
    BY DEF Next, session, GetSession, RegisterSession, GetSessionRevive, GetSessionReference,
           Destroy, DropReference, DidDropExternalReference, UnregisterSession, Reconnect,
           WaitForCompletion, Commit, NonsyncTransactNotify, LogOut, InvalidateAllHandles,
           UpdateRefreshToken, ReviveAfterLogIn, BindSession, TokenArrives, TokenFails, HandleError,
           HandleErrorCode, Upload, WaitEnds, UploadCompleted, ReviveIfNeeded,
           RefreshAccessToken, CloseIfDeferred, CancelPendingWaits
  <2> QED BY <2>1, <2>2, UnregsType
<1>18. /\ drops' \in Nat /\ opens' \in 0..MaxOpens /\ errors' \in 0..MaxErrors
       /\ uploaded' \in 0..MaxCommits
  <2>1. /\ drops \in Nat /\ opens \in 0..MaxOpens /\ errors \in 0..MaxErrors
        /\ uploaded \in 0..MaxCommits /\ MaxOpens \in Nat /\ MaxErrors \in Nat
    BY Bounds DEF RestTypes
  <2>2. drops' \in Nat
    BY <1>3, <2>1
  <2>3. opens' \in 0..MaxOpens
    BY <1>5, <2>1
  <2>4. errors' \in 0..MaxErrors
    BY <1>13, <2>1
  <2>5. uploaded' \in 0..MaxCommits
    BY <1>14, <2>1 DEF LatestOf
  <2> QED BY <2>2, <2>3, <2>4, <2>5
<1>19. ext' \in BOOLEAN /\ registered' \in BOOLEAN /\ reviving' \in BOOLEAN
  <2>1. ext \in BOOLEAN /\ registered \in BOOLEAN /\ reviving \in BOOLEAN
    BY DEF RestTypes
  <2> QED BY <1>2, <1>6, <1>9, <2>1, Zenon
<1>20. unheard' \in BOOLEAN /\ expired' \in BOOLEAN
  <2>1. unheard \in BOOLEAN /\ expired \in BOOLEAN
    BY DEF RestTypes
  <2> QED BY <1>15, <1>16, <2>1, Zenon
<1>21. /\ policy' \in Policies
       /\ opening' \in {"create", "found", "come online", "revive", "reference", "no"}
       /\ user' \in {"active", "out", "error"} /\ pool' \in {"none", "sessions", "waiting"}
       /\ leaving' \in {"no", "sessions", "handles"}
       /\ handle' \in {"none", "binding", "scheduled"}
       /\ err' \in Error \cup {NoError}
  BY <1>1, <1>4, <1>7, <1>8, <1>10, <1>11, <1>12, Zenon DEF RestTypes
<1>22. asking' \subseteq Callers
  <2>1. asking \subseteq Callers
    BY DEF RestTypes
  <2> QED BY <1>11a, <2>1
<1> QED BY <1>17, <1>18, <1>19, <1>20, <1>21, <1>22, Zenon DEF RestTypes

-----------------------------------------------------------------------------
(* The theorems *)

LEMMA TypeOKParts ==
    /\ TypeOK <=> /\ SessionTypes /\ RestTypes
                  /\ waits \subseteq [w : Waiters, sess : 1..MaxOpens]
                  /\ announced \in 0..MaxCommits /\ committed \in 0..MaxCommits
                  /\ notices \subseteq 1..MaxCommits
    /\ TypeOK' <=> /\ SessionTypes' /\ RestTypes'
                   /\ waits' \subseteq [w : Waiters, sess : 1..MaxOpens]
                   /\ announced' \in 0..MaxCommits /\ committed' \in 0..MaxCommits
                   /\ notices' \subseteq 1..MaxCommits
<1>1. ASSUME NEW a, NEW b, NEW c, NEW d, NEW S
      PROVE  {a, b, c, d} \subseteq S <=> a \in S /\ b \in S /\ c \in S /\ d \in S
  BY Zenon
<1>2. ASSUME NEW a, NEW b, NEW S
      PROVE  {a, b} \subseteq S <=> a \in S /\ b \in S
  BY Zenon
<1> QED BY <1>1, <1>2, ZenonT(60) DEF TypeOK, SessionTypes, RestTypes, SessionFields

LEMMA InitInv == Init => IInv
<1> SUFFICES ASSUME Init PROVE IInv
  OBVIOUS
<1>1. Fresh \in SessionFields
  BY Bounds DEF Fresh, SessionFields
<1>2. SessionTypes
  BY <1>1, Bounds DEF Init, SessionTypes
<1>3. RestTypes
  <2>1. /\ 0 \in Nat /\ 1 \in 0..MaxOpens /\ 0 \in 0..MaxErrors /\ 0 \in 0..MaxCommits
    BY Bounds
  <2> QED BY <2>1, Zenon DEF Init, RestTypes
<1>4. SessionInv
  BY DEF Init, SessionInv, BoundOK, WaitersOK, DeathsOK, Fresh
<1>5. RevivalsInv
  <2>1. ~reviving /\ Opening /\ opens = 1 /\ s.made = 0 /\ s.state = "inactive"
    BY DEF Init, Opening, Fresh
  <2> QED BY <2>1, PendingValues DEF RevivalsInv
<1>6. TypeOK
  BY <1>2, <1>3, Bounds, TypeOKParts DEF Init
<1> QED BY <1>4, <1>5, <1>6 DEF IInv

LEMMA NextInv == IInv /\ [Next]_vars => IInv'
<1> SUFFICES ASSUME IInv, [Next]_vars PROVE IInv'
  OBVIOUS
<1>1. CASE UNCHANGED vars
  <2> USE <1>1 DEF vars, session, manager, account, store, tokens, client
  <2>1. TypeOK'
    <3>1. SessionTypes /\ RestTypes
      BY TypeOKParts DEF IInv
    <3>2. SessionTypes'
      BY <3>1 DEF SessionTypes
    <3>3. RestTypes'
      <4>1. UNCHANGED <<policy, ext, drops, opening, opens, registered, unregs, user, pool,
                        reviving, leaving, handle, asking, err, errors, uploaded, unheard, expired>>
        OBVIOUS
      <4> QED BY <3>1, <4>1, ZenonT(60) DEF RestTypes
    <3>4. /\ waits' \subseteq [w : Waiters, sess : 1..MaxOpens]
          /\ announced' \in 0..MaxCommits /\ committed' \in 0..MaxCommits
          /\ notices' \subseteq 1..MaxCommits
      BY TypeOKParts DEF IInv
    <3> QED BY <3>2, <3>3, <3>4, TypeOKParts
  <2>2. SessionInv'
    BY DEF IInv, SessionInv
  <2>3. Pending' = Pending
    BY PendingFacts
  <2>4. RevivalsInv'
    BY <2>3 DEF IInv, RevivalsInv
  <2> QED BY <2>1, <2>2, <2>4 DEF IInv
<1>2. CASE Next
  <2>1. Shape
    BY <1>2, Shapes DEF IInv
  <2>2. RestTypes /\ announced \in 0..MaxCommits
    BY TypeOKParts DEF IInv
  <2>3. RestTypes'
    BY <1>2, <2>2, NextRest
  <2>4. opens' \in Nat
    <3>1. opens' \in 0..MaxOpens
      BY <2>3 DEF RestTypes
    <3> QED BY <3>1, Bounds
  <2> QED BY <2>1, <2>3, <2>4, ShapeKeeps, TypeOKParts DEF IInv
<1> QED BY <1>1, <1>2

LEMMA Invariance == Spec => []IInv
BY InitInv, NextInv, PTL DEF Spec

\* The session, the code around it and the client's side of it keep their types.
THEOREM TypesOK == Spec => []TypeOK
BY Invariance, PTL DEF IInv

\* A handler of Active or Dying finds a bound sync::Session, and none outlives
\* the move to Inactive.
THEOREM ClientSessionFits == Spec => []ClientSessionMatchesState
<1>1. IInv => ClientSessionMatchesState
  <2> SUFFICES ASSUME IInv PROVE ClientSessionMatchesState
    OBVIOUS
  <2>1. BoundOK(s) /\ waits \subseteq [w : Waiters, sess : 1..MaxOpens]
    BY TypeParts DEF IInv, SessionInv
  <2>2. \A x \in waits : x.sess # 0
    BY <2>1
  <2> QED BY <2>1, <2>2 DEF BoundOK, ClientSessionMatchesState
<1> QED BY <1>1, Invariance, PTL

\* A dying session becomes inactive through its callback only once everything
\* announced when it was last asked to close is at the server.
THEOREM DeathsUploaded == Spec => DiesOnlyUploaded
<1>1. IInv /\ [Next]_vars =>
        [(deaths' # deaths /\ s.state = "dying" /\ s'.state = "inactive")
           => uploaded >= closedAt]_vars
  <2> SUFFICES ASSUME IInv, Next, deaths' # deaths, s.state = "dying", s'.state = "inactive"
               PROVE  uploaded >= closedAt
    OBVIOUS
  <2>1. /\ Shape /\ s \in SessionFields /\ DeathsOK(s, deaths, closedAt)
    BY Shapes, TypeParts DEF IInv, SessionInv
  <2>2. ~StartsDying(s) /\ ~RefreshAccessToken
    BY DEF StartsDying, RefreshAccessToken
  <2>3. ~Locked /\ ~Revived
    BY <2>2 DEF Locked, Revived, Refreshing, Resumed, CloseNoted, Stay, EnterInactive,
                CancelPendingWaits
  <2>4. /\ ~Destroy /\ ~Commit /\ \A w \in Waiters : ~WaitForCompletion(w)
        /\ \A v \in notices : ~NonsyncTransactNotify(v)
        /\ \A x \in waits : ~WaitEnds(x)
    BY DEF Destroy, Commit, WaitForCompletion, NonsyncTransactNotify, WaitEnds, session
  <2>5. PICK d \in deaths : UploadCompleted(d)
    BY <2>1, <2>2, <2>3, <2>4 DEF Shape
  <2>6. OwnDeath(d) /\ (d.sess # s.sess \/ uploaded >= d.target)
    BY <2>5 DEF UploadCompleted
  <2> QED BY <2>1, <2>6 DEF OwnDeath, DeathsOK
<1> QED BY <1>1, Invariance, PTL DEF Spec, DiesOnlyUploaded

\* Waiter w has been registered and is not forgotten.
PlacedIn(c, q, ws, w) == c[w] = 1 \/ w \in q \/ \E x \in ws : x.w = w

LEMMA PlacesOf ==
    ASSUME NEW c \in [Waiters -> Nat], NEW q, NEW ws, WaitersOK(c, q, ws), NEW w \in Waiters
    PROVE  c[w] + (IF w \in q THEN 1 ELSE 0) + Cardinality({x \in ws : x.w = w})
             = IF PlacedIn(c, q, ws, w) THEN 1 ELSE 0
<1> DEFINE here == {x \in ws : x.w = w}
<1>0. c[w] \in {0, 1}
  BY DEF WaitersOK
<1>1. CASE \E x \in ws : x.w = w
  <2>1. PICK x \in ws : x.w = w
    BY <1>1
  <2>2. here = {x}
    BY <2>1 DEF WaitersOK
  <2>3. Cardinality(here) = 1
    BY <2>2, FS_Singleton
  <2>4. c[w] = 0 /\ w \notin q
    BY <1>0, <2>1 DEF WaitersOK
  <2> HIDE DEF here
  <2>5. c[w] + (IF w \in q THEN 1 ELSE 0) + Cardinality(here) = 1
    BY <2>3, <2>4
  <2> QED BY <1>1, <2>5 DEF PlacedIn, here
<1>2. CASE ~\E x \in ws : x.w = w
  <2>1. here = {}
    BY <1>2
  <2>2. Cardinality(here) = 0
    BY <2>1, FS_EmptySet
  <2> HIDE DEF here
  <2>3. CASE c[w] = 1
    <3>1. w \notin q
      BY <2>3 DEF WaitersOK
    <3>2. c[w] + (IF w \in q THEN 1 ELSE 0) + Cardinality(here) = 1
      BY <2>2, <2>3, <3>1
    <3> QED BY <2>3, <3>2 DEF PlacedIn, here
  <2>4. CASE c[w] = 0 /\ w \in q
    <3>2. c[w] + (IF w \in q THEN 1 ELSE 0) + Cardinality(here) = 1
      BY <2>2, <2>4
    <3> QED BY <2>4, <3>2 DEF PlacedIn, here
  <2>5. CASE c[w] = 0 /\ w \notin q
    <3>2. c[w] + (IF w \in q THEN 1 ELSE 0) + Cardinality(here) = 0
      BY <2>2, <2>5
    <3> QED BY <1>2, <2>5, <3>2 DEF PlacedIn, here
  <2> QED BY <1>0, <2>3, <2>4, <2>5
<1> QED BY <1>1, <1>2

\* A placed waiter stays placed as long as the session object lives.
LEMMA StaysPlaced ==
    ASSUME IInv, Next, s'.state # "destroyed", NEW w \in Waiters,
           PlacedIn(calls, s.packages, waits, w)
    PROVE  PlacedIn(calls', s'.packages, waits', w)
<1>1. /\ Shape /\ s \in SessionFields /\ s.packages \in SUBSET Waiters
      /\ calls \in [Waiters -> Nat] /\ WaitersOK(calls, s.packages, waits)
  BY Shapes, TypeParts, FieldTypes DEF IInv, SessionInv
<1>2. /\ w \in s.packages => Aborted(s.packages)[w] = 1
      /\ w \notin s.packages => Aborted(s.packages)[w] = calls[w]
  BY <1>1, AbortedCalls
<1>3. CASE s'.packages = s.packages /\ UNCHANGED <<calls, waits>>
  BY <1>3
<1>4. CASE calls' = Aborted(s.packages) /\ UNCHANGED waits
  BY <1>2, <1>4 DEF PlacedIn
<1>5. CASE Locked /\ UNCHANGED waits
  <2>1. CASE EnterInactive(s) \/ CancelPendingWaits
    BY <1>4, <1>5, <2>1 DEF EnterInactive, CancelPendingWaits
  <2>2. CASE UNCHANGED <<s, calls>>
    BY <1>3, <1>5, <2>2
  <2>3. CASE Refreshing \/ Resumed \/ CloseNoted \/ StartsDying(s)
    <3>1. s'.packages = s.packages /\ UNCHANGED calls
      BY <1>1, <2>3 DEF Refreshing, Resumed, CloseNoted, StartsDying, Stay, SessionFields
    <3> QED BY <1>3, <1>5, <3>1
  <2> QED BY <1>5, <2>1, <2>2, <2>3 DEF Locked
<1>6. CASE Revived /\ UNCHANGED waits
  <2>1. s'.packages = s.packages /\ UNCHANGED calls
    BY <1>1, <1>6 DEF Revived, Stay, SessionFields
  <2> QED BY <1>3, <1>6, <2>1
<1>7. ~Destroy
  <2>1. Destroy => s' = [s EXCEPT !.state = "destroyed", !.packages = {}, !.sess = 0]
    BY DEF Destroy
  <2>2. Destroy => s'.state = "destroyed"
    BY <1>1, <2>1 DEF SessionFields
  <2> QED BY <2>2
<1>8. CASE Commit
  BY <1>3, <1>8 DEF Commit, session
<1>9. ASSUME NEW v \in Waiters, WaitForCompletion(v)
      PROVE  PlacedIn(calls', s'.packages, waits', w)
  <2>1. calls' = calls /\ waits \subseteq waits' /\ s.packages \subseteq s'.packages
    BY <1>1, <1>9 DEF WaitForCompletion, SessionFields
  <2> QED BY <2>1 DEF PlacedIn
<1>10. ASSUME NEW v \in notices, NonsyncTransactNotify(v)
       PROVE  PlacedIn(calls', s'.packages, waits', w)
  <2>1. s'.packages = s.packages /\ UNCHANGED <<calls, waits>>
    BY <1>1, <1>10 DEF NonsyncTransactNotify, SessionFields
  <2> QED BY <1>3, <2>1
<1>11. ASSUME NEW x \in waits, WaitEnds(x) PROVE PlacedIn(calls', s'.packages, waits', w)
  <2>1. waits' = waits \ {x} /\ calls' = Aborted({x.w}) /\ s' = s
    BY <1>11 DEF WaitEnds
  <2>2. calls'[w] = calls[w] + IF w \in {x.w} THEN 1 ELSE 0
    BY <2>1 DEF Aborted
  <2>3. calls[w] \in Nat /\ (w = x.w => calls[w] = 0)
    BY <1>1 DEF WaitersOK
  <2>4. calls'[w] = IF w = x.w THEN 1 ELSE calls[w]
    BY <2>2, <2>3
  <2> QED BY <2>1, <2>4 DEF PlacedIn
<1>12. ASSUME NEW d \in deaths, UploadCompleted(d)
       PROVE  PlacedIn(calls', s'.packages, waits', w)
  <2>1. UNCHANGED waits /\ (calls' = Aborted(s.packages) \/ UNCHANGED <<s, calls>>)
    BY <1>12 DEF UploadCompleted
  <2> QED BY <1>3, <1>4, <2>1
<1>13. CASE RefreshAccessToken
  <2>1. PICK a : Activated(a)
    BY <1>13, Activation DEF IInv
  <2>2. waits' = waits \cup [w : s.packages, sess : {a.sess}] /\ a.packages = {}
    BY <2>1 DEF Activated
  <2>3. calls'[w] = calls[w]
    <3>1. CASE Stay(a) \/ StartsDying(a)
      BY <3>1 DEF Stay, StartsDying
    <3>2. CASE EnterInactive(a)
      <4>1. calls'[w] = calls[w] + IF w \in {} THEN 1 ELSE 0
        BY <2>2, <3>2 DEF EnterInactive, Aborted
      <4> QED BY <1>1, <4>1
    <3> QED BY <2>1, <3>1, <3>2 DEF Activated
  <2>4. w \in s.packages => \E x \in waits' : x.w = w
    <3>1. w \in s.packages => [w |-> w, sess |-> a.sess] \in waits'
      BY <2>2
    <3>2. [w |-> w, sess |-> a.sess].w = w
      OBVIOUS
    <3> QED BY <3>1, <3>2
  <2> QED BY <2>2, <2>3, <2>4 DEF PlacedIn
<1> QED BY <1>1, <1>5, <1>6, <1>7, <1>8, <1>9, <1>10, <1>11, <1>12, <1>13 DEF Shape

\* A completion callback is never called twice and, while the session object
\* lives, never forgotten, however it is closed, revived, logged out or hit by
\* errors between its registration and its call.
THEOREM WaitersOnce == Spec => WaitersCalledOnce
<1>1. IInv /\ IInv' /\ [Next]_vars =>
        [\A w \in Waiters : /\ Places(w)' <= 1
                            /\ s'.state # "destroyed" => Places(w)' >= Places(w)]_vars
  <2> SUFFICES ASSUME IInv, IInv', Next, NEW w \in Waiters
               PROVE  /\ Places(w)' <= 1
                      /\ s'.state # "destroyed" => Places(w)' >= Places(w)
    OBVIOUS
  <2>1. /\ calls \in [Waiters -> Nat] /\ WaitersOK(calls, s.packages, waits)
        /\ calls' \in [Waiters -> Nat] /\ WaitersOK(calls', s'.packages, waits')
    BY TypeOKParts DEF IInv, SessionInv, SessionTypes
  <2>2. Places(w) = IF PlacedIn(calls, s.packages, waits, w) THEN 1 ELSE 0
    BY <2>1, PlacesOf DEF Places
  <2>3. Places(w)' = IF PlacedIn(calls', s'.packages, waits', w) THEN 1 ELSE 0
    BY <2>1, PlacesOf DEF Places
  <2>4. s'.state # "destroyed" /\ PlacedIn(calls, s.packages, waits, w)
           => PlacedIn(calls', s'.packages, waits', w)
    BY StaysPlaced
  <2> QED BY <2>2, <2>3, <2>4
<1> QED BY <1>1, Invariance, PTL DEF Spec, WaitersCalledOnce
-----------------------------------------------------------------------------
(* What the client knows of local commits, with one writer at a time *)

\* A step of the session's lock leaves the deferred notification alone, and an
\* existing sync::Session is handed from state to state.
LEMMA LockedSession ==
    ASSUME s \in SessionFields, BoundOK(s), Locked \/ Revived \/ \E d \in deaths : UploadCompleted(d)
    PROVE  /\ s'.deferredCommit = s.deferredCommit
           /\ s'.state \in {"active", "dying"} => s.state \in {"active", "dying"}
           /\ s'.state = "waiting" /\ s'.sess # 0
                 => s.state \in {"active", "waiting"} /\ s.sess # 0
<1>1. CASE UNCHANGED s
  BY <1>1
<1>2. CASE EnterInactive(s)
  BY <1>2, InactiveFields DEF Kept
<1>3. CASE Refreshing \/ Revived
  <2>1. Stay([s EXCEPT !.state = "waiting", !.deferredClose = FALSE])
    BY <1>3 DEF Refreshing, Revived
  <2>2. s.state = "inactive" => s.sess = 0
    BY DEF BoundOK
  <2> QED BY <1>3, <2>1, <2>2, WaitingFields DEF Refreshing, Revived, Kept
<1>4. CASE Resumed \/ CloseNoted \/ StartsDying(s) \/ CancelPendingWaits
  BY <1>4 DEF Resumed, CloseNoted, StartsDying, CancelPendingWaits, Stay, SessionFields
<1>5. ASSUME NEW d \in deaths, UploadCompleted(d)
      PROVE  UNCHANGED s \/ (s' = [s EXCEPT !.state = "inactive", !.packages = {}, !.sess = 0])
  BY <1>5 DEF UploadCompleted
<1>6. CASE s' = [s EXCEPT !.state = "inactive", !.packages = {}, !.sess = 0]
  BY <1>6 DEF SessionFields
<1> QED BY <1>1, <1>2, <1>3, <1>4, <1>5, <1>6 DEF Locked

LEMMA NoticesEmpty ==
    ASSUME notices \subseteq 1..MaxCommits, Cardinality(notices) < MaxWriters, MaxWriters <= 1
    PROVE  notices = {}
<1>1. IsFiniteSet(1..MaxCommits)
  BY Bounds, FS_Interval
<1>2. IsFiniteSet(notices)
  BY <1>1, FS_Subset
<1>3. Cardinality(notices) \in Nat /\ MaxWriters \in Nat
  BY <1>2, FS_CardinalityType, SyncSessionAssumption
<1>4. Cardinality(notices) = 0
  BY <1>3
<1> QED BY <1>2, <1>4, FS_EmptySet

LEMMA KnownStep ==
    ASSUME MaxWriters <= 1, IInv, KnownInv, Next
    PROVE  KnownInv'
<1>1. /\ Shape /\ s \in SessionFields /\ BoundOK(s) /\ s.deferredCommit \in Nat
      /\ announced \in Nat /\ committed \in Nat /\ notices \subseteq 1..MaxCommits
  BY Shapes, TypeParts, FieldTypes, Bounds DEF IInv, SessionInv
<1>2. CASE (Locked \/ Revived \/ \E d \in deaths : UploadCompleted(d))
             /\ UNCHANGED <<announced, know>>
  <2>1. /\ UNCHANGED <<announced, committed, notices, unheard>>
        /\ s'.deferredCommit = s.deferredCommit
        /\ s'.state \in {"active", "dying"} => s.state \in {"active", "dying"}
        /\ s'.state = "waiting" /\ s'.sess # 0
              => s.state \in {"active", "waiting"} /\ s.sess # 0
    BY <1>1, <1>2, LockedSession DEF know
  <2> QED BY <1>1, <2>1 DEF KnownInv, LatestOf
<1>3. CASE Destroy
  <2>1. /\ UNCHANGED <<announced, committed, notices, unheard>>
        /\ s' = [s EXCEPT !.state = "destroyed", !.packages = {}, !.sess = 0]
    BY <1>3 DEF Destroy, store
  <2>2. s'.state = "destroyed" /\ s'.deferredCommit = s.deferredCommit
    BY <1>1, <2>1 DEF SessionFields
  <2> QED BY <2>1, <2>2 DEF KnownInv
<1>4. CASE Commit
  <2>1. notices = {}
    BY <1>1, <1>4, NoticesEmpty DEF Commit
  <2>2. /\ s' = s /\ announced' = announced /\ committed' = committed + 1
        /\ notices' = {committed + 1}
    BY <1>4, <2>1 DEF Commit, session
  <2> QED BY <1>1, <2>2 DEF KnownInv
<1>5. ASSUME NEW w \in Waiters, WaitForCompletion(w) PROVE KnownInv'
  <2>1. /\ UNCHANGED <<announced, committed, notices, unheard>>
        /\ s' = s \/ s' = [s EXCEPT !.packages = s.packages \cup {w}]
    BY <1>5 DEF WaitForCompletion, store
  <2>2. s'.state = s.state /\ s'.sess = s.sess /\ s'.deferredCommit = s.deferredCommit
    BY <1>1, <2>1 DEF SessionFields
  <2> QED BY <2>1, <2>2 DEF KnownInv
<1>6. ASSUME NEW v \in notices, NonsyncTransactNotify(v) PROVE KnownInv'
  <2>1. v = committed /\ notices' = {} /\ committed' = committed
    BY <1>6 DEF KnownInv, NonsyncTransactNotify
  <2>2. CASE s.state = "waiting"
    <3>1. /\ s' = [s EXCEPT !.deferredCommit = v] /\ UNCHANGED <<announced, unheard>>
      BY <1>6, <2>2 DEF NonsyncTransactNotify
    <3>2. s'.state = s.state /\ s'.sess = s.sess /\ s'.deferredCommit = v
      BY <1>1, <3>1 DEF SessionFields
    <3> QED BY <1>1, <2>1, <2>2, <3>1, <3>2 DEF KnownInv, LatestOf
  <2>3. CASE s.state = "active"
    <3>1. announced' = LatestOf(announced, v) /\ UNCHANGED <<s, unheard>>
      BY <1>6, <2>3 DEF NonsyncTransactNotify
    <3> QED BY <1>1, <2>1, <2>3, <3>1 DEF KnownInv, LatestOf
  <2>4. CASE s.state \in {"dying", "inactive"}
    <3>1. /\ UNCHANGED <<s, announced>>
          /\ s.state = "dying" => unheard'
      BY <1>6, <2>4 DEF NonsyncTransactNotify
    <3> QED BY <1>1, <2>1, <2>4, <3>1 DEF KnownInv
  <2> QED BY <1>6, <2>2, <2>3, <2>4 DEF NonsyncTransactNotify
<1>7. ASSUME NEW x \in waits, WaitEnds(x) PROVE KnownInv'
  <2>1. UNCHANGED <<s, announced, committed, notices, unheard>>
    BY <1>7 DEF WaitEnds, store
  <2> QED BY <2>1 DEF KnownInv
<1>8. CASE RefreshAccessToken /\ UNCHANGED know
  <2>1. s.state = "waiting" /\ UNCHANGED <<committed, notices, unheard>>
    BY <1>8, Activation DEF IInv, know
  <2>2. PICK a : Activated(a)
    BY <1>8, Activation DEF IInv
  <2>3. /\ announced' = (IF s.sess # 0 THEN LatestOf(announced, s.deferredCommit) ELSE committed)
        /\ a \in SessionFields /\ a.deferredCommit = 0 /\ a.state = "active"
        /\ Stay(a) \/ EnterInactive(a) \/ StartsDying(a)
    BY <2>2 DEF Activated
  <2>4. s'.deferredCommit = 0 /\ s'.state \in {"active", "dying", "inactive"}
    <3>1. CASE EnterInactive(a)
      BY <2>3, <3>1, InactiveFields DEF Kept
    <3>2. CASE Stay(a) \/ StartsDying(a)
      BY <2>3, <3>2 DEF Stay, StartsDying, SessionFields
    <3> QED BY <2>3, <3>1, <3>2
  <2> QED BY <1>1, <2>1, <2>3, <2>4 DEF KnownInv, LatestOf
<1>9. (\E d \in deaths : UploadCompleted(d)) => UNCHANGED <<announced, know>>
  BY DEF UploadCompleted, store, know
<1> QED BY <1>1, <1>2, <1>3, <1>4, <1>5, <1>6, <1>7, <1>8, <1>9 DEF Shape

\* With one writer at a time, an active session's client knows of the latest commit
\* as soon as no notification is on its way, commits made while the session waited
\* for a token included; a commit that met a dying session is the exception.
THEOREM CommitsKnown ==
    ASSUME MaxWriters <= 1
    PROVE  Spec => []ActiveKnowsCommits
<1>1. Init => KnownInv
  BY DEF Init, Fresh, KnownInv
<1>2. IInv /\ KnownInv /\ [Next]_vars => KnownInv'
  <2>1. UNCHANGED vars => UNCHANGED <<s, announced, committed, notices, unheard>>
    BY DEF vars, session, store
  <2>2. KnownInv /\ UNCHANGED <<s, announced, committed, notices, unheard>> => KnownInv'
    BY DEF KnownInv
  <2> QED BY <2>1, <2>2, KnownStep
<1>3. KnownInv => ActiveKnowsCommits
  BY DEF KnownInv, ActiveKnowsCommits
<1> QED BY <1>1, <1>2, <1>3, Invariance, PTL DEF Spec

=============================================================================
