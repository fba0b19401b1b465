----------------------------- MODULE SyncSession -----------------------------
(***************************************************************************)
(* One SyncSession object of the vendored object store: its four states,   *)
(* the handlers that run under m_state_mutex, and the code around it that   *)
(* does more than one locked step (SyncManager::get_session and             *)
(* unregister_session, SyncUser's log-in and log-out, handle_error on the   *)
(* sync client's thread, the binding's refresh handle).                     *)
(* The sync client itself is a binary; its part is external and follows     *)
(* include/core/realm/sync/client.hpp.  override_server and the multiplex   *)
(* identifier are left out: they carry data to the client and nothing else. *)
(***************************************************************************)
EXTENDS Integers, FiniteSets

CONSTANTS Waiters,      \* callbacks handed to wait_for_*_completion
          Policies,     \* the stop policies to start from
          MaxOpens,     \* bound: calls of get_session and log-ins
          MaxErrors,    \* bound: errors reported by the sync client
          MaxCommits,   \* bound: local commits
          MaxWriters    \* bound: commits whose notification is on its way

StopPolicies == {"Immediately", "LiveIndefinitely", "AfterChangesUploaded"}

ASSUME SyncSessionAssumption ==
    /\ IsFiniteSet(Waiters)
    /\ Policies \subseteq StopPolicies
    /\ {MaxOpens, MaxErrors, MaxCommits, MaxWriters} \subseteq Nat
    /\ MaxOpens >= 1   \* the call that creates the session

VARIABLES
    s,           \* the fields of the SyncSession
    policy,      \* m_config.stop_policy
    ext,         \* m_external_reference is not expired
    drops,       \* ExternalReference destructors waiting for m_state_mutex
    opening,     \* where get_session is, with m_session_mutex: "create" or "found", then
                 \* "come online" or "revive", "reference"; else "no"
    opens,
    registered,  \* the session is in SyncManager::m_sessions
    unregs,      \* calls of unregister_session waiting for m_session_mutex
    user,        \* SyncUser::m_state
    pool,        \* the user's map the session is in
    reviving,    \* update_refresh_token is about to revive the session
    leaving,     \* where logOut is: "sessions", in unregister_session with the user's
                 \* m_mutex held, "handles", about to invalidate them; else "no"
    handle,      \* the RLMSyncSessionRefreshHandle: "none", "binding" while it asks
                 \* for the first token and owns the session, then "scheduled"
    asking,      \* who has left m_state_mutex to call bind_session_handler
    err,         \* the error handle_error is between its two locks with
    errors,
    waits,       \* completion waits at the sync client, with their session
    deaths,      \* upload waits of Dying::enter_state at the sync client
    calls,       \* how often each waiter was called
    committed,   \* latest version of the file
    notices,     \* versions on their way to nonsync_transact_notify
    announced,   \* latest version the current sync::Session was told of
    uploaded,    \* latest version the server has acknowledged
    expired,     \* the server no longer accepts the session's access token
    unheard,     \* a commit notification met a dying session
    closedAt     \* version announced when the session last began to die

session == <<s, calls, unregs, deaths, closedAt>>
manager == <<ext, drops, opening, opens, registered>>
account == <<user, pool, reviving, leaving>>
store   == <<committed, notices, announced, uploaded, unheard>>
client  == <<err, errors, expired>>
tokens  == <<handle, asking>>
vars    == <<session, manager, account, store, policy, tokens, client, waits>>

NoError == [code |-> "none", fatal |-> FALSE]
Error   == [code : {"token_expired", "bad_authentication", "permission_denied", "other"},
            fatal : BOOLEAN]

Callers == {"get_session", "log_in", "handle_error"}

(* The constructor: inactive, no sync::Session. *)
Fresh == [state |-> "inactive", sess |-> 0, bound |-> FALSE, deferredClose |-> FALSE,
          packages |-> {}, deferredCommit |-> 0, deathCount |-> 0, made |-> 0]

(* get_session has created the session, registered it and taken the first
   external reference; register_session comes next. *)
Init ==
    /\ s = Fresh /\ policy \in Policies
    /\ ext = TRUE /\ drops = 0 /\ opening = "create" /\ opens = 1
    /\ registered = TRUE /\ unregs = 0
    /\ user = "active" /\ pool = "none" /\ reviving = FALSE /\ leaving = "no"
    /\ handle = "none" /\ asking = {} /\ err = NoError /\ errors = 0
    /\ waits = {} /\ deaths = {} /\ calls = [w \in Waiters |-> 0]
    /\ committed = 0 /\ notices = {} /\ announced = 0 /\ uploaded = 0
    /\ expired = FALSE /\ unheard = FALSE /\ closedAt = 0

-----------------------------------------------------------------------------
(* The states: what each does on entry and for each call. *)

Aborted(ws) == [w \in Waiters |-> calls[w] + IF w \in ws THEN 1 ELSE 0]

(* cancel_pending_waits *)
CancelPendingWaits ==
    /\ calls' = Aborted(s.packages)
    /\ s' = [s EXCEPT !.packages = {}]
    /\ UNCHANGED <<unregs, deaths, closedAt>>

\* Mutant: the sync::Session is kept.
EnterInactive_KeepsClient(t) ==
    /\ calls' = Aborted(t.packages)
    /\ s' = [t EXCEPT !.state = "inactive", !.packages = {}]
    /\ unregs' = unregs + 1
    /\ UNCHANGED <<deaths, closedAt>>

\* Mutant: the queue is not emptied.
EnterInactive_KeepsQueue(t) ==
    /\ calls' = Aborted(t.packages)
    /\ s' = [t EXCEPT !.state = "inactive", !.sess = 0]
    /\ unregs' = unregs + 1
    /\ UNCHANGED <<deaths, closedAt>>

(* Inactive::enter_state; the unregistration follows once the lock is gone. *)
EnterInactive(t) ==
    /\ calls' = Aborted(t.packages)
    /\ s' = [t EXCEPT !.state = "inactive", !.packages = {}, !.sess = 0]
    /\ unregs' = unregs + 1
    /\ UNCHANGED <<deaths, closedAt>>

\* Mutant: the callback remembers the count from before the increment.
EnterDying_OldCount(t) ==
    /\ s' = [t EXCEPT !.state = "dying", !.deathCount = @ + 1]
    /\ deaths' = deaths \cup {[count |-> t.deathCount, sess |-> t.sess, target |-> announced']}
    /\ closedAt' = announced'
    /\ UNCHANGED <<calls, unregs>>

(* Dying::enter_state *)
EnterDying(t) ==
    \/ /\ t.sess = 0
       /\ EnterInactive(t)
    \/ /\ t.sess # 0
       /\ s' = [t EXCEPT !.state = "dying", !.deathCount = @ + 1]
       /\ deaths' = deaths \cup {[count |-> t.deathCount + 1, sess |-> t.sess,
                                  target |-> announced']}
       /\ closedAt' = announced'
       /\ UNCHANGED <<calls, unregs>>

Stay(t) == s' = t /\ UNCHANGED <<calls, unregs, deaths, closedAt>>

(* State::close *)
Close(t) ==
    \/ t.state \in {"waiting", "active"} /\ policy = "Immediately" /\ EnterInactive(t)
    \/ t.state = "waiting" /\ policy # "Immediately" /\ Stay([t EXCEPT !.deferredClose = TRUE])
    \/ t.state = "active" /\ policy = "LiveIndefinitely" /\ Stay(t)
    \/ t.state = "active" /\ policy = "AfterChangesUploaded" /\ EnterDying(t)
    \/ t.state \in {"dying", "inactive"} /\ Stay(t)

(* The binding is asked for a token once m_state_mutex has been released. *)
AskFor(caller) == asking' = asking \cup {caller} /\ UNCHANGED handle

(* revive_if_needed: an inactive session asks the binding for a token. *)
ReviveIfNeeded(caller) ==
    \/ /\ s.state = "inactive" /\ AskFor(caller)
       /\ Stay([s EXCEPT !.state = "waiting", !.deferredClose = FALSE])
    \/ /\ s.state = "waiting" /\ Stay([s EXCEPT !.deferredClose = FALSE])
       /\ UNCHANGED tokens
    \/ /\ s.state = "dying" /\ Stay([s EXCEPT !.state = "active"])
       /\ UNCHANGED tokens
    \/ /\ s.state = "active" /\ Stay(s)
       /\ UNCHANGED tokens

(* bind_session_handler: a refresh handle that asks for the first token takes the
   place of the one there was. *)
BindSession(caller) ==
    /\ caller \in asking /\ asking' = asking \ {caller}
    /\ handle' = "binding"
    /\ UNCHANGED <<session, manager, account, store, policy, client, waits>>

\* Mutant: a new sync::Session is refreshed instead of bound.
CreateSyncSession_KeepsBound ==
    IF s.sess # 0 THEN s ELSE [s EXCEPT !.sess = s.made + 1, !.made = @ + 1]

(* create_sync_session *)
CreateSyncSession ==
    IF s.sess # 0 THEN s
    ELSE [s EXCEPT !.sess = s.made + 1, !.made = @ + 1, !.bound = FALSE]

LatestOf(a, b) == IF a > b THEN a ELSE b

(* What the sync::Session knows once it is bound (every version of the file)
   or refreshed, and has been given the deferred notification. *)
AnnouncedAtActivation(t) ==
    IF t.bound THEN LatestOf(announced, t.deferredCommit) ELSE committed

\* Mutant: the queue is cleared and nothing registered.
RegisterWaits_None(t) == {}

(* The loop over m_completion_wait_packages. *)
RegisterWaits(t) == [w : t.packages, sess : {t.sess}]

CloseIfDeferred(t) == IF s.deferredClose THEN Close(t) ELSE Stay(t)

(* WaitingForAccessToken::refresh_access_token *)
RefreshAccessToken ==
    LET t == CreateSyncSession
        a == [t EXCEPT !.state = "active", !.bound = TRUE, !.packages = {},
                       !.deferredCommit = 0]
    IN  /\ s.state = "waiting"
        /\ announced' = AnnouncedAtActivation(t)
        /\ waits' = waits \cup RegisterWaits(t)
        /\ CloseIfDeferred(a)

-----------------------------------------------------------------------------
(* SyncManager and the holders of external references. *)

SessionMutexFree == opening = "no" /\ "get_session" \notin asking
UserMutexFree == leaving # "sessions"

(* The get_session that created the session has not returned yet. *)
Creating == opening \in {"create", "come online"} \/ (opening = "no" /\ "get_session" \in asking)

(* Who holds a shared pointer to the session for longer than a locked step. *)
Held ==
    \/ registered \/ ext \/ drops > 0 \/ unregs > 0 \/ opening # "no" \/ reviving
    \/ err # NoError \/ asking # {} \/ handle = "binding"

(* The last shared pointer goes away, and the sync::Session with it. *)
Destroy ==
    /\ ~Held /\ s.state # "destroyed"
    /\ s' = [s EXCEPT !.state = "destroyed", !.packages = {}, !.sess = 0]
    /\ UNCHANGED <<calls, unregs, deaths, closedAt, manager, account, store, policy, tokens,
                   client, waits>>

(* get_session takes m_session_mutex and finds the session. *)
GetSession ==
    /\ SessionMutexFree /\ registered /\ opens < MaxOpens
    /\ opens' = opens + 1 /\ opening' = "found"
    /\ UNCHANGED <<session, ext, drops, registered, account, store, policy, tokens, client, waits>>

(* SyncUser::register_session *)
RegisterSession ==
    /\ opening \in {"create", "found"} /\ UserMutexFree
    /\ opening' = CASE user = "active" -> IF opening = "found" THEN "revive" ELSE "come online"
                    [] user # "active" -> IF opening = "found" THEN "reference" ELSE "no"
    /\ pool' = CASE user = "active" -> "sessions"
                 [] user = "out" -> "waiting"
                 [] user = "error" -> pool
    /\ UNCHANGED <<session, store, ext, drops, opens, registered, user, reviving, leaving,
                   policy, tokens, client, waits>>

(* register_session, after the user's lock was released. *)
GetSessionRevive ==
    /\ opening \in {"come online", "revive"}
    /\ opening' = IF opening = "revive" THEN "reference" ELSE "no"
    /\ ReviveIfNeeded("get_session")
    /\ UNCHANGED <<ext, drops, opens, registered, account, store, policy, client, waits>>

(* external_reference *)
GetSessionReference ==
    /\ opening = "reference" /\ "get_session" \notin asking /\ opening' = "no"
    /\ ext' = TRUE
    /\ UNCHANGED <<session, drops, opens, registered, account, store, policy, tokens,
                   client, waits>>

(* The last shared pointer to the external reference goes away. *)
DropReference ==
    /\ ext /\ ~Creating /\ notices = {}
    /\ ext' = FALSE /\ drops' = drops + 1
    /\ UNCHANGED <<session, opening, opens, registered, account, store, policy, tokens,
                   client, waits>>

(* did_drop_external_reference, once it has the lock. *)
DidDropExternalReference ==
    /\ drops > 0 /\ drops' = drops - 1
    /\ UNCHANGED <<ext, opening, opens, registered, account, store, policy, tokens,
                   client, waits>>
    /\ IF ext THEN Stay(s) ELSE Close(s)

(* unregister_session, called by log_out with the user's lock or by another
   thread.  With no entry left the assertion fails; a build without assertions
   goes on with an invalid iterator. *)
UnregisterSession ==
    /\ unregs > 0 /\ SessionMutexFree /\ unregs' = unregs - 1
    /\ \/ leaving = "sessions" /\ leaving' = "handles"
       \/ (leaving # "sessions" \/ unregs > 1) /\ UNCHANGED leaving
    /\ registered' = (registered /\ ext)
    /\ UNCHANGED <<s, calls, deaths, closedAt, ext, drops, opening, opens, user, pool, reviving,
                   store, policy, tokens, client, waits>>

(* SyncManager::reconnect: a waiting session asks the binding again.  Its two
   steps, m_session_mutex held over both, are one here. *)
Reconnect ==
    /\ registered /\ SessionMutexFree
    /\ s.state = "waiting" /\ handle' = "binding" /\ UNCHANGED asking
    /\ UNCHANGED <<session, manager, account, store, policy, client, waits>>

(* wait_for_upload_completion, wait_for_download_completion *)
WaitForCompletion(w) ==
    /\ ext /\ ~Creating /\ calls[w] = 0 /\ w \notin s.packages /\ \A x \in waits : x.w # w
    /\ IF s.state \in {"active", "dying"}
       THEN /\ waits' = waits \cup {[w |-> w, sess |-> s.sess]}
            /\ UNCHANGED s
       ELSE /\ s' = [s EXCEPT !.packages = @ \cup {w}]
            /\ UNCHANGED waits
    /\ UNCHANGED <<calls, unregs, deaths, closedAt, manager, account, store, policy,
                   tokens, client>>

(* commit_write has committed and read the version it will report. *)
Commit ==
    /\ ext /\ ~Creating /\ committed < MaxCommits /\ Cardinality(notices) < MaxWriters
    /\ committed' = committed + 1
    /\ notices' = notices \cup {committed + 1}
    /\ UNCHANGED <<session, manager, account, announced, uploaded, unheard, policy, tokens,
                   client, waits>>

(* nonsync_transact_notify *)
NonsyncTransactNotify(v) ==
    /\ v \in notices /\ notices' = notices \ {v}
    /\ \/ /\ s.state = "waiting"
          /\ s' = [s EXCEPT !.deferredCommit = v]
          /\ UNCHANGED <<announced, unheard>>
       \/ /\ s.state = "active"
          /\ announced' = LatestOf(announced, v)
          /\ UNCHANGED <<s, unheard>>
       \/ /\ s.state \in {"dying", "inactive"}
          /\ unheard' = (unheard \/ s.state = "dying")
          /\ UNCHANGED <<s, announced>>
    /\ UNCHANGED <<calls, unregs, deaths, closedAt, manager, account, committed, uploaded,
                   policy, tokens, client, waits>>

-----------------------------------------------------------------------------
(* SyncUser and the binding. *)

(* SyncUser::log_out, up to unregister_session. *)
LogOut ==
    /\ user # "out" /\ leaving = "no" /\ user' = "out"
    /\ pool' = IF pool = "sessions" THEN (IF Held THEN "waiting" ELSE "none") ELSE pool
    /\ IF pool = "sessions" /\ Held /\ s.state # "inactive"
       THEN EnterInactive(s) /\ leaving' = "sessions"
       ELSE Stay(s) /\ leaving' = "handles"
    /\ UNCHANGED <<manager, reviving, store, policy, tokens, client, waits>>

(* RLMSyncUser logOut, second half: invalidate_all_handles. *)
InvalidateAllHandles ==
    /\ leaving = "handles" /\ leaving' = "no" /\ handle' = "none" /\ UNCHANGED asking
    /\ UNCHANGED <<session, manager, user, pool, reviving, store, policy, client, waits>>

(* SyncUser::update_refresh_token for a user that was logged out. *)
UpdateRefreshToken ==
    /\ user = "out" /\ UserMutexFree /\ opens < MaxOpens /\ opens' = opens + 1
    /\ user' = "active"
    /\ reviving' = (reviving \/ (pool = "waiting" /\ Held))
    /\ pool' = IF pool = "waiting" THEN (IF Held THEN "sessions" ELSE "none") ELSE pool
    /\ UNCHANGED <<session, ext, drops, opening, registered, leaving, store, policy, tokens,
                   client, waits>>

(* update_refresh_token, after the user's lock was released. *)
ReviveAfterLogIn ==
    /\ reviving /\ reviving' = FALSE
    /\ ReviveIfNeeded("log_in")
    /\ UNCHANGED <<manager, user, pool, leaving, store, policy, client, waits>>

(* _timerFired, unless this is the first request, and _handleSuccessfulRequest *)
TokenArrives ==
    /\ handle # "none" /\ handle' = "scheduled" /\ UNCHANGED asking
    /\ \/ RefreshAccessToken
       \/ s.state # "waiting" /\ Stay(s) /\ UNCHANGED <<announced, waits>>
    /\ expired' = (expired /\ s.state \notin {"waiting", "active"})
    /\ UNCHANGED <<manager, account, committed, notices, uploaded, unheard, policy,
                   err, errors>>

(* _handleFailedRequest: retried later if the network failed, else given up. *)
TokenFails ==
    /\ handle # "none" /\ handle' \in {"scheduled", "none"} \ {handle} /\ UNCHANGED asking
    /\ UNCHANGED <<session, manager, account, store, policy, client, waits>>

-----------------------------------------------------------------------------
(* The sync client's event loop: one thread, so no callback runs while
   handle_error is between its two locks. *)

EventLoopFree == err = NoError /\ "handle_error" \notin asking

(* handle_error, first lock: a dying session takes the error on itself. *)
HandleError(e) ==
    /\ EventLoopFree /\ errors < MaxErrors /\ errors' = errors + 1
    /\ s.sess # 0
    /\ expired' = (expired \/ e.code = "token_expired")
    /\ \/ s.state = "dying" /\ e.fatal /\ EnterInactive(s) /\ UNCHANGED err
       \/ s.state = "dying" /\ ~e.fatal /\ Stay(s) /\ UNCHANGED err
       \/ s.state # "dying" /\ Stay(s) /\ err' = e
    /\ UNCHANGED <<manager, account, store, policy, tokens, waits>>

(* handle_error, from the switch on. *)
HandleErrorCode ==
    /\ err # NoError /\ err' = NoError
    /\ \/ /\ err.code = "token_expired"
          /\ IF s.state = "active"
             THEN /\ Stay([s EXCEPT !.state = "waiting", !.deferredClose = FALSE])
                  /\ AskFor("handle_error")
             ELSE Stay(s) /\ UNCHANGED tokens
          /\ UNCHANGED user
       \/ /\ err.code = "bad_authentication" /\ UserMutexFree
          /\ CancelPendingWaits /\ user' = "error" /\ UNCHANGED tokens
       \/ /\ err.code = "permission_denied"
          /\ EnterInactive(s) /\ UNCHANGED <<user, tokens>>
       \/ /\ err.code = "other"
          /\ IF err.fatal THEN CancelPendingWaits ELSE Stay(s)
          /\ UNCHANGED <<user, tokens>>
    /\ UNCHANGED <<manager, pool, reviving, leaving, store, policy, errors, expired, waits>>

(* The server acknowledges everything announced to it. *)
Upload ==
    /\ EventLoopFree /\ s.sess # 0 /\ s.bound /\ ~expired
    /\ uploaded' = LatestOf(uploaded, announced)
    /\ UNCHANGED <<session, manager, account, committed, notices, announced, unheard, policy,
                   tokens, client, waits>>

(* A completion wait ends: its session did what was waited for, or it was
   destroyed and the wait is aborted. *)
WaitEnds(x) ==
    /\ EventLoopFree /\ x \in waits /\ waits' = waits \ {x}
    /\ calls' = Aborted({x.w})
    /\ UNCHANGED <<s, unregs, deaths, closedAt, manager, account, store, policy, tokens,
                   client>>

\* Mutant: any death's callback will do.
OwnDeath_Any(d) == s.state = "dying"

(* The session is still dying the death d was registered for. *)
OwnDeath(d) == s.state = "dying" /\ s.deathCount = d.count

(* The callback of Dying::enter_state. *)
UploadCompleted(d) ==
    /\ EventLoopFree /\ d \in deaths
    /\ d.sess # s.sess \/ uploaded >= d.target
    /\ \/ /\ OwnDeath(d)
          /\ calls' = Aborted(s.packages)
          /\ s' = [s EXCEPT !.state = "inactive", !.packages = {}, !.sess = 0]
          /\ unregs' = unregs + 1
       \/ /\ ~OwnDeath(d)
          /\ UNCHANGED <<s, calls, unregs>>
    /\ deaths' = deaths \ {d}
    /\ UNCHANGED <<closedAt, manager, account, store, policy, tokens, client, waits>>

-----------------------------------------------------------------------------
Next ==
    \/ GetSession \/ RegisterSession \/ GetSessionRevive \/ GetSessionReference
    \/ Destroy \/ DropReference \/ DidDropExternalReference \/ UnregisterSession \/ Reconnect
    \/ \E w \in Waiters : WaitForCompletion(w)
    \/ Commit \/ \E v \in notices : NonsyncTransactNotify(v)
    \/ LogOut \/ InvalidateAllHandles \/ UpdateRefreshToken \/ ReviveAfterLogIn
    \/ \E caller \in asking : BindSession(caller)
    \/ TokenArrives \/ TokenFails
    \/ \E e \in Error : HandleError(e)
    \/ HandleErrorCode \/ Upload
    \/ \E x \in waits : WaitEnds(x)
    \/ \E d \in deaths : UploadCompleted(d)

Spec == Init /\ [][Next]_vars

(* The threads that are in the middle of something. *)
OpeningThread == RegisterSession \/ GetSessionRevive \/ GetSessionReference \/ BindSession("get_session")
LogInThread   == ReviveAfterLogIn \/ BindSession("log_in")
EventLoop ==
    \/ HandleErrorCode \/ BindSession("handle_error") \/ Upload
    \/ \E x \in waits : WaitEnds(x)
    \/ \E d \in deaths : UploadCompleted(d)

(* The sync client's event loop runs, threads that wait for a lock get it, and
   the authentication server answers. *)
Fairness ==
    /\ WF_vars(OpeningThread) /\ WF_vars(LogInThread) /\ WF_vars(EventLoop)
    /\ WF_vars(DidDropExternalReference) /\ WF_vars(UnregisterSession)
    /\ WF_vars(InvalidateAllHandles)
    /\ WF_vars(\E v \in notices : NonsyncTransactNotify(v))
    /\ WF_vars(TokenArrives)
FairSpec == Spec /\ Fairness

-----------------------------------------------------------------------------
(* Properties. *)

(* The states of the session, of the code around it and of the client. *)
TypeOK ==
    /\ s \in [state : {"inactive", "waiting", "active", "dying", "destroyed"},
              sess : 0..MaxOpens, bound : BOOLEAN, deferredClose : BOOLEAN,
              packages : SUBSET Waiters, deferredCommit : 0..MaxCommits,
              deathCount : Nat, made : 0..MaxOpens]
    /\ policy \in Policies /\ ext \in BOOLEAN /\ drops \in Nat
    /\ opening \in {"create", "found", "come online", "revive", "reference", "no"} /\ opens \in 0..MaxOpens
    /\ registered \in BOOLEAN /\ unregs \in Nat
    /\ user \in {"active", "out", "error"} /\ pool \in {"none", "sessions", "waiting"}
    /\ reviving \in BOOLEAN /\ leaving \in {"no", "sessions", "handles"}
    /\ handle \in {"none", "binding", "scheduled"} /\ asking \subseteq Callers
    /\ err \in Error \cup {NoError} /\ errors \in 0..MaxErrors
    /\ waits \subseteq [w : Waiters, sess : 1..MaxOpens]
    /\ deaths \subseteq [count : Nat, sess : 1..MaxOpens, target : 0..MaxCommits]
    /\ calls \in [Waiters -> Nat]
    /\ {committed, announced, uploaded, closedAt} \subseteq 0..MaxCommits
    /\ notices \subseteq 1..MaxCommits /\ {unheard, expired} \subseteq BOOLEAN

(* A sync::Session exists and is bound whenever a handler of Active or Dying
   uses it, and none outlives the move to Inactive (the assertions in
   wait_for_completion; client.hpp: waiting before bind() is an error). *)
ClientSessionMatchesState ==
    /\ s.state \in {"active", "dying"} => s.sess # 0 /\ s.bound
    /\ s.state = "inactive" => s.sess = 0
    /\ \A x \in waits : x.sess = s.sess => s.bound

(* How many of the queue, the client and the callback's past hold waiter w. *)
Places(w) ==
    calls[w] + (IF w \in s.packages THEN 1 ELSE 0)
             + Cardinality({x \in waits : x.w = w})

(* However the session is closed, revived, logged out or hit by errors between
   the registration of a completion callback and its call, it is not called twice,
   nor forgotten while the session object lives: it moves from the queue to the
   client to its one call. *)
WaitersCalledOnce ==
    [][\A w \in Waiters : /\ Places(w)' <= 1
                          /\ s'.state # "destroyed" => Places(w)' >= Places(w)]_vars

(* A dying session ends by the callback of its own death only: whatever was
   announced when it was last asked to close has reached the server.  The
   callback of an earlier death, fired late or aborted, does nothing. *)
DiesOnlyUploaded ==
    [][(deaths' # deaths /\ s.state = "dying" /\ s'.state = "inactive")
        => uploaded >= closedAt]_vars

(* Once every notification has been delivered, an active session's client
   knows of the latest commit, also of those made while the session was
   waiting for a token; a commit that met a dying session is the exception. *)
ActiveKnowsCommits ==
    s.state = "active" /\ notices = {} /\ ~unheard => announced = committed

(* Nothing is running that will still touch the session. *)
Quiescent ==
    /\ opening = "no" /\ drops = 0 /\ unregs = 0 /\ ~reviving /\ leaving = "no"
    /\ err = NoError /\ asking = {} /\ handle # "binding" /\ notices = {} /\ deaths = {}
    /\ Held \/ s.state = "destroyed"

(* A dying session ends, revived or not, unless its token has expired: Dying
   swallows that error and ignores the token the binding then brings. *)
DyingEnds == s.state = "dying" ~> (s.state # "dying" \/ expired)

(* A completion callback registered with a live session is called, unless the
   session becomes inactive or the binding gives up on the token. *)
WaitersAnswered ==
    \A w \in Waiters :
        Places(w) = 1 /\ s.state # "inactive"
            ~> \/ calls[w] = 1
               \/ handle = "none" /\ asking = {}
               \/ s.state \in {"inactive", "destroyed"}

-----------------------------------------------------------------------------
(* What comments and assertions of the code say and TLC refutes. *)

(* advance_state: REALM_ASSERT(&state != m_state).  The error that moves a
   session to Inactive finds it there, logged out between the two locks. *)
AdvanceChangesState ==
    [][err.code = "permission_denied" /\ err' = NoError => s.state # "inactive"]_vars

(* unregister_session: REALM_ASSERT(it != m_sessions.end()).  Two moves to
   Inactive may have their unregistration outstanding at once. *)
UnregisterFindsSession == unregs > 0 => registered

(* external_reference: "The sync session attempts to remain active as long as
   an external reference to the session exists." *)
ReferencedSessionLives ==
    Quiescent /\ ext /\ user = "active" /\ errors = 0 => s.state \in {"waiting", "active"}

(* SyncUser::log_out: "This will also close its associated Sessions." *)
LogOutClosesSessions == Quiescent /\ user = "out" => s.state \in {"inactive", "destroyed"}

(* update_refresh_token calls its sessions "after releasing the lock, since the
   session may need to access protected User state"; log_out does not, and
   waits for m_session_mutex while get_session waits for the user's lock. *)
UserLockNotHeldInSessions == ~(opening \in {"create", "found"} /\ leaving = "sessions")

(* wait_for_upload_completion: "the completion handler will always be called at
   least once, except in the case where a logged-out session is never logged
   back in." *)
WaitersAlwaysCalled ==
    \A w \in Waiters : Places(w) = 1 ~> (calls[w] = 1 \/ pool = "waiting")

(* SyncSessionStopPolicy::Immediately: "Immediately stop the session as soon as
   all Realms/Sessions go out of scope." *)
UnreferencedSessionStops ==
    Quiescent /\ ~ext /\ policy = "Immediately" => s.state \in {"inactive", "destroyed"}
=============================================================================
