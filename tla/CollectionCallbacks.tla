-------------------------- MODULE CollectionCallbacks --------------------------
(***************************************************************************)
(* The callbacks of one CollectionNotifier: how they are registered and     *)
(* removed, also from within a callback or from another thread, how the     *)
(* worker adds changes to them, and the loop that calls them.  One step is  *)
(* what happens under m_callback_mutex; the mutex is free while user code   *)
(* runs.  Indexes are size_t and wrap around, Npos is the largest.          *)
(***************************************************************************)
EXTENDS Naturals, Sequences, SequencesExt, FiniteSets

CONSTANTS MaxTokens,   \* bound: callbacks ever registered
          Npos,        \* the largest size_t
          MaxChanges,  \* bound: changes the worker reports
          LateRemoval  \* may a callback added during a delivery be removed before its end

ASSUME CallbacksAssumption ==
    /\ MaxTokens \in Nat /\ Npos \in Nat /\ Npos > MaxTokens + 1
    /\ MaxChanges \in Nat /\ LateRemoval \in BOOLEAN

Tokens == 1..MaxTokens
Nobody == 0

VARIABLES
    callbacks,  \* m_callbacks, the tokens in order
    index,      \* m_callback_index
    count,      \* m_callback_count
    have,       \* m_have_callbacks
    acc,        \* accumulated_changes, by token
    out,        \* changes_to_deliver
    initial,    \* initial_delivered
    skip,       \* skip_next
    error,      \* m_error
    phase,      \* idle, packaged, or the loop that is running
    calling,    \* the callback whose user code runs
    fault,      \* an index outside m_callbacks was used
    next,       \* m_next_token
    packaged,   \* tokens registered when the delivery was packaged
    called,     \* tokens called in this delivery
    failed,     \* tokens whose callback was given the error
    due,        \* changes reported to the notifier and not yet to the callback
    changes     \* changes reported so far

flags == <<have, error, fault>>
data  == <<acc, out, initial, skip, due, changes>>
loop  == <<phase, calling, packaged, called, failed>>
vars  == <<callbacks, index, count, flags, data, loop, next>>

Init ==
    /\ callbacks = <<>> /\ index = Npos /\ count = Npos
    /\ have = FALSE /\ error = FALSE /\ fault = FALSE
    /\ acc = [t \in Tokens |-> {}] /\ out = acc /\ due = acc
    /\ initial = {} /\ skip = {} /\ changes = 0
    /\ phase = "idle" /\ calling = Nobody
    /\ next = 1 /\ packaged = {} /\ called = {} /\ failed = {}

Registered == ToSet(callbacks)
Incremented(n) == (n + 1) % (Npos + 1)
Decremented(n) == (n + Npos) % (Npos + 1)

(* User code runs: in a callback, or, between packaging and delivery, in a
   callback of another notifier or in did_change. *)
UserCode == ~fault /\ (calling # Nobody \/ phase \in {"idle", "packaged"})

-----------------------------------------------------------------------------
\* Mutant: a callback added during a delivery counts as part of it.
CountAfterAdd_Grown == IF phase = "idle" THEN count ELSE Incremented(count)

CountAfterAdd == count

\* Mutant: the flag is not set while notifications are being sent.
HaveAfterAdd_NotInDelivery == have \/ phase = "idle"

(* m_have_callbacks is set unless the loop is at a callback. *)
HaveAfterAdd == have \/ index = Npos

(* add_callback *)
AddCallback ==
    /\ UserCode /\ next \in Tokens /\ next' = next + 1
    /\ callbacks' = Append(callbacks, next)
    /\ count' = CountAfterAdd /\ have' = HaveAfterAdd
    /\ UNCHANGED <<index, error, fault, data, loop>>

(* m_callback_index when the callback at i is erased. *)
IndexAfterErase(i) ==
    IF index # Npos /\ index >= i THEN Decremented(index) ELSE index

HaveAfterErase(rest) == rest # <<>>

(* The part of remove_callback that changes anything, for a registered token. *)
Erase(t) ==
    LET i == SelectInSeq(callbacks, LAMBDA x : x = t)
        rest == RemoveAt(callbacks, i)
    IN  /\ callbacks' = rest
        /\ index' = IndexAfterErase(i - 1)
        /\ count' = Decremented(count)
        /\ have' = HaveAfterErase(rest)
        /\ acc' = [acc EXCEPT ![t] = {}] /\ out' = [out EXCEPT ![t] = {}]
        /\ due' = [due EXCEPT ![t] = {}]
        /\ initial' = initial \ {t} /\ skip' = skip \ {t}

(* remove_callback, when a token is destroyed, on whichever thread. *)
RemoveCallback(t) ==
    /\ UserCode /\ t \in Registered
    /\ LateRemoval \/ phase = "idle" \/ t \in packaged
    /\ Erase(t)
    /\ UNCHANGED <<error, fault, changes, loop, next>>

(* suppress_next_notification *)
SuppressNext(t) ==
    /\ UserCode /\ t \in Registered /\ skip' = skip \cup {t}
    /\ UNCHANGED <<callbacks, index, count, flags, acc, out, initial, due, changes, loop, next>>

\* Mutant: the changes are moved into the first callback, not the last.
Accumulated_MovedFirst(t, new) ==
    acc[t] \cup IF t \notin skip /\ t = Head(callbacks) THEN new ELSE {}

Accumulated(t, new) == acc[t] \cup IF t \notin skip THEN new ELSE {}

(* add_changes on the worker: new changes, or none, which clears skip_next all
   the same. *)
AddChanges(new) ==
    /\ UserCode /\ changes + Cardinality(new) <= MaxChanges
    /\ changes' = changes + Cardinality(new)
    /\ acc' = [t \in Tokens |-> IF t \in Registered THEN Accumulated(t, new) ELSE acc[t]]
    /\ due' = [t \in Tokens |-> IF t \in Registered \ skip THEN due[t] \cup new ELSE due[t]]
    /\ skip' = {}
    /\ UNCHANGED <<callbacks, index, count, flags, out, initial, loop, next>>

-----------------------------------------------------------------------------
(* package_for_delivery *)
PackageForDelivery ==
    /\ phase = "idle" /\ ~error /\ phase' = "packaged"
    /\ out' = [t \in Tokens |-> IF t \in Registered THEN acc[t] ELSE out[t]]
    /\ acc' = [t \in Tokens |-> IF t \in Registered THEN {} ELSE acc[t]]
    /\ count' = Len(callbacks)
    /\ packaged' = Registered /\ called' = {}
    /\ UNCHANGED <<callbacks, index, flags, initial, skip, due, changes, calling, failed, next>>

(* before_advance and after_advance; notifications at the version the Realm is
   at already have no before_advance. *)
BeforeAdvance ==
    /\ phase = "packaged" /\ phase' = "before"
    /\ UNCHANGED <<callbacks, index, count, flags, data, calling, packaged, called, failed, next>>

AfterAdvance ==
    /\ phase \in {"packaged", "advanced"} /\ phase' = "after"
    /\ UNCHANGED <<callbacks, index, count, flags, data, calling, packaged, called, failed, next>>

(* deliver_error: the count is that of now. *)
DeliverError ==
    /\ phase = "idle" /\ phase' = "error" /\ error' = TRUE
    /\ count' = Len(callbacks)
    /\ packaged' = Registered /\ called' = {}
    /\ UNCHANGED <<callbacks, index, have, fault, data, calling, failed, next>>

Looping == phase \in {"before", "after", "error"} /\ calling = Nobody /\ ~fault

(* for_each_callback goes on to the next callback ... *)
Visit ==
    /\ Looping /\ Incremented(index) < count /\ index' = Incremented(index)
    /\ IF index' >= Len(callbacks)
       THEN fault' = TRUE /\ UNCHANGED <<out, initial, due, calling, called, failed>>
       ELSE LET t == callbacks[index' + 1]
            IN  /\ UNCHANGED fault
                /\ CASE phase = "before" ->
                          /\ calling' = IF out[t] = {} THEN Nobody ELSE t
                          /\ UNCHANGED <<out, initial, due, called, failed>>
                     [] phase = "after" ->
                          /\ calling' = IF t \in initial /\ out[t] = {} THEN Nobody ELSE t
                          /\ called' = IF t \in initial /\ out[t] = {} THEN called ELSE called \cup {t}
                          /\ initial' = initial \cup {t}
                          /\ out' = [out EXCEPT ![t] = {}]
                          /\ due' = [due EXCEPT ![t] = @ \ out[t]]
                          /\ UNCHANGED failed
                     [] phase = "error" ->
                          /\ calling' = t /\ failed' = failed \cup {t}
                          /\ called' = called \cup {t}
                          /\ UNCHANGED <<out, initial, due>>
    /\ UNCHANGED <<callbacks, count, have, error, acc, skip, changes, phase, packaged, next>>

(* ... and ends. *)
LoopEnds ==
    /\ Looping /\ Incremented(index) >= count /\ index' = Npos
    /\ phase' = IF phase = "before" THEN "advanced" ELSE "idle"
    /\ packaged' = IF phase = "before" THEN packaged ELSE {}
    /\ UNCHANGED <<callbacks, count, flags, data, calling, called, failed, next>>

\* Mutant: the callback stays registered after the error.
RemovedOnError_Not(t) == FALSE

(* deliver_error calls remove_callback unless the callback did so itself. *)
RemovedOnError(t) == t \in Registered

(* User code returns. *)
Return ==
    /\ calling # Nobody /\ calling' = Nobody
    /\ IF phase = "error" /\ RemovedOnError(calling)
       THEN Erase(calling)
       ELSE UNCHANGED <<callbacks, index, count, have, acc, out, due, initial, skip>>
    /\ UNCHANGED <<error, fault, changes, phase, packaged, called, failed, next>>

Next ==
    \/ PackageForDelivery \/ BeforeAdvance \/ AfterAdvance \/ DeliverError
    \/ Visit \/ LoopEnds \/ Return \/ AddCallback
    \/ \E t \in Tokens : RemoveCallback(t) \/ SuppressNext(t)
    \/ AddChanges({}) \/ AddChanges({changes + 1})

Spec == Init /\ [][Next]_vars

-----------------------------------------------------------------------------
(* The callbacks, the loop and the history. *)
TypeOK ==
    /\ callbacks \in Seq(1 .. next - 1) /\ next \in 1 .. MaxTokens + 1
    /\ index \in {Npos} \cup (0 .. Len(callbacks) - 1) /\ count \in 0..Npos
    /\ {have, error, fault} \subseteq BOOLEAN
    /\ \A f \in {acc, out, due} : f \in [Tokens -> SUBSET (1..MaxChanges)]
    /\ phase \in {"idle", "packaged", "before", "advanced", "after", "error"}
    /\ calling \in Tokens \cup {Nobody} /\ changes \in 0..MaxChanges
    /\ \A s \in {initial, skip, packaged, called, failed} : s \subseteq 1 .. next - 1

(* A change is never dropped between the worker and a callback: what was
   reported since the callback was added is accumulated or about to be
   delivered, although packaging overwrites changes_to_deliver. *)
ChangesNeverLost ==
    \A t \in Registered : due[t] \subseteq acc[t] \cup out[t]

(* m_have_callbacks, which decides whether the worker computes anything, is
   exact, also after callbacks removed themselves or others in mid-loop and new
   ones were added (add_callback leaves it alone while a callback runs). *)
HaveCallbacksExact == have = (callbacks # <<>>)

(* A callback that was given an error is never called again. *)
NoCallAfterError ==
    [][\A t \in failed : calling' = t => calling = t]_vars

(* Every delivery visits each packaged callback once and in order, and none
   that was added meanwhile, whatever the callbacks add and remove: the index
   and count arithmetic of for_each_callback implements CallbackRounds. *)
StillPackaged == Registered \cap packaged
Rounds == INSTANCE CallbackRounds WITH
    packed  <- StillPackaged,
    pending <- IF phase \in {"before", "after", "error"}
               THEN {callbacks[i] : i \in Incremented(index) + 1 .. count} ELSE {},
    visited <- IF calling = Nobody THEN {} ELSE {calling}
ImplementsRounds == Rounds!Spec

(* "The number of callbacks which were present when the notifier was packaged
   for delivery which are still present" (collection_notifier.hpp). *)
CountIsStillPackaged ==
    phase # "idle" => count = Cardinality(StillPackaged)

(* REALM_ASSERT_DEBUG(m_callback_count <= m_callbacks.size()) where
   for_each_callback starts, and its indexing of m_callbacks. *)
CountWithinCallbacks ==
    phase \in {"before", "after", "error"} => count <= Len(callbacks)
=============================================================================
