---------------------------- MODULE CallbackRounds ----------------------------
(***************************************************************************)
(* What a delivery promises to the callbacks of one collection: in each     *)
(* round the callbacks that were packaged and are still registered are      *)
(* visited one after the other, in order of registration, each of them      *)
(* once; a callback that is withdrawn is not visited any more, and one that *)
(* is added meanwhile waits for the next delivery.                          *)
(***************************************************************************)
EXTENDS Naturals

CONSTANTS Tokens    \* the callbacks, numbered in order of registration
VARIABLES packed,   \* the packaged callbacks that are still registered
          pending,  \* those the current round has still to visit
          visited   \* the callback visited last

vars == <<packed, pending, visited>>

Init == packed = {} /\ pending = {} /\ visited = {}

(* A delivery takes up the callbacks registered now; its first round may start
   at once. *)
Package ==
    /\ packed = {} /\ packed' \in SUBSET Tokens
    /\ pending' \in {{}, packed'} /\ UNCHANGED visited

StartRound == pending = {} /\ pending' = packed /\ UNCHANGED <<packed, visited>>

(* The next callback is called, or passed over if there is nothing to tell it. *)
Visit ==
    /\ visited = {}
    /\ \E t \in pending : /\ \A u \in pending : t <= u
                          /\ pending' = pending \ {t}
                          /\ visited' \in {{t}, {}}
    /\ UNCHANGED packed

Return == visited # {} /\ visited' = {} /\ UNCHANGED <<packed, pending>>

Withdraw(t) ==
    /\ packed' = packed \ {t} /\ pending' = pending \ {t}
    /\ visited' \in {visited, {}}

EndDelivery ==
    pending = {} /\ visited = {} /\ packed' = {} /\ UNCHANGED <<pending, visited>>

Next ==
    \/ Package \/ StartRound \/ Visit \/ Return \/ EndDelivery
    \/ \E t \in Tokens : Withdraw(t)

Spec == Init /\ [][Next]_vars
=============================================================================
