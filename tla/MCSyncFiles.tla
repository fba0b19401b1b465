------------------------------ MODULE MCSyncFiles ------------------------------
(* Instances of SyncFiles for TLC. *)
EXTENDS SyncFiles

CONSTANTS r1, u1
(* Every Realm is u1's. *)
MCOwner == [r \in Realms |-> u1]
=============================================================================
