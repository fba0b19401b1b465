------------------------ MODULE MCRealmNotifications ------------------------
(* Kinds of applications for TLC; those of Plain make no excluded call. *)
EXTENDS RealmNotifications

CONSTANTS n1, n2

Plain == [observes |-> {n1}, invalidates |-> FALSE, suppresses |-> FALSE, idles |-> FALSE,
          commitsFail |-> FALSE, openFails |-> FALSE, versions |-> 3, calls |-> 2]

MCUses ==
    {[Plain EXCEPT !.suppresses = TRUE],
     [Plain EXCEPT !.observes = {n1, n2}, !.versions = 2, !.commitsFail = TRUE],
     [Plain EXCEPT !.invalidates = TRUE, !.versions = 2, !.openFails = TRUE]}
=============================================================================
