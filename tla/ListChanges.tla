----------------------------- MODULE ListChanges -----------------------------
(***************************************************************************)
(* The change notifications of one list of links.  A slot of the list has an *)
(* identity that it keeps while other slots come and go, and which only the  *)
(* model sees: it tells what a report should have said.                      *)
(*                                                                          *)
(* The instructions of the log are parsed one by one into m_change; run()    *)
(* adds the slots whose object changed, and the handover merges the result   *)
(* into what the callback has not been told yet.                             *)
(***************************************************************************)
EXTENDS ChangeBuilder

CONSTANTS MaxLen,   \* bound: the slots of the list
          MaxParsed \* bound: instructions between two calls of the callback
\* A size is never npos.
ASSUME BoundsAssumption == MaxLen \in Nat /\ MaxParsed \in Nat /\ MaxLen < Npos

VARIABLES
    list,     \* the slots now
    start,    \* the slots at the last run; its length is m_prev_size
    base,     \* the slots when the callback was last called
    attached, \* the object that owns the list exists
    touched,  \* slots whose object changed since the last run
    dirty,    \* slots that were changed since the callback was last called
    change,   \* m_change
    acc,      \* the callback's accumulated_changes
    parsed    \* instructions since the callback was last called

vars == <<list, start, base, attached, touched, dirty, change, acc, parsed>>

Slots == 1 .. MaxLen + MaxParsed
Indexes(s) == 0 .. Len(s) - 1
Identity(n) == [k \in 1 .. n |-> k]

(* The slots of s whose index is not one of gone, in their order: the n-th is the one
   with n - 1 of them before it. *)
Kept(s, gone) ==
    LET stay == Indexes(s) \ gone
        Nth(n) == CHOOSE k \in stay : Cardinality({i \in stay : i < k}) = n - 1
    IN  [n \in 1 .. Cardinality(stay) |-> s[Nth(n) + 1]]

TypeOK ==
    /\ list \in Seq(Slots) /\ start \in Seq(Slots) /\ base \in Seq(Slots)
    /\ attached \in BOOLEAN /\ touched \subseteq Slots /\ dirty \subseteq Slots
    /\ change \in [deletions : SUBSET Nat, insertions : SUBSET Nat, modifications : SUBSET Nat,
                   moves : Seq([from : Nat, to : Nat]), mapping : {<<>>}]
    /\ acc \in [deletions : SUBSET Nat, insertions : SUBSET Nat, modifications : SUBSET Nat,
                moves : Seq([from : Nat, to : Nat]), mapping : {<<>>}]
    /\ parsed \in 0 .. MaxParsed

Init ==
    /\ \E n \in 0 .. MaxLen : list = Identity(n) /\ start = list /\ base = list
    /\ attached = TRUE /\ touched = {} /\ dirty = {}
    /\ change = NoChanges /\ acc = NoChanges /\ parsed = 0

(* A further instruction for the list was parsed. *)
Parse ==
    /\ attached /\ parsed < MaxParsed
    /\ parsed' = parsed + 1
    /\ UNCHANGED <<start, base, acc>>

LinkListSet(i) ==
    /\ Parse
    /\ change' = Modify(change, i)
    /\ dirty' = dirty \cup {list[i + 1]}
    /\ UNCHANGED <<list, attached, touched>>

LinkListInsert(i) ==
    /\ Parse /\ Len(list) < MaxLen
    /\ change' = Insert(change, i, 1)
    /\ list' = InsertAt(list, i + 1, Max((UNION {ToSet(s) : s \in {list, start, base}}) \cup {0}) + 1)
    /\ UNCHANGED <<attached, touched, dirty>>

(* link_list_erase, and link_list_nullify when the object was deleted *)
LinkListErase(i) ==
    /\ Parse
    /\ change' = Erase(change, i)
    /\ list' = RemoveAt(list, i + 1)
    /\ UNCHANGED <<attached, touched, dirty>>

LinkListMove(from, to) ==
    /\ Parse
    /\ change' = Move(change, from, to)
    /\ list' = InsertAt(RemoveAt(list, from + 1), to + 1, list[from + 1])
    /\ UNCHANGED <<attached, touched, dirty>>

(* Two objects change places: each slot gets another object. *)
LinkListSwap(i, j) ==
    /\ Parse
    /\ change' = Modify(Modify(change, i), j)
    /\ dirty' = dirty \cup {list[i + 1], list[j + 1]}
    /\ UNCHANGED <<list, attached, touched>>

LinkListClear ==
    /\ Parse
    /\ change' = Clear(change, Len(list))
    /\ list' = <<>>
    /\ UNCHANGED <<attached, touched, dirty>>

(* The object in a slot was changed: row_did_change will say so. *)
ObjectChanged(i) ==
    /\ Parse
    /\ touched' = touched \cup {list[i + 1]}
    /\ dirty' = dirty \cup {list[i + 1]}
    /\ UNCHANGED <<list, attached, change>>

(* erase_rows or clear_table of the owner: the list is not observed any more,
   what was parsed for it stays. *)
OwnerErased ==
    /\ Parse
    /\ attached' = FALSE
    /\ list' = <<>>
    /\ UNCHANGED <<touched, dirty, change>>

(* ListNotifier::run: what the handover adds to the accumulated changes. *)
Run ==
    IF attached
    THEN LET c == CleanUpStaleMoves(change)
         IN  [c EXCEPT !.modifications = @ \cup {i \in Indexes(list) : list[i + 1] \in touched}]
    ELSE IF start # <<>> THEN [change EXCEPT !.deletions = Indexes(start)]
    ELSE NoChanges

Handover ==
    /\ acc' = Merge(acc, Run)
    /\ change' = NoChanges /\ touched' = {}
    /\ start' = list
    /\ UNCHANGED <<list, base, attached, dirty, parsed>>

(* The callback is called, and the slots are named anew.  Parsing commutes with
   it, so that it only happens right after a handover. *)
Deliver ==
    /\ change = NoChanges /\ touched = {} /\ start = list /\ parsed > 0
    /\ LET s == Identity(Len(list)) IN list' = s /\ start' = s /\ base' = s
    /\ acc' = NoChanges /\ dirty' = {} /\ parsed' = 0
    /\ UNCHANGED <<attached, change, touched>>

Next ==
    \/ \E i \in 0 .. Len(list) : LinkListInsert(i)
    \/ \E i \in Indexes(list) : LinkListSet(i) \/ LinkListErase(i) \/ ObjectChanged(i)
    \/ \E i, j \in Indexes(list) : i # j /\ (LinkListMove(i, j) \/ LinkListSwap(i, j))
    \/ LinkListClear \/ OwnerErased
    \/ Handover \/ Deliver

Spec == Init /\ [][Next]_vars

-----------------------------------------------------------------------------
(* Properties *)

Reported == Finalize(acc)

(* What was accumulated over several runs, applied to the list the callback
   last saw, gives the list it will see: taking the deletions out of the one and
   the insertions out of the other leaves the same slots in the same order. *)
ReportApplies ==
    attached =>
        /\ acc.deletions \subseteq Indexes(base) /\ acc.insertions \subseteq Indexes(start)
        /\ Kept(base, acc.deletions) = Kept(start, acc.insertions)

(* Every reported move is the move of one slot, and is also a deletion and an
   insertion. *)
MovesAreMoves ==
    attached => \A m \in ToSet(acc.moves) :
        /\ m.from \in acc.deletions /\ m.to \in acc.insertions
        /\ base[m.from + 1] = start[m.to + 1]

(* The reported modifications are the slots that stayed in place and were
   changed, the same ones in the old and in the new list. *)
ModificationsAreExact ==
    LET stayed == {base[i + 1] : i \in Indexes(base) \ acc.deletions}
    IN  (attached /\ change = NoChanges /\ touched = {} /\ start = list) =>
            /\ {start[i + 1] : i \in Reported.modificationsNew} = dirty \cap stayed
            /\ {base[i + 1] : i \in Reported.modifications} = dirty \cap stayed

(* Moves that undo each other are not reported. *)
NothingMovedNothingReported ==
    (attached /\ start = base) => acc.deletions = {} /\ acc.insertions = {}

(* A report, of however many runs and merges, is right in all its parts. *)
ReportIsRight ==
    ReportApplies /\ MovesAreMoves /\ ModificationsAreExact /\ NothingMovedNothingReported

(* Refuted: when the owner was deleted, all rows are reported as deleted and none as
   inserted. *)
DeletedListIsEmptied ==
    (~attached /\ start = <<>>) => acc.deletions = Indexes(base) /\ acc.insertions = {}
=============================================================================
