----------------------- MODULE RealmNotificationsProofs -----------------------
(***************************************************************************)
(* Main thread and worker meet at one version, and blocks are told of       *)
(* every transaction they are to be told of and of no other, for any        *)
(* notifiers, versions and calls.                                           *)
(***************************************************************************)
EXTENDS RealmNotifications, TLAPS

(* TypeOK part by part, with what it leaves out and what the bounds on versions
   rest on. *)
NumTypes ==
    /\ use \in Uses /\ latest \in 1..use.versions /\ rv \in 1..latest
    /\ target \in 0..latest /\ wver \in 0..latest /\ wskip \in 0..latest
    /\ nsv \in 0..latest /\ pin \in 0..latest /\ skipv \in 0..latest
    /\ pc \in {"idle", "refresh", "begin", "write", "commit"}
    /\ wpc \in {"idle", "skip", "skipped", "run", "ran", "signal"}
    /\ pc \in {"begin", "write", "commit"} => latest < use.versions

QueryTypes ==
    /\ place \in [Notifiers -> {"none", "new", "main"}]
    /\ alive \in [Notifiers -> BOOLEAN] /\ ran \in [Notifiers -> BOOLEAN]
    /\ ver \in [Notifiers -> 0..latest] /\ rows \in [Notifiers -> 0..latest]
    /\ hand \in [Notifiers -> 0..latest] /\ pend \in [Notifiers -> SUBSET (1..latest)]
    /\ wold \subseteq Notifiers /\ wnew \subseteq Notifiers

BlockTypes ==
    /\ give \in [Notifiers -> 0..latest] /\ upto \in [Notifiers -> 0..latest]
    /\ acc \in [Notifiers -> SUBSET (1..latest)] /\ out \in [Notifiers -> SUBSET (1..latest)]
    /\ quiet \in [Notifiers -> SUBSET (1..latest)]

SetTypes ==
    /\ block \subseteq Mine /\ view \subseteq Mine /\ used \subseteq Mine /\ wants \subseteq Mine
    /\ skip \subseteq block /\ asked \subseteq block
    /\ pc \notin {"write", "commit"} => asked = {}

Types == NumTypes /\ QueryTypes /\ BlockTypes /\ SetTypes

-----------------------------------------------------------------------------
(* The rounds of the worker *)

InRound == wpc \in {"skip", "skipped", "run", "ran"}

(* The notifiers of a round are in m_notifiers until it ends; who is new, or was
   when the round began, has not run. *)
RoundInv ==
    /\ InRound => wold \cup wnew = Main /\ wold \cap wnew = {}
    /\ ~InRound => wold = {} /\ wnew = {}
    /\ \A n \in New \cup wnew : ~ran[n]

(* The versions of a round go up, and a version to be skipped lies ahead. *)
VersionsInv ==
    /\ InRound => nsv # 0 /\ nsv <= wver
    /\ wpc = "skip" => wold # {} /\ wskip # 0 /\ nsv <= wskip /\ wskip <= wver
    /\ wpc \in {"skip", "skipped"} => wskip <= wver
    /\ skipv # 0 => nsv <= skipv /\ (InRound => wver <= skipv)

(* Every notifier is behind the round or, between rounds, where it ended. *)
BehindInv ==
    /\ InRound => \A n \in Main : ver[n] <= wver /\ (ran[n] => ver[n] <= nsv)
    /\ ~InRound /\ ~failed => \A n \in Main : ran[n] /\ ver[n] = nsv

(* A table view waits at its notifier's version. *)
HandInv == \A n \in Notifiers : hand[n] \in {0, ver[n]}

RoundsInv == RoundInv /\ VersionsInv /\ BehindInv /\ GroupsAreRight /\ VersionsAgree

MeetInv == Types /\ RoundsInv /\ HandInv /\ HandoverAtReadVersion

-----------------------------------------------------------------------------
(* What the worker computes, of Results that are in use *)

(* The notifiers that have run in this round and were not handed over yet. *)
Computed ==
    CASE wpc = "skipped" -> wold
      [] wpc = "ran" -> wold \cup wnew
      [] OTHER -> {}

(* Every collection that exists is kept up to date. *)
WantedInv == ~use.idles => view \subseteq used /\ Mine \subseteq wants

(* The changes a notifier holds are those from its version to the round's. *)
RowsInv ==
    ~use.idles => \A n \in Mine :
        /\ n \in Computed => rows[n] = nsv
        /\ n \notin Computed /\ ran[n] => rows[n] = ver[n]
        /\ pend[n] = IF n \in Computed /\ ran[n] THEN (ver[n] + 1) .. nsv ELSE {}

(* What a block has accumulated is later than what it was told of. *)
ExtraInv ==
    ~use.suppresses /\ ~use.idles =>
        /\ extra = {} /\ asked = {}
        /\ \A n \in Notifiers : quiet[n] = {}
        /\ \A n \in block :
              /\ upto[n] <= ver[n] /\ acc[n] \subseteq (upto[n] + 1) .. ver[n]
              /\ ~ran[n] => upto[n] = 0 /\ acc[n] = {}

-----------------------------------------------------------------------------
(* Nothing is missed *)

UsesTold == ~use.invalidates /\ ~use.idles /\ ~(use.suppresses /\ use.commitsFail)

(* A block that had its initial notification has accumulated everything since,
   and is at most the Realm's own last transaction behind the Realm; then
   there is nothing left to tell it of what came before. *)
ToldOf(n) ==
    upto[n] # 0 => /\ ran[n] /\ Expected(n, ver[n]) \subseteq acc[n]
                   /\ rv <= ver[n] + 1
                   /\ ver[n] < rv => Expected(n, ver[n]) = {}

ToldInv == missed = {} /\ reading /\ \A n \in block : ToldOf(n)

(* A transaction begins when every block was told of everything. *)
WrittenOf(n) == ran[n] /\ ver[n] = latest /\ upto[n] # 0 /\ Expected(n, ver[n]) = {}

WriteInv ==
    /\ pc = "begin" /\ target # 0 => target = latest
    /\ pc \in {"write", "commit"} => rv = latest /\ \A n \in block : WrittenOf(n)

(* The version the next handover takes the notifiers to. *)
NextVersion ==
    CASE wpc \in {"idle", "signal"} -> skipv
      [] wpc = "skip" -> wskip
      [] wpc \in {"skipped", "ran"} -> nsv
      [] wpc = "run" -> wver

(* The next handover skips nothing but what the block is not to be told of. *)
SkipOf(n) ==
    /\ ran[n] /\ (pc # "commit" => ver[n] < latest)
    /\ InRound \/ skipv # 0 \/ pc = "commit"
    /\ (ver[n] + 1) .. NextVersion \subseteq quiet[n]

SkipInv ==
    /\ ~use.suppresses => skip = {}
    /\ pc = "write" => skip = {}
    /\ pc = "commit" => skip \subseteq asked
    /\ \A n \in skip : SkipOf(n)

MissedInv == UsesTold => ToldInv /\ WriteInv /\ SkipInv

IInv ==
    MeetInv /\ WantedInv /\ RowsInv /\ ExtraInv /\ MissedInv

-----------------------------------------------------------------------------
(* Types *)

LEMMA TypesImplyTypeOK == Types => TypeOK
<1> SUFFICES ASSUME Types PROVE TypeOK
  OBVIOUS
<1> USE DEF Types
<1>1. use.versions \in Nat
  BY NotificationsAssumption DEF NumTypes
<1>2. /\ {latest, rv} \subseteq 1..use.versions /\ rv <= latest
      /\ {target, wver, wskip, nsv, pin, skipv} \subseteq 0..latest
      /\ pc \in {"idle", "refresh", "begin", "write", "commit"}
      /\ wpc \in {"idle", "skip", "skipped", "run", "ran", "signal"}
  BY <1>1 DEF NumTypes
<1>3. /\ place \in [Notifiers -> {"none", "new", "main"}]
      /\ \A f \in {ver, rows, hand, give, upto} : f \in [Notifiers -> 0..latest]
      /\ \A f \in {pend, acc, out, quiet} : f \in [Notifiers -> SUBSET (1..latest)]
  BY DEF QueryTypes, BlockTypes
<1>4. /\ block \subseteq Mine /\ results \in (SUBSET Mine) \X (SUBSET Mine) \X (SUBSET Mine)
      /\ skip \subseteq block /\ asked \subseteq block
  BY DEF SetTypes, results
<1> QED BY <1>2, <1>3, <1>4 DEF TypeOK

LEMMA UseTypes ==
    ASSUME use \in Uses
    PROVE  /\ use.observes \subseteq Notifiers /\ use.versions \in Nat \ {0}
           /\ use.invalidates \in BOOLEAN /\ use.suppresses \in BOOLEAN
           /\ use.idles \in BOOLEAN /\ use.commitsFail \in BOOLEAN
BY NotificationsAssumption

LEMMA CommonIn ==
    ASSUME NEW S, S # {}
    PROVE  \E n \in S : Common(S) = ver[n]
<1> DEFINE V == {ver[n] : n \in S}
<1>1. V # {}
  OBVIOUS
<1>2. (CHOOSE v \in V : TRUE) \in V
  BY <1>1
<1> QED BY <1>2 DEF Common

LEMMA InitTypes == Init => Types
<1> SUFFICES ASSUME Init PROVE Types
  OBVIOUS
<1>1. use.versions \in Nat \ {0}
  BY UseTypes DEF Init
<1> USE DEF Init
<1>2. NumTypes
  BY <1>1 DEF NumTypes
<1>3. QueryTypes
  BY DEF QueryTypes, All
<1>4. BlockTypes
  BY DEF BlockTypes, All
<1>5. SetTypes
  BY DEF SetTypes
<1> QED BY <1>2, <1>3, <1>4, <1>5 DEF Types
-----------------------------------------------------------------------------
(* What the main thread delivers *)

Delivery == Notify \/ RefreshEnds \/ BeginEnds \/ RefreshAnew

(* A package of the notifiers in S, of which those in C have their block called
   at the version v they are all at, and those in D, all at version r, hand over
   their table view. *)
Delivered(S, C, D, v, r) ==
    /\ S \subseteq Ready /\ C \subseteq S /\ D \subseteq C
    /\ \A n \in C : ver[n] = v
    /\ \A n \in D : ver[n] = r
    /\ Deliver(S, C, D, v, r)
    /\ UNCHANGED <<block, skip>>

LEMMA ReadyAgree ==
    ASSUME Types, RoundInv, VersionsAgree, NEW S \in SUBSET Ready, S # {}
    PROVE  /\ \A n \in S : ver[n] = Common(S)
           /\ Common(S) \in 0..latest
           /\ S \subseteq Main
<1>1. S \subseteq Main
  BY DEF Ready, Mine, Main, New, RoundInv
<1>2. PICK n \in S : Common(S) = ver[n]
  BY CommonIn
<1>3. \A m \in S : ver[m] = ver[n]
  BY <1>1 DEF VersionsAgree, Ready
<1>4. ver[n] \in 0..latest
  BY <1>1 DEF Types, QueryTypes, Main
<1> QED BY <1>1, <1>2, <1>3, <1>4

LEMMA DeliveryFrame ==
    ASSUME Delivery
    PROVE  /\ UNCHANGED <<latest, owes, pipe, place, alive, ver, ran, rows, pend, quiet>>
           /\ UNCHANGED <<wpc, wver, wskip, wold, wnew, nsv, pin, skipv, failed, opened>>
BY DEF Delivery, Notify, RefreshEnds, BeginEnds, RefreshAnew, Advance, file, wake, worker

LEMMA AvailableDelivered ==
    ASSUME Types, RoundInv, VersionsAgree, NEW inRead, NEW r \in Nat,
           ProcessAvailable(inRead, r)
    PROVE  \/ NothingDelivered
           \/ DeliverError
           \/ \E S, C, D \in SUBSET Ready : \E v \in Nat : Delivered(S, C, D, v, r)
<1> DEFINE S == {n \in Ready : inRead => ver[n] = r}
           D == IF inRead THEN S ELSE {}
<1>1. CASE failed
  BY <1>1 DEF ProcessAvailable
<1>2. CASE ~failed /\ S = {}
  BY <1>2 DEF ProcessAvailable
<1>3. CASE ~failed /\ S # {}
  <2>1. Deliver(S, S, D, Common(S), r) /\ UNCHANGED <<block, skip>>
    BY <1>3 DEF ProcessAvailable
  <2>2. /\ \A n \in S : ver[n] = Common(S)
        /\ Common(S) \in Nat
    BY <1>3, ReadyAgree DEF Types, NumTypes
  <2>3. Delivered(S, S, D, Common(S), r)
    BY <2>1, <2>2 DEF Delivered
  <2> QED BY <2>2, <2>3
<1> QED BY <1>1, <1>2, <1>3

LEMMA ReadyDelivered ==
    ASSUME Types, RoundInv, VersionsAgree, AdvanceToReady
    PROVE  /\ rv' \in 1..latest
           /\ \/ NothingDelivered
              \/ DeliverError
              \/ \E S, C, D \in SUBSET Ready : \E v, r \in Nat : Delivered(S, C, D, v, r)
<1> USE DEF Types, NumTypes
<1>0. rv \in Nat /\ latest \in Nat
  OBVIOUS
<1>1. CASE failed \/ Ready = {}
  BY <1>1 DEF AdvanceToReady
<1>2. CASE ~failed /\ Ready # {}
  <2>1. /\ \A n \in Ready : ver[n] = Common(Ready)
        /\ Common(Ready) \in 0..latest
    BY <1>2, ReadyAgree
  <2>2. CASE Common(Ready) < rv
    <3>1. Delivered(Ready, {}, {}, rv, rv) /\ rv' = rv
      BY <1>2, <2>2 DEF AdvanceToReady, Delivered
    <3> QED BY <3>1
  <2>3. CASE ~(Common(Ready) < rv)
    <3>1. /\ rv' = Common(Ready) /\ Deliver(Ready, Ready, Ready, Common(Ready), Common(Ready))
          /\ UNCHANGED <<block, skip>>
      BY <1>2, <2>3 DEF AdvanceToReady, ReadyVersion
    <3>2. Delivered(Ready, Ready, Ready, Common(Ready), Common(Ready))
      BY <2>1, <3>1 DEF Delivered
    <3>3. rv' \in 1..latest /\ Common(Ready) \in Nat
      BY <2>1, <2>3, <3>1
    <3> QED BY <3>2, <3>3
  <2> QED BY <2>2, <2>3
<1> QED BY <1>1, <1>2

LEMMA AdvanceDelivered ==
    ASSUME Types, RoundInv, VersionsAgree, NEW v \in Nat, NEW reads,
           Advance(v, reads),
           reads /\ target # 0 /\ Packaged # {} => v = Common(Ready)
    PROVE  \/ NothingDelivered
           \/ DeliverError
           \/ \E S, C, D \in SUBSET Ready : \E u, r \in Nat : Delivered(S, C, D, u, r)
<1>1. CASE target = 0 \/ Ready = {}
  BY <1>1 DEF Advance
<1>2. CASE target # 0 /\ Ready # {}
  <2> DEFINE D == IF reads THEN Packaged ELSE {}
  <2>1. /\ \A n \in Ready : ver[n] = Common(Ready)
        /\ Common(Ready) \in Nat
    BY <1>2, ReadyAgree DEF Types, NumTypes
  <2>2. Deliver(Ready, Packaged, D, Common(Ready), v) /\ UNCHANGED <<block, skip>>
    BY <1>2 DEF Advance
  <2>3. Packaged \subseteq Ready
    BY DEF Packaged
  <2>4. \A n \in D : ver[n] = v
    BY <1>2, <2>1, <2>3
  <2>5. Delivered(Ready, Packaged, D, Common(Ready), v)
    BY <2>1, <2>2, <2>3, <2>4 DEF Delivered
  <2> QED BY <2>1, <2>3, <2>5
<1> QED BY <1>1, <1>2

(* Every delivery is nothing, the error, or a package of notifiers at one version. *)
LEMMA Deliveries ==
    ASSUME Types, RoundInv, VersionsAgree, Delivery
    PROVE  /\ rv' \in 1..latest
           /\ \/ NothingDelivered
              \/ DeliverError
              \/ \E S, C, D \in SUBSET Ready : \E v, r \in Nat : Delivered(S, C, D, v, r)
<1>0. /\ rv \in Nat /\ rv \in 1..latest /\ latest \in Nat /\ latest \in 1..latest
      /\ target \in Nat
  BY DEF Types, NumTypes
<1>1. CASE Notify
  <2>1. CASE pc = "write"
    BY <1>0, <1>1, <2>1 DEF Notify
  <2>2. CASE pc = "idle" /\ rv # latest /\ reading
    BY <1>1, <2>2, ReadyDelivered DEF Notify
  <2>3. CASE pc = "idle" /\ ~(rv # latest /\ reading)
    <3>1. ProcessAvailable(reading, rv) /\ rv' = rv
      BY <1>1, <2>3 DEF Notify
    <3> QED BY <1>0, <3>1, AvailableDelivered
  <2> QED BY <1>1, <2>1, <2>2, <2>3 DEF Notify
<1>2. CASE RefreshEnds
  <2> DEFINE v == IF target # 0 /\ Packaged # {} THEN Common(Ready) ELSE latest
  <2>1. Advance(v, TRUE) /\ rv' = v
    BY <1>2 DEF RefreshEnds, Advance
  <2>2. v \in 1..latest
    <3>1. CASE target # 0 /\ Packaged # {}
      <4>1. Ready # {} /\ Common(Ready) >= target
        BY <3>1 DEF Packaged
      <4>2. Common(Ready) \in 0..latest
        BY <4>1, ReadyAgree
      <4> QED BY <1>0, <3>1, <4>1, <4>2
    <3> QED BY <1>0, <3>1
  <2>3. v \in Nat
    BY <1>0, <2>2
  <2> HIDE DEF v
  <2>4. target # 0 /\ Packaged # {} => v = Common(Ready)
    BY DEF v
  <2> QED BY <2>1, <2>2, <2>3, <2>4, AdvanceDelivered
<1>3. CASE BeginEnds
  <2>1. Advance(latest, FALSE) /\ rv' = latest
    BY <1>3 DEF BeginEnds, Advance
  <2> QED BY <1>0, <2>1, AdvanceDelivered
<1>4. CASE RefreshAnew
  <2>1. ProcessAvailable(TRUE, latest) /\ rv' = latest
    BY <1>4 DEF RefreshAnew
  <2> QED BY <1>0, <2>1, AvailableDelivered
<1> QED BY <1>1, <1>2, <1>3, <1>4 DEF Delivery

-----------------------------------------------------------------------------
(* Every step keeps the types *)

LEMMA NextNum ==
    ASSUME Types, RoundInv, VersionsAgree, Next, UNCHANGED use
    PROVE  NumTypes' /\ latest <= latest'
<1> USE DEF Types, NumTypes, file, wake, main, query, told, worker, hist, results
<1>0. /\ use.versions \in Nat /\ latest \in Nat /\ rv \in Nat /\ target \in Nat
      /\ use' = use /\ use.observes \subseteq Notifiers
  BY UseTypes
<1> HIDE DEF Types
<1>t. NumTypes
  BY DEF Types
<1>1. CASE Delivery
  <2>1. rv' \in 1..latest /\ latest' = latest
    BY <1>1, Deliveries, DeliveryFrame
  <2>2. UNCHANGED <<wver, wskip, nsv, pin, skipv, wpc>>
    BY <1>1, DeliveryFrame
  <2>3. /\ target' \in {0, target}
        /\ pc' \in {"idle", "refresh", "begin", "write", "commit"}
        /\ pc' \in {"begin", "write", "commit"} => pc \in {"begin", "write", "commit"}
    BY <1>t, <1>1 DEF Delivery, Notify, RefreshEnds, BeginEnds, RefreshAnew, Advance
  <2> QED BY <1>0, <1>t, <2>1, <2>2, <2>3
<1>2. CASE Collect
  BY <1>0, <1>t, <1>2 DEF Collect
<1>3. CASE SkipRun \/ SkipHandover \/ RunNotifiers \/ Handover \/ SignalRealms
  BY <1>0, <1>t, <1>3 DEF SkipRun, SkipHandover, RunNotifiers, Handover, SignalRealms, SkipTo
<1>4. CASE RefreshBegins \/ BeginTransaction
  BY <1>0, <1>t, <1>4 DEF RefreshBegins, BeginTransaction, Wait
<1>5. CASE CommitTransaction
  BY <1>0, <1>t, <1>5 DEF CommitTransaction, SkipVersion
<1>6. CASE CancelTransaction \/ Invalidate \/ ReadGroup \/ OtherNotifies
  BY <1>0, <1>t, <1>6 DEF CancelTransaction, Invalidate, ReadGroup, OtherNotifies
<1>7. CASE OtherCommits
  BY <1>0, <1>t, <1>7 DEF OtherCommits
<1>8. ASSUME NEW n \in use.observes, SuppressNext(n) \/ RemoveBlock(n) \/ Unregister(n)
      PROVE  NumTypes' /\ latest <= latest'
  BY <1>0, <1>t, <1>8 DEF SuppressNext, RemoveBlock, Unregister
<1>9. ASSUME NEW n \in use.observes, AddBlock(n) \/ EvaluateQuery(n)
      PROVE  NumTypes' /\ latest <= latest'
  <2>1. pin' \in {pin, Pinned} /\ Pinned \in 0..latest
    BY <1>0, <1>t, <1>9 DEF AddBlock, EvaluateQuery, RegisterNotifier, PinVersion, Pinned
  <2>2. UNCHANGED <<latest, rv, pc, target, wpc, wver, wskip, nsv, skipv>>
    BY <1>9 DEF AddBlock, EvaluateQuery
  <2> QED BY <1>0, <1>t, <2>1, <2>2
<1> QED BY <1>1, <1>2, <1>3, <1>4, <1>5, <1>6, <1>7, <1>8, <1>9 DEF Next, Delivery

LEMMA WithType ==
    ASSUME NEW T, NEW f \in [Notifiers -> T], NEW S, NEW x \in T
    PROVE  With(f, S, x) \in [Notifiers -> T]
BY DEF With

LEMMA WidenTypes ==
    ASSUME NEW i \in Nat, NEW j \in Nat, i <= j
    PROVE  /\ \A f \in [Notifiers -> 0..i] : f \in [Notifiers -> 0..j]
           /\ \A f \in [Notifiers -> SUBSET (1..i)] : f \in [Notifiers -> SUBSET (1..j)]
<1>1. 0..i \subseteq 0..j /\ 1..i \subseteq 1..j
  OBVIOUS
<1> QED BY <1>1

LEMMA RunTypes ==
    ASSUME Types, NEW S, NEW v \in 0..latest, Run(S, v)
    PROVE  rows' \in [Notifiers -> 0..latest] /\ pend' \in [Notifiers -> SUBSET (1..latest)]
<1>0. /\ rows \in [Notifiers -> 0..latest] /\ pend \in [Notifiers -> SUBSET (1..latest)]
      /\ latest \in Nat
  BY DEF Types, QueryTypes, NumTypes
<1> DEFINE R == {n \in S : NeedToRun(n, v)}
<1>1. rows' = With(rows, R, v)
  BY DEF Run
<1>2. pend' = [n \in Notifiers |-> IF n \in R /\ ran[n] THEN (rows[n] + 1) .. v ELSE pend[n]]
  BY DEF Run
<1>3. \A n \in Notifiers : (rows[n] + 1) .. v \subseteq 1..latest
  BY <1>0
<1> QED BY <1>0, <1>1, <1>2, <1>3, WithType

LEMMA HandoverTypes ==
    ASSUME Types, NEW S, PrepareHandover(S)
    PROVE  /\ ver' \in [Notifiers -> 0..latest] /\ ran' \in [Notifiers -> BOOLEAN]
           /\ hand' \in [Notifiers -> 0..latest] /\ pend' \in [Notifiers -> SUBSET (1..latest)]
           /\ acc' \in [Notifiers -> SUBSET (1..latest)]
           /\ skip' \subseteq skip
<1>0. /\ ver \in [Notifiers -> 0..latest] /\ ran \in [Notifiers -> BOOLEAN]
      /\ hand \in [Notifiers -> 0..latest] /\ pend \in [Notifiers -> SUBSET (1..latest)]
      /\ acc \in [Notifiers -> SUBSET (1..latest)] /\ nsv \in 0..latest
  BY DEF Types, QueryTypes, BlockTypes, NumTypes
<1>1. ver' = With(ver, S, nsv) /\ ran' = With(ran, S, TRUE) /\ pend' = With(pend, S, {})
  BY DEF PrepareHandover, Remaining
<1>2. PICK H : hand' = With(hand, H, nsv)
  BY DEF PrepareHandover
<1>3. acc' \in [Notifiers -> SUBSET (1..latest)]
  BY <1>0 DEF PrepareHandover, Accumulated
<1>4. skip' \subseteq skip
  BY DEF PrepareHandover
<1>5. {} \in SUBSET (1..latest) /\ TRUE \in BOOLEAN
  OBVIOUS
<1> QED BY <1>0, <1>1, <1>2, <1>3, <1>4, <1>5, WithType

LEMMA DeliveredTypes ==
    ASSUME Types, NEW S \in SUBSET Ready, NEW C, NEW D, NEW v, NEW r,
           Delivered(S, C, D, v, r)
    PROVE  /\ hand' \in [Notifiers -> 0..latest] /\ give' \in [Notifiers -> 0..latest]
           /\ upto' \in [Notifiers -> 0..latest]
           /\ acc' \in [Notifiers -> SUBSET (1..latest)]
           /\ out' \in [Notifiers -> SUBSET (1..latest)]
           /\ view' \subseteq view \cup S /\ used' \subseteq used \cup S /\ wants' \subseteq wants \cup S
<1>0. /\ hand \in [Notifiers -> 0..latest] /\ give \in [Notifiers -> 0..latest]
      /\ upto \in [Notifiers -> 0..latest] /\ ver \in [Notifiers -> 0..latest]
      /\ acc \in [Notifiers -> SUBSET (1..latest)] /\ out \in [Notifiers -> SUBSET (1..latest)]
      /\ 0 \in 0..latest
  BY DEF Types, QueryTypes, BlockTypes, NumTypes
<1>1. hand' = With(hand, S, 0)
  BY DEF Delivered, Deliver
<1>2. give' = [n \in Notifiers |-> IF n \in D THEN 0 ELSE IF n \in S THEN hand[n] ELSE give[n]]
  BY DEF Delivered, Deliver
<1>3. acc' = With(acc, S \cap block, {})
  BY DEF Delivered, Deliver
<1>4. out' = [n \in Notifiers |-> IF n \in C \cap block THEN {}
                                  ELSE IF n \in S \cap block THEN acc[n] ELSE out[n]]
  BY DEF Delivered, Deliver
<1>5. PICK N \in SUBSET C : upto' = With(upto, N, v)
  BY DEF Delivered, Deliver
<1>6. N # {} => v \in 0..latest
  BY <1>0 DEF Delivered, Ready, Mine, Main, New
<1>7. upto' \in [Notifiers -> 0..latest]
  BY <1>0, <1>5, <1>6 DEF With
<1>8. view' \subseteq view \cup S /\ used' \subseteq used \cup S /\ wants' \subseteq wants \cup S
  BY DEF Delivered, Deliver, SetTableView
<1>9. hand' \in [Notifiers -> 0..latest]
  BY <1>0, <1>1, WithType
<1>10. acc' \in [Notifiers -> SUBSET (1..latest)]
  BY <1>0, <1>3 DEF With
<1> QED BY <1>0, <1>2, <1>4, <1>7, <1>8, <1>9, <1>10

LEMMA NextQuery ==
    ASSUME Types, RoundInv, VersionsAgree, Next, UNCHANGED use
    PROVE  QueryTypes'
<1> USE DEF file, wake, main, query, told, worker, hist, results
<1>0. /\ latest \in Nat /\ latest' \in Nat /\ latest <= latest'
      /\ use.observes \subseteq Notifiers /\ use' = use
      /\ rv \in 0..latest /\ 0 \in 0..latest /\ wver \in 0..latest /\ wskip \in 0..latest
  BY UseTypes, NextNum DEF Types, NumTypes
<1>t. QueryTypes
  BY DEF Types
<1>1. CASE Delivery
  <2>1. UNCHANGED <<latest, place, alive, ver, ran, rows, pend, wold, wnew>>
    BY <1>1, DeliveryFrame
  <2>2. hand' \in [Notifiers -> 0..latest]
    <3>1. CASE NothingDelivered \/ DeliverError
      BY <3>1, <1>t DEF NothingDelivered, DeliverError, QueryTypes
    <3>2. ASSUME NEW S \in SUBSET Ready, NEW C, NEW D, NEW v, NEW r, Delivered(S, C, D, v, r)
          PROVE  hand' \in [Notifiers -> 0..latest]
      BY <3>2, DeliveredTypes
    <3> QED BY <1>1, <3>1, <3>2, Deliveries
  <2> QED BY <1>t, <2>1, <2>2 DEF QueryTypes
<1>2. CASE Collect
  BY <1>0, <1>t, <1>2 DEF Collect, QueryTypes, Main, New
<1>3. CASE SkipRun
  <2>1. rows' \in [Notifiers -> 0..latest] /\ pend' \in [Notifiers -> SUBSET (1..latest)]
    BY <1>0, <1>3, RunTypes DEF SkipRun, SkipTo
  <2> QED BY <1>t, <1>3, <2>1 DEF SkipRun, QueryTypes
<1>4. CASE RunNotifiers
  <2>1. rows' \in [Notifiers -> 0..latest] /\ pend' \in [Notifiers -> SUBSET (1..latest)]
    BY <1>0, <1>4, RunTypes DEF RunNotifiers
  <2> QED BY <1>t, <1>4, <2>1 DEF RunNotifiers, QueryTypes
<1>5. CASE SkipHandover
  <2>1. PrepareHandover(wold)
    BY <1>5 DEF SkipHandover
  <2> QED BY <1>t, <1>5, <2>1, HandoverTypes DEF SkipHandover, QueryTypes
<1>6. CASE Handover
  <2>1. PrepareHandover(HandedOver)
    BY <1>6 DEF Handover
  <2>2. place' \in [Notifiers -> {"none", "new", "main"}]
    BY <1>t, <1>6, WithType DEF Handover, QueryTypes
  <2> QED BY <1>t, <1>6, <2>1, <2>2, HandoverTypes DEF Handover, QueryTypes
<1>7. CASE \/ SignalRealms \/ RefreshBegins \/ BeginTransaction \/ CancelTransaction
           \/ Invalidate \/ ReadGroup \/ OtherNotifies
  BY <1>t, <1>7 DEF SignalRealms, RefreshBegins, BeginTransaction, CancelTransaction,
                    Invalidate, ReadGroup, OtherNotifies, Wait, QueryTypes
<1>8. CASE CommitTransaction \/ OtherCommits
  <2>1. UNCHANGED <<place, alive, ver, ran, rows, hand, pend, wold, wnew>>
    BY <1>8 DEF CommitTransaction, OtherCommits
  <2> QED BY <1>0, <1>t, <2>1, WidenTypes DEF QueryTypes
<1>9. ASSUME NEW n \in use.observes, SuppressNext(n) \/ RemoveBlock(n) \/ Unregister(n)
      PROVE  QueryTypes'
  BY <1>t, <1>9 DEF SuppressNext, RemoveBlock, Unregister, QueryTypes
<1>10. ASSUME NEW n \in use.observes, AddBlock(n) \/ EvaluateQuery(n)
       PROVE  QueryTypes'
  <2>1. UNCHANGED <<latest, wold, wnew>>
    BY <1>10 DEF AddBlock, EvaluateQuery
  <2>2. CASE UNCHANGED query
    BY <1>t, <2>1, <2>2 DEF QueryTypes
  <2>3. CASE RegisterNotifier(n)
    BY <1>0, <1>t, <2>1, <2>3 DEF QueryTypes, RegisterNotifier
  <2> QED BY <1>10, <2>2, <2>3 DEF AddBlock, EvaluateQuery
<1> QED BY <1>1, <1>2, <1>3, <1>4, <1>5, <1>6, <1>7, <1>8, <1>9, <1>10 DEF Next, Delivery

LEMMA NextBlocks ==
    ASSUME Types, RoundInv, VersionsAgree, Next, UNCHANGED use
    PROVE  BlockTypes'
<1> USE DEF file, wake, main, query, told, worker, hist, results
<1>0. /\ latest \in Nat /\ latest' \in Nat /\ latest <= latest'
      /\ use.observes \subseteq Notifiers /\ use' = use
      /\ 0 \in 0..latest /\ {} \in SUBSET (1..latest)
  BY UseTypes, NextNum DEF Types, NumTypes
<1>t. BlockTypes
  BY DEF Types
<1>1. CASE Delivery
  <2>1. UNCHANGED <<latest, quiet>>
    BY <1>1, DeliveryFrame
  <2>2. CASE NothingDelivered \/ DeliverError
    BY <2>1, <2>2, <1>t DEF NothingDelivered, DeliverError, BlockTypes
  <2>3. ASSUME NEW S \in SUBSET Ready, NEW C, NEW D, NEW v, NEW r, Delivered(S, C, D, v, r)
        PROVE  BlockTypes'
    BY <1>t, <2>1, <2>3, DeliveredTypes DEF BlockTypes
  <2> QED BY <1>1, <2>2, <2>3, Deliveries
<1>2. CASE SkipHandover
  BY <1>t, <1>2, HandoverTypes DEF SkipHandover, BlockTypes
<1>3. CASE Handover
  BY <1>t, <1>3, HandoverTypes DEF Handover, BlockTypes
<1>4. CASE \/ Collect \/ SkipRun \/ RunNotifiers
           \/ SignalRealms \/ RefreshBegins \/ BeginTransaction \/ CancelTransaction
           \/ Invalidate \/ ReadGroup \/ OtherNotifies
  BY <1>t, <1>4 DEF Collect, SkipRun, RunNotifiers,
                    SignalRealms, RefreshBegins, BeginTransaction, CancelTransaction,
                    Invalidate, ReadGroup, OtherNotifies, Wait, BlockTypes
<1>5. CASE CommitTransaction \/ OtherCommits
  <2>1. UNCHANGED <<give, upto, acc, out>>
    BY <1>5 DEF CommitTransaction, OtherCommits
  <2>2. quiet' \in [Notifiers -> SUBSET (1..latest')]
    <3>1. CASE UNCHANGED quiet
      BY <1>0, <1>t, <3>1, WidenTypes DEF BlockTypes
    <3>2. CASE /\ latest' = latest + 1
               /\ quiet' = [n \in Notifiers |-> IF n \in asked THEN quiet[n] \cup {latest'}
                                                ELSE quiet[n]]
      <4>1. quiet \in [Notifiers -> SUBSET (1..latest')]
        BY <1>0, <1>t, WidenTypes DEF BlockTypes
      <4>2. latest' \in 1..latest'
        BY <1>0, <3>2
      <4> QED BY <3>2, <4>1, <4>2
    <3> QED BY <1>5, <3>1, <3>2 DEF CommitTransaction, OtherCommits
  <2> QED BY <1>0, <1>t, <2>1, <2>2, WidenTypes DEF BlockTypes
<1>6. ASSUME NEW n \in use.observes, SuppressNext(n) \/ Unregister(n)
      PROVE  BlockTypes'
  BY <1>t, <1>6 DEF SuppressNext, Unregister, BlockTypes
<1>7. ASSUME NEW n \in use.observes, RemoveBlock(n)
      PROVE  BlockTypes'
  BY <1>0, <1>t, <1>7, WithType DEF RemoveBlock, BlockTypes
<1>8. ASSUME NEW n \in use.observes, AddBlock(n) \/ EvaluateQuery(n)
      PROVE  BlockTypes'
  <2>1. UNCHANGED latest
    BY <1>8 DEF AddBlock, EvaluateQuery
  <2>2. give' \in [Notifiers -> 0..latest]
    BY <1>0, <1>t, <1>8 DEF AddBlock, EvaluateQuery, RegisterNotifier, BlockTypes
  <2>3. /\ acc' \in {acc, With(acc, {n}, {})} /\ out' \in {out, With(out, {n}, {})}
        /\ upto' \in {upto, With(upto, {n}, 0)} /\ quiet' \in {quiet, With(quiet, {n}, {})}
    BY <1>8 DEF AddBlock, EvaluateQuery
  <2>4. /\ With(acc, {n}, {}) \in [Notifiers -> SUBSET (1..latest)]
        /\ With(out, {n}, {}) \in [Notifiers -> SUBSET (1..latest)]
        /\ With(quiet, {n}, {}) \in [Notifiers -> SUBSET (1..latest)]
        /\ With(upto, {n}, 0) \in [Notifiers -> 0..latest]
    BY <1>0, <1>t, WithType DEF BlockTypes
  <2> QED BY <1>t, <2>1, <2>2, <2>3, <2>4 DEF BlockTypes
<1> QED BY <1>1, <1>2, <1>3, <1>4, <1>5, <1>6, <1>7, <1>8 DEF Next, Delivery

LEMMA NextSets ==
    ASSUME Types, RoundInv, VersionsAgree, Next, UNCHANGED use
    PROVE  SetTypes'
<1> USE DEF file, wake, main, query, told, worker, hist, results
<1>0. use.observes \subseteq Notifiers
  BY UseTypes DEF Types, NumTypes
<1>t. /\ block \subseteq Mine /\ view \subseteq Mine /\ used \subseteq Mine /\ wants \subseteq Mine
      /\ skip \subseteq block /\ asked \subseteq block
      /\ pc \notin {"write", "commit"} => asked = {}
      /\ pc \in {"idle", "refresh", "begin", "write", "commit"}
      /\ place \in [Notifiers -> {"none", "new", "main"}] /\ alive \in [Notifiers -> BOOLEAN]
  BY DEF Types, SetTypes, NumTypes, QueryTypes
<1>1. CASE Delivery
  <2>1. Mine' = Mine
    BY <1>1, DeliveryFrame DEF Mine, Main, New
  <2>2. /\ pc' \notin {"write", "commit"} => asked' = {}
        /\ asked' \in {{}, asked}
        /\ pc \in {"write", "commit"} => NothingDelivered
    <3>1. CASE Notify
      BY <1>t, <3>1 DEF Notify
    <3>2. CASE RefreshEnds \/ BeginEnds \/ RefreshAnew
      BY <1>t, <3>2 DEF RefreshEnds, BeginEnds, RefreshAnew
    <3> QED BY <1>1, <3>1, <3>2 DEF Delivery
  <2>3. CASE NothingDelivered
    BY <1>t, <2>1, <2>2, <2>3 DEF NothingDelivered, SetTypes
  <2>4. CASE DeliverError
    <3>1. CASE pc \notin {"write", "commit"}
      BY <1>t, <2>1, <2>2, <2>4, <3>1 DEF DeliverError, SetTypes
    <3> QED BY <2>2, <2>3, <3>1
  <2>5. ASSUME NEW S \in SUBSET Ready, NEW C, NEW D, NEW v, NEW r, Delivered(S, C, D, v, r)
        PROVE  SetTypes'
    <3>1. /\ view' \subseteq view \cup S /\ used' \subseteq used \cup S
          /\ wants' \subseteq wants \cup S /\ S \subseteq Mine
      BY <2>5, DeliveredTypes DEF Ready
    <3>2. block' = block /\ skip' = skip
      BY <2>5 DEF Delivered
    <3> QED BY <1>t, <2>1, <2>2, <3>1, <3>2 DEF SetTypes
  <2> QED BY <1>1, <2>3, <2>4, <2>5, Deliveries
<1>2. CASE Collect
  <2>1. Mine' = Mine
    BY <1>t, <1>2 DEF Collect, Mine, Main, New, Dead
  <2> QED BY <1>t, <1>2, <2>1 DEF Collect, SetTypes
<1>3. CASE Handover
  <2>1. Mine' = Mine
    BY <1>t, <1>3 DEF Handover, Mine, Main, New, Dead, With
  <2>2. skip' \subseteq skip
    BY <1>3, HandoverTypes DEF Handover
  <2> QED BY <1>t, <1>3, <2>1, <2>2 DEF Handover, SetTypes
<1>4. CASE SkipHandover
  <2>1. skip' \subseteq skip
    BY <1>4, HandoverTypes DEF SkipHandover
  <2> QED BY <1>t, <1>4, <2>1 DEF SkipHandover, SetTypes, Mine, Main, New
<1>5. CASE \/ SkipRun \/ RunNotifiers \/ SignalRealms \/ RefreshBegins \/ BeginTransaction
           \/ CancelTransaction \/ Invalidate \/ ReadGroup \/ OtherNotifies \/ OtherCommits
           \/ CommitTransaction
  <2>1. UNCHANGED <<place, alive, block, view, used, wants, skip>>
    BY <1>5 DEF SkipRun, RunNotifiers, SignalRealms, RefreshBegins, BeginTransaction,
                CancelTransaction, Invalidate, ReadGroup, OtherNotifies, OtherCommits,
                CommitTransaction, Wait
  <2>2. Mine' = Mine
    BY <2>1 DEF Mine, Main, New
  <2>3. asked' \in {{}, asked} /\ (pc' \notin {"write", "commit"} => asked' = {})
    BY <1>t, <1>5 DEF SkipRun, RunNotifiers, SignalRealms, RefreshBegins, BeginTransaction,
                CancelTransaction, Invalidate, ReadGroup, OtherNotifies, OtherCommits,
                CommitTransaction, Wait
  <2> QED BY <1>t, <2>1, <2>2, <2>3 DEF SetTypes
<1>6. ASSUME NEW n \in use.observes, SuppressNext(n) \/ RemoveBlock(n)
      PROVE  SetTypes'
  <2>1. Mine' = Mine
    BY <1>6 DEF SuppressNext, RemoveBlock, Mine, Main, New
  <2> QED BY <1>t, <1>6, <2>1 DEF SuppressNext, RemoveBlock, SetTypes
<1>7. ASSUME NEW n \in use.observes, Unregister(n)
      PROVE  SetTypes'
  <2>1. Mine \ {n} \subseteq Mine'
    BY <1>t, <1>7 DEF Unregister, Mine, Main, New
  <2> QED BY <1>t, <1>7, <2>1 DEF Unregister, SetTypes
<1>8. ASSUME NEW n \in use.observes, AddBlock(n) \/ EvaluateQuery(n)
      PROVE  SetTypes'
  <2>1. Mine' = Mine \cup {n}
    <3>1. CASE place[n] = "none"
      BY <1>0, <1>t, <1>8, <3>1 DEF AddBlock, EvaluateQuery, RegisterNotifier, Mine, Main, New
    <3>2. CASE place[n] # "none"
      BY <1>0, <1>t, <1>8, <3>2 DEF AddBlock, EvaluateQuery, Mine, Main, New, Dead
    <3> QED BY <3>1, <3>2
  <2>2. wants' \subseteq wants \cup {n}
    BY <1>8 DEF AddBlock, EvaluateQuery, RegisterNotifier
  <2> QED BY <1>t, <1>8, <2>1, <2>2 DEF AddBlock, EvaluateQuery, SetTypes
<1> QED BY <1>1, <1>2, <1>3, <1>4, <1>5, <1>6, <1>7, <1>8 DEF Next, Delivery

LEMMA NextTypes ==
    ASSUME Types, RoundInv, VersionsAgree, Next, UNCHANGED use
    PROVE  Types'
BY NextNum, NextQuery, NextBlocks, NextSets DEF Types

-----------------------------------------------------------------------------
(* Every step keeps the rounds in order *)

LEMMA RoundsFrame ==
    ASSUME RoundsInv,
           UNCHANGED <<place, ver, ran, wpc, wver, wskip, wold, wnew, nsv, pin, skipv, failed>>
    PROVE  RoundsInv'
<1> USE DEF RoundsInv, InRound, Main, New
<1>1. Main' = Main /\ New' = New
  OBVIOUS
<1>2. RoundInv' /\ VersionsInv' /\ BehindInv'
  BY <1>1 DEF RoundInv, VersionsInv, BehindInv
<1>3. GroupsAreRight' /\ VersionsAgree'
  BY <1>1 DEF GroupsAreRight, VersionsAgree
<1> QED BY <1>2, <1>3

LEMMA RoundsCollect == ASSUME Types, RoundsInv, Collect PROVE RoundsInv'
<1> DEFINE old   == Main \ Dead
           added == New \ Dead
<1>0. /\ nsv \in Nat /\ latest \in Nat /\ latest # 0 /\ skipv \in Nat /\ skipv <= latest
      /\ nsv <= latest
      /\ ver \in [Notifiers -> 0..latest]
      /\ Main \subseteq Notifiers /\ New \subseteq Notifiers /\ Main \cap New = {}
  BY DEF Types, NumTypes, QueryTypes, Main, New
<1>1. /\ wpc = "idle" /\ pin' = 0
      /\ place' = [n \in Notifiers |-> IF n \in old \cup added THEN "main" ELSE "none"]
      /\ UNCHANGED <<latest, ver, ran>>
  BY DEF Collect, file, main, told, hist
<1>2. Main' = old \cup added /\ New' = {}
  BY <1>0, <1>1 DEF Main, New
<1>3. /\ wold = {} /\ wnew = {} /\ \A n \in New : ~ran[n]
      /\ ~failed => \A n \in Main : ran[n] /\ ver[n] = nsv
      /\ skipv # 0 => nsv <= skipv
      /\ ~failed => (nsv # 0) = (Main # {})
      /\ \A m, n \in {x \in Main : ran[x]} : ver[m] = ver[n]
  BY <1>1 DEF RoundsInv, RoundInv, BehindInv, VersionsInv, GroupsAreRight, VersionsAgree, InRound
<1>4. VersionsAgree'
  BY <1>1, <1>2, <1>3 DEF VersionsAgree
<1>5. CASE old \cup added = {} /\ nsv' = 0 /\ skipv' = 0 /\ wpc' = "signal"
           /\ UNCHANGED <<wver, wskip, wold, wnew, failed>>
  BY <1>1, <1>2, <1>3, <1>4, <1>5
     DEF RoundsInv, RoundInv, BehindInv, VersionsInv, GroupsAreRight, InRound
<1>6. CASE failed' = TRUE /\ nsv' = 0 /\ wpc' = "signal" /\ skipv' \in {0, skipv}
           /\ UNCHANGED <<wver, wskip, wold, wnew>>
  BY <1>0, <1>1, <1>2, <1>3, <1>4, <1>6
     DEF RoundsInv, RoundInv, BehindInv, VersionsInv, GroupsAreRight, InRound
<1>7. CASE /\ old \cup added # {} /\ ~failed /\ failed' = failed
           /\ nsv' = (IF old = {} THEN latest ELSE nsv) /\ wver' = latest
           /\ wskip' = (IF old = {} THEN 0 ELSE skipv) /\ skipv' = 0
           /\ wold' = old /\ wnew' = added
           /\ wpc' = (IF wskip' # 0 THEN "skip" ELSE "run")
  <2> HIDE DEF old, added
  <2>o. old \subseteq Main /\ added \subseteq New
    BY DEF old, added
  <2>1. RoundInv'
    BY <1>1, <1>2, <1>3, <1>7, <2>o DEF RoundInv, InRound
  <2>2. nsv' # 0 /\ nsv' <= wver'
    BY <1>0, <1>3, <1>7, <2>o
  <2>3. wpc' = "skip" => wold' # {} /\ wskip' # 0 /\ nsv' <= wskip' /\ wskip' <= wver'
    BY <1>0, <1>3, <1>7
  <2>4. VersionsInv'
    BY <1>7, <2>2, <2>3 DEF VersionsInv, InRound
  <2>5. BehindInv'
    <3>1. \A n \in Main' : ver'[n] <= wver'
      BY <1>0, <1>1, <1>2, <1>7, <2>o
    <3>2. \A n \in Main' : ran'[n] => n \in old /\ ver'[n] <= nsv'
      BY <1>0, <1>1, <1>2, <1>3, <1>7, <2>o
    <3> QED BY <1>7, <3>1, <3>2 DEF BehindInv, InRound
  <2>6. GroupsAreRight'
    BY <1>1, <1>2, <1>7, <2>2, <2>3 DEF GroupsAreRight
  <2> QED BY <1>4, <2>1, <2>4, <2>5, <2>6 DEF RoundsInv
<1> QED BY <1>5, <1>6, <1>7 DEF Collect

LEMMA RoundsRun == ASSUME Types, RoundsInv, SkipRun \/ RunNotifiers PROVE RoundsInv'
<1>0. /\ nsv \in Nat /\ latest \in Nat /\ skipv \in Nat /\ wskip \in Nat /\ wver \in Nat
      /\ ver \in [Notifiers -> 0..latest] /\ Main \subseteq Notifiers
  BY DEF Types, NumTypes, QueryTypes, Main
<1>1. /\ UNCHANGED <<place, ver, ran, wver, wskip, wold, wnew, pin, skipv, failed>>
      /\ \/ wpc = "skip" /\ wpc' = "skipped" /\ nsv' = wskip
         \/ wpc = "run" /\ wpc' = "ran" /\ nsv' = wver
  BY DEF SkipRun, RunNotifiers, SkipTo
<1>2. Main' = Main /\ New' = New
  BY <1>1 DEF Main, New
<1>3. InRound /\ InRound'
  BY <1>1 DEF InRound
<1>4. RoundInv'
  BY <1>1, <1>2, <1>3 DEF RoundsInv, RoundInv
<1>5. nsv <= nsv' /\ nsv' # 0 /\ nsv' <= wver'
  BY <1>0, <1>1, <1>3 DEF RoundsInv, VersionsInv
<1>6. VersionsInv'
  BY <1>0, <1>1, <1>3, <1>5 DEF RoundsInv, VersionsInv
<1>7. BehindInv'
  <2>1. \A n \in Main : ver[n] <= wver /\ (ran[n] => ver[n] <= nsv) /\ ver[n] \in Nat
    BY <1>0, <1>3 DEF RoundsInv, BehindInv
  <2>2. nsv' \in Nat
    BY <1>0, <1>1
  <2>3. \A n \in Main' : ver'[n] <= wver' /\ (ran'[n] => ver'[n] <= nsv')
    BY <1>0, <1>1, <1>2, <1>5, <2>1, <2>2
  <2> QED BY <1>3, <2>3 DEF BehindInv
<1>8. GroupsAreRight'
  <2>1. wold \cup wnew = Main /\ nsv # 0
    BY <1>3 DEF RoundsInv, RoundInv, VersionsInv
  <2>2. (nsv # 0) = (Main # {}) \/ failed
    BY DEF RoundsInv, GroupsAreRight
  <2> QED BY <1>1, <1>2, <1>5, <2>1, <2>2 DEF RoundsInv, GroupsAreRight
<1>9. VersionsAgree'
  BY <1>1, <1>2 DEF RoundsInv, VersionsAgree
<1> QED BY <1>4, <1>6, <1>7, <1>8, <1>9 DEF RoundsInv

LEMMA RoundsSkipHandover == ASSUME Types, RoundsInv, SkipHandover PROVE RoundsInv'
<1>0. /\ nsv \in Nat /\ latest \in Nat /\ skipv \in Nat /\ wskip \in Nat /\ wver \in Nat
      /\ ver \in [Notifiers -> 0..latest] /\ Main \subseteq Notifiers /\ New \subseteq Notifiers
      /\ wold \subseteq Notifiers /\ wnew \subseteq Notifiers /\ Main \cap New = {}
  BY DEF Types, NumTypes, QueryTypes, Main, New
<1>1. /\ UNCHANGED <<place, wver, wskip, wold, wnew, nsv, pin, skipv, failed>>
      /\ wpc = "skipped" /\ wpc' = "run"
      /\ ver' = With(ver, wold, nsv) /\ ran' = With(ran, wold, TRUE)
  BY DEF SkipHandover, PrepareHandover
<1>2. Main' = Main /\ New' = New /\ InRound /\ InRound'
  BY <1>1 DEF Main, New, InRound
<1>3. wold \cup wnew = Main /\ nsv # 0 /\ nsv <= wver
  BY <1>2 DEF RoundsInv, RoundInv, VersionsInv
<1>a. \A n \in Notifiers : /\ n \in wold => ver'[n] = nsv /\ ran'[n]
                           /\ n \notin wold => ver'[n] = ver[n] /\ (ran'[n] = ran[n])
  BY <1>1 DEF With
<1>5. RoundInv'
  BY <1>0, <1>1, <1>2, <1>3, <1>a DEF RoundsInv, RoundInv
<1>6. VersionsInv'
  BY <1>1, <1>2 DEF RoundsInv, VersionsInv
<1>7. BehindInv'
  <2>1. \A n \in Main : ver[n] <= wver /\ (ran[n] => ver[n] <= nsv)
    BY <1>2 DEF RoundsInv, BehindInv
  <2>2. \A n \in Main' : ver'[n] <= wver' /\ (ran'[n] => ver'[n] <= nsv')
    <3> TAKE n \in Main'
    <3>1. CASE n \in wold
      <4>1. ver'[n] = nsv /\ wver' = wver /\ nsv' = nsv
        BY <1>0, <1>1, <1>a, <3>1
      <4> QED BY <1>0, <1>3, <4>1
    <3>2. CASE n \notin wold
      BY <1>0, <1>1, <1>2, <1>a, <2>1, <3>2
    <3> QED BY <3>1, <3>2
  <2> QED BY <1>2, <2>2 DEF BehindInv
<1>8. GroupsAreRight'
  <2>1. \A n \in New : ver'[n] = ver[n]
    BY <1>0, <1>3, <1>a
  <2> QED BY <1>1, <1>2, <1>3, <2>1 DEF RoundsInv, GroupsAreRight
<1>9. VersionsAgree'
  <2>1. \A n \in Main : ran'[n] => ver'[n] = nsv
    BY <1>0, <1>3, <1>a, <1>2 DEF RoundsInv, RoundInv
  <2> QED BY <1>2, <2>1 DEF VersionsAgree
<1> QED BY <1>5, <1>6, <1>7, <1>8, <1>9 DEF RoundsInv

LEMMA RoundsHandover == ASSUME Types, RoundsInv, Handover PROVE RoundsInv'
<1>0. /\ nsv \in Nat /\ skipv \in Nat /\ wver \in Nat /\ ver \in [Notifiers -> 0..latest]
      /\ place \in [Notifiers -> {"none", "new", "main"}] /\ ran \in [Notifiers -> BOOLEAN]
      /\ Main \subseteq Notifiers /\ New \subseteq Notifiers /\ Main \cap New = {}
  BY DEF Types, NumTypes, QueryTypes, Main, New
<1>1. /\ wpc = "ran" /\ wpc' = "signal" /\ wold' = {} /\ wnew' = {}
      /\ ver' = With(ver, wold \cup wnew, nsv) /\ ran' = With(ran, wold \cup wnew, TRUE)
      /\ place' = With(place, Dead, "none")
      /\ nsv' = (IF Main \subseteq Dead THEN 0 ELSE nsv)
      /\ skipv' = (IF Main \subseteq Dead THEN 0 ELSE skipv)
      /\ pin' = (IF New \subseteq Dead THEN 0 ELSE pin) /\ failed' = failed
  BY DEF Handover, PrepareHandover, HandedOver
<1>2. Main' = Main \ Dead /\ New' = New \ Dead /\ InRound /\ ~InRound'
  BY <1>0, <1>1 DEF Main, New, InRound, With
<1>3. wold \cup wnew = Main /\ nsv # 0
  BY <1>2 DEF RoundsInv, RoundInv, VersionsInv
<1>a. \A n \in Notifiers : /\ n \in Main => ver'[n] = nsv /\ ran'[n]
                           /\ n \notin Main => ver'[n] = ver[n] /\ (ran'[n] = ran[n])
  BY <1>1, <1>3 DEF With
<1>5. RoundInv'
  BY <1>0, <1>1, <1>2, <1>a DEF RoundsInv, RoundInv
<1>6. VersionsInv'
  <2>1. skipv # 0 => nsv <= skipv
    BY DEF RoundsInv, VersionsInv
  <2>2. skipv' # 0 => nsv' <= skipv'
    BY <1>0, <1>1, <2>1
  <2> QED BY <1>1, <1>2, <2>2 DEF VersionsInv
<1>7. BehindInv'
  BY <1>0, <1>1, <1>2, <1>a DEF BehindInv
<1>8. GroupsAreRight'
  <2>1. ~failed => /\ (pin # 0) = (New # {})
                   /\ \A n \in New : pin <= ver[n]
    BY DEF RoundsInv, GroupsAreRight
  <2>2. ~failed' => (nsv' # 0) = (Main' # {})
    BY <1>1, <1>2, <1>3
  <2>3. ~failed' => (pin' # 0) = (New' # {})
    BY <1>1, <1>2, <2>1
  <2>4. ~failed' => \A n \in New' : pin' <= ver'[n]
    BY <1>0, <1>1, <1>2, <1>a, <2>1
  <2> QED BY <1>1, <2>2, <2>3, <2>4 DEF GroupsAreRight
<1>9. VersionsAgree'
  BY <1>0, <1>2, <1>a DEF VersionsAgree
<1> QED BY <1>5, <1>6, <1>7, <1>8, <1>9 DEF RoundsInv

LEMMA RoundsSignal == ASSUME RoundsInv, SignalRealms PROVE RoundsInv'
<1>1. /\ wpc = "signal" /\ wpc' = "idle"
      /\ UNCHANGED <<place, ver, ran, wver, wskip, wold, wnew, nsv, pin, skipv, failed>>
  BY DEF SignalRealms, query
<1>2. Main' = Main /\ New' = New /\ ~InRound /\ ~InRound'
  BY <1>1 DEF Main, New, InRound
<1>3. RoundInv' /\ VersionsInv' /\ BehindInv'
  BY <1>1, <1>2 DEF RoundsInv, RoundInv, VersionsInv, BehindInv
<1>4. GroupsAreRight' /\ VersionsAgree'
  BY <1>1, <1>2 DEF RoundsInv, GroupsAreRight, VersionsAgree
<1> QED BY <1>3, <1>4 DEF RoundsInv

LEMMA RoundsCommit == ASSUME Types, RoundsInv, CommitTransaction PROVE RoundsInv'
<1>0. /\ nsv \in Nat /\ nsv <= latest /\ wver \in Nat /\ wver <= latest /\ latest \in Nat
  BY DEF Types, NumTypes
<1>1. /\ skipv' \in {skipv, latest + 1}
      /\ UNCHANGED <<place, ver, ran, wpc, wver, wskip, wold, wnew, nsv, pin, failed>>
  BY DEF CommitTransaction, SkipVersion, query
<1>2. Main' = Main /\ New' = New /\ InRound' = InRound
  BY <1>1 DEF Main, New, InRound
<1>3. RoundInv' /\ BehindInv'
  BY <1>1, <1>2 DEF RoundsInv, RoundInv, BehindInv
<1>4. GroupsAreRight' /\ VersionsAgree'
  BY <1>1, <1>2 DEF RoundsInv, GroupsAreRight, VersionsAgree
<1>5. VersionsInv'
  <2>1. CASE skipv' = skipv
    BY <1>1, <1>2, <2>1 DEF RoundsInv, VersionsInv
  <2>2. CASE skipv' = latest + 1
    <3>1. nsv' <= skipv' /\ wver' <= skipv'
      BY <1>0, <1>1, <2>2
    <3> QED BY <1>1, <1>2, <3>1 DEF RoundsInv, VersionsInv
  <2> QED BY <1>1, <2>1, <2>2
<1> QED BY <1>3, <1>4, <1>5 DEF RoundsInv

LEMMA RoundsRegister ==
    ASSUME Types, RoundsInv, NEW n \in Notifiers, place[n] = "none", RegisterNotifier(n),
           UNCHANGED <<wpc, wver, wskip, wold, wnew, nsv, skipv>>
    PROVE  RoundsInv'
<1>0. /\ pin \in Nat /\ rv \in Nat /\ rv # 0 /\ ver \in [Notifiers -> 0..latest]
      /\ place \in [Notifiers -> {"none", "new", "main"}] /\ ran \in [Notifiers -> BOOLEAN]
      /\ Main \subseteq Notifiers /\ New \subseteq Notifiers /\ Main \cap New = {}
      /\ wold \subseteq Notifiers /\ wnew \subseteq Notifiers /\ latest \in Nat
  BY DEF Types, NumTypes, QueryTypes, Main, New
<1>1. /\ place' = [place EXCEPT ![n] = "new"] /\ ver' = [ver EXCEPT ![n] = rv]
      /\ ran' = [ran EXCEPT ![n] = FALSE] /\ PinVersion
  BY DEF RegisterNotifier
<1>2. Main' = Main /\ New' = New \cup {n} /\ n \notin Main /\ n \notin New /\ InRound' = InRound
  BY <1>0, <1>1 DEF Main, New, InRound
<1>3. \A m \in Notifiers : m # n => ver'[m] = ver[m] /\ (ran'[m] = ran[m])
  BY <1>0, <1>1
<1>4. ver'[n] = rv /\ ~ran'[n]
  BY <1>0, <1>1
<1>5. RoundInv'
  <2>1. wnew \subseteq Main
    BY DEF RoundsInv, RoundInv
  <2> QED BY <1>0, <1>2, <1>3, <1>4, <2>1 DEF RoundsInv, RoundInv
<1>6. VersionsInv'
  BY <1>2 DEF RoundsInv, VersionsInv
<1>7. failed => failed'
  BY <1>1 DEF PinVersion
<1>8. BehindInv'
  <2>1. \A m \in Main : ver'[m] = ver[m] /\ (ran'[m] = ran[m])
    BY <1>0, <1>2, <1>3
  <2> QED BY <1>2, <1>7, <2>1 DEF RoundsInv, BehindInv
<1>9. VersionsAgree'
  <2>1. \A m \in Main : ver'[m] = ver[m] /\ (ran'[m] = ran[m])
    BY <1>0, <1>2, <1>3
  <2> QED BY <1>2, <2>1 DEF RoundsInv, VersionsAgree
<1>10. GroupsAreRight'
  <2>1. CASE failed'
    BY <2>1 DEF RoundsInv, GroupsAreRight
  <2>2. CASE ~failed'
    <3>1. ~failed /\ pin' = Pinned
      BY <1>1, <2>2 DEF PinVersion
    <3>2. /\ (nsv # 0) = (Main # {}) /\ (pin # 0) = (New # {})
          /\ \A m \in New : pin <= ver[m]
      BY <3>1 DEF RoundsInv, GroupsAreRight
    <3>3. /\ pin' \in Nat /\ pin' # 0 /\ pin' <= rv /\ (New # {} => pin' <= pin)
      BY <1>0, <3>1, <3>2 DEF Pinned
    <3>4. \A m \in New' : pin' <= ver'[m]
      BY <1>0, <1>2, <1>3, <1>4, <3>2, <3>3
    <3>5. (nsv' # 0) = (Main' # {}) /\ (pin' # 0) = (New' # {})
      BY <1>2, <3>2, <3>3
    <3> QED BY <3>4, <3>5 DEF RoundsInv, GroupsAreRight
  <2> QED BY <2>1, <2>2
<1> QED BY <1>5, <1>6, <1>8, <1>9, <1>10 DEF RoundsInv
LEMMA NextRounds ==
    ASSUME Types, RoundsInv, Next, UNCHANGED use
    PROVE  RoundsInv'
<1>0. use.observes \subseteq Notifiers
  BY UseTypes DEF Types, NumTypes
<1>1. CASE Delivery
  BY <1>1, DeliveryFrame, RoundsFrame
<1>2. CASE \/ RefreshBegins \/ BeginTransaction \/ CancelTransaction \/ Invalidate
           \/ ReadGroup \/ OtherNotifies \/ OtherCommits
  <2>1. UNCHANGED <<place, ver, ran, wpc, wver, wskip, wold, wnew, nsv, pin, skipv, failed>>
    BY <1>2 DEF RefreshBegins, BeginTransaction, CancelTransaction, Invalidate, ReadGroup,
                OtherNotifies, OtherCommits, Wait, query, worker
  <2> QED BY <2>1, RoundsFrame
<1>3. ASSUME NEW n \in use.observes, SuppressNext(n) \/ RemoveBlock(n) \/ Unregister(n)
      PROVE  RoundsInv'
  <2>1. UNCHANGED <<place, ver, ran, wpc, wver, wskip, wold, wnew, nsv, pin, skipv, failed>>
    BY <1>3 DEF SuppressNext, RemoveBlock, Unregister, query, worker
  <2> QED BY <2>1, RoundsFrame
<1>4. ASSUME NEW n \in use.observes, AddBlock(n) \/ EvaluateQuery(n)
      PROVE  RoundsInv'
  <2>1. UNCHANGED <<wpc, wver, wskip, wold, wnew, nsv, skipv>>
    BY <1>4 DEF AddBlock, EvaluateQuery
  <2>2. CASE place[n] = "none"
    BY <1>0, <1>4, <2>1, <2>2, RoundsRegister DEF AddBlock, EvaluateQuery
  <2>3. CASE place[n] # "none"
    BY <1>4, <2>1, <2>3, RoundsFrame DEF AddBlock, EvaluateQuery, query
  <2> QED BY <2>2, <2>3
<1> QED BY <1>1, <1>2, <1>3, <1>4, RoundsCollect, RoundsRun, RoundsSkipHandover,
           RoundsHandover, RoundsSignal, RoundsCommit DEF Next, Delivery

(* Table views are handed over at the version the Realm reads. *)
LEMMA NextHand ==
    ASSUME Types, RoundsInv, HandInv, HandoverAtReadVersion, Next, UNCHANGED use
    PROVE  HandInv' /\ HandoverAtReadVersion'
<1> USE DEF HandoverAtReadVersion
<1>0. /\ use.observes \subseteq Notifiers
      /\ ver \in [Notifiers -> 0..latest] /\ hand \in [Notifiers -> 0..latest]
      /\ wold \subseteq Notifiers /\ wnew \subseteq Notifiers
  BY UseTypes DEF Types, NumTypes, QueryTypes
<1>1. CASE Delivery
  <2>1. ver' = ver
    BY <1>1, DeliveryFrame
  <2>2. CASE NothingDelivered \/ DeliverError
    BY <2>1, <2>2 DEF NothingDelivered, DeliverError, HandInv
  <2>3. ASSUME NEW S \in SUBSET Ready, NEW C, NEW D, NEW v, NEW r, Delivered(S, C, D, v, r)
        PROVE  HandInv' /\ ~fault'
    <3>1. hand' = With(hand, S, 0) /\ fault' = (fault \/ \E n \in D : hand[n] \notin {0, r})
      BY <2>3 DEF Delivered, Deliver
    <3>2. HandInv'
      BY <2>1, <3>1 DEF HandInv, With
    <3>3. \A n \in D : n \in Notifiers /\ ver[n] = r
      BY <2>3 DEF Delivered, Ready, Mine, Main, New
    <3> QED BY <3>1, <3>2, <3>3 DEF HandInv
  <2> QED BY <1>1, <2>2, <2>3, Deliveries DEF RoundsInv
<1>2. ASSUME NEW S, PrepareHandover(S), fault' = fault
      PROVE  HandInv' /\ ~fault'
  BY <1>0, <1>2 DEF PrepareHandover, With, HandInv
<1>3. CASE SkipHandover \/ Handover
  BY <1>2, <1>3 DEF SkipHandover, Handover, hist
<1>4. CASE \/ Collect \/ SkipRun \/ RunNotifiers \/ SignalRealms \/ RefreshBegins
           \/ BeginTransaction \/ CancelTransaction \/ Invalidate \/ ReadGroup
           \/ OtherNotifies \/ OtherCommits \/ CommitTransaction
  <2>1. UNCHANGED <<ver, hand, fault>>
    BY <1>4 DEF Collect, SkipRun, RunNotifiers, SignalRealms, RefreshBegins, BeginTransaction,
                CancelTransaction, Invalidate, ReadGroup, OtherNotifies, OtherCommits,
                CommitTransaction, Wait, query, hist
  <2> QED BY <2>1 DEF HandInv
<1>5. ASSUME NEW n \in use.observes, SuppressNext(n) \/ RemoveBlock(n) \/ Unregister(n)
      PROVE  HandInv' /\ ~fault'
  BY <1>5 DEF SuppressNext, RemoveBlock, Unregister, query, hist, HandInv
<1>6. ASSUME NEW n \in use.observes, AddBlock(n) \/ EvaluateQuery(n)
      PROVE  HandInv' /\ ~fault'
  <2>1. fault' = fault
    BY <1>6 DEF AddBlock, EvaluateQuery
  <2>2. CASE RegisterNotifier(n)
    BY <1>0, <2>1, <2>2 DEF RegisterNotifier, HandInv
  <2>3. CASE UNCHANGED query
    BY <2>1, <2>3 DEF query, HandInv
  <2> QED BY <1>6, <2>2, <2>3 DEF AddBlock, EvaluateQuery
<1> QED BY <1>1, <1>3, <1>4, <1>5, <1>6 DEF Next, Delivery

LEMMA InitMeet == Init => MeetInv
<1> SUFFICES ASSUME Init PROVE MeetInv
  OBVIOUS
<1>1. Types
  BY InitTypes
<1>2. Main = {} /\ New = {} /\ ~InRound
  BY DEF Init, Main, New, InRound, All
<1>3. RoundsInv
  BY <1>2 DEF Init, RoundsInv, RoundInv, VersionsInv, BehindInv, GroupsAreRight, VersionsAgree
<1>4. HandInv /\ HandoverAtReadVersion
  BY DEF Init, HandInv, HandoverAtReadVersion, All
<1> QED BY <1>1, <1>3, <1>4 DEF MeetInv

LEMMA StepMeet == ASSUME MeetInv, [Next /\ UNCHANGED use]_<<vars, use>> PROVE MeetInv'
<1>1. CASE Next /\ UNCHANGED use
  BY <1>1, NextTypes, NextRounds, NextHand DEF MeetInv, RoundsInv
<1>2. CASE UNCHANGED <<vars, use>>
  <2> USE <1>2 DEF vars, file, wake, main, query, told, worker, hist, results, MeetInv
  <2>1. RoundsInv'
    BY RoundsFrame
  <2>2. NumTypes' /\ QueryTypes'
    BY DEF Types, NumTypes, QueryTypes
  <2>3. BlockTypes' /\ SetTypes'
    BY DEF Types, BlockTypes, SetTypes, Mine, Main, New
  <2> QED BY <2>1, <2>2, <2>3 DEF HandInv, HandoverAtReadVersion, Types
<1> QED BY <1>1, <1>2

LEMMA AlwaysMeet == Spec => []MeetInv
BY InitMeet, StepMeet, PTL DEF Spec

(* Every version of the Realm, the worker and the blocks is one of the file, blocks
   belong to collections that exist, and requests not to be notified to blocks. *)
THEOREM TypesOK == Spec => []TypeOK
<1>1. MeetInv => TypeOK
  BY TypesImplyTypeOK DEF MeetInv
<1> QED BY <1>1, AlwaysMeet, PTL

(* Main thread and worker never meet at different versions: the assertions of
   run_async_notifiers and clean_up_dead_notifiers hold, a package is of one
   version, and a table view is imported at its own. *)
THEOREM MeetAtOneVersion == Spec => []VersionsMeet
<1>1. MeetInv => VersionsMeet
  BY DEF MeetInv, RoundsInv, VersionsMeet
<1> QED BY <1>1, AlwaysMeet, PTL

-----------------------------------------------------------------------------
(* What the worker computes *)

LEMMA MineRegistered ==
    ASSUME Types, NEW n \in Notifiers, place[n] = "none", RegisterNotifier(n)
    PROVE  Mine' = Mine \cup {n} /\ n \notin Mine
BY DEF RegisterNotifier, Mine, Main, New, Types, QueryTypes

LEMMA MineAdded ==
    ASSUME Types, NEW n \in Notifiers, AddBlock(n) \/ EvaluateQuery(n), place[n] # "none"
    PROVE  Mine' = Mine /\ n \in Mine
<1>1. n \in Mine
  BY DEF AddBlock, EvaluateQuery, Dead, Mine, Main, New, Types, QueryTypes
<1>2. UNCHANGED <<place, alive>>
  BY DEF AddBlock, EvaluateQuery, query
<1> QED BY <1>1, <1>2 DEF Mine, Main, New

LEMMA MineCleanedUp ==
    ASSUME Types, Collect \/ Handover
    PROVE  Mine' = Mine
<1>1. /\ place \in [Notifiers -> {"none", "new", "main"}] /\ alive' = alive
  BY DEF Types, QueryTypes, Collect, Handover
<1>2. CASE Collect
  BY <1>1, <1>2 DEF Collect, Mine, Main, New, Dead
<1>3. CASE Handover
  BY <1>1, <1>3 DEF Handover, Mine, Main, New, Dead, With
<1> QED BY <1>2, <1>3

LEMMA MineFrame == ASSUME UNCHANGED <<place, alive>> PROVE Mine' = Mine
BY DEF Mine, Main, New

(* The steps of the main thread and of other processes that neither deliver nor
   register nor destroy a collection. *)
PlainStep ==
    \/ RefreshBegins \/ BeginTransaction \/ CancelTransaction \/ Invalidate \/ ReadGroup
    \/ OtherNotifies \/ OtherCommits \/ CommitTransaction
    \/ \E n \in use.observes : SuppressNext(n) \/ RemoveBlock(n)

LEMMA PlainFrame ==
    ASSUME PlainStep
    PROVE  /\ UNCHANGED <<place, alive, ver, ran, rows, pend, fresh, hand>>
           /\ UNCHANGED <<give, view, used, wants, wpc, wver, wskip, wold, wnew, nsv>>
           /\ UNCHANGED <<pin, failed, missed, extra, fault>>
<1> USE DEF query, told, worker, hist, results
<1>1. CASE RefreshBegins \/ BeginTransaction
  BY <1>1 DEF RefreshBegins, BeginTransaction, Wait
<1>2. CASE \/ CancelTransaction \/ Invalidate \/ ReadGroup \/ OtherNotifies \/ OtherCommits
           \/ CommitTransaction
  BY <1>2 DEF CancelTransaction, Invalidate, ReadGroup, OtherNotifies, OtherCommits,
              CommitTransaction
<1>3. ASSUME NEW n \in use.observes, SuppressNext(n) \/ RemoveBlock(n)
      PROVE  /\ UNCHANGED <<place, alive, ver, ran, rows, pend, fresh, hand>>
             /\ UNCHANGED <<give, view, used, wants, wpc, wver, wskip, wold, wnew, nsv>>
             /\ UNCHANGED <<pin, failed, missed, extra, fault>>
  BY <1>3 DEF SuppressNext, RemoveBlock
<1> QED BY <1>1, <1>2, <1>3 DEF PlainStep

LEMMA Steps ==
    ASSUME Next
    PROVE  \/ Delivery \/ PlainStep \/ Collect \/ SkipRun \/ RunNotifiers \/ SkipHandover \/ Handover
           \/ SignalRealms
           \/ \E n \in use.observes : AddBlock(n) \/ EvaluateQuery(n) \/ Unregister(n)
BY DEF Next, Delivery, PlainStep

LEMMA NextWanted ==
    ASSUME Types, RoundsInv, WantedInv, Next, UNCHANGED use
    PROVE  WantedInv'
<1> SUFFICES ASSUME ~use.idles PROVE view' \subseteq used' /\ Mine' \subseteq wants'
  BY DEF WantedInv
<1>0. view \subseteq used /\ Mine \subseteq wants /\ use.observes \subseteq Notifiers
  BY UseTypes DEF WantedInv, Types, NumTypes
<1>1. CASE Delivery
  <2>1. Mine' = Mine
    BY <1>1, DeliveryFrame, MineFrame
  <2>2. CASE NothingDelivered \/ DeliverError
    BY <1>0, <2>1, <2>2 DEF NothingDelivered, DeliverError, results
  <2>3. ASSUME NEW S, NEW C, NEW D, NEW v, NEW r, Delivered(S, C, D, v, r)
        PROVE  view' \subseteq used' /\ Mine' \subseteq wants'
    <3>1. PICK V : SetTableView(V)
      BY <2>3 DEF Delivered, Deliver
    <3> QED BY <1>0, <2>1, <3>1 DEF SetTableView
  <2> QED BY <1>1, <2>2, <2>3, Deliveries DEF RoundsInv
<1>2. CASE PlainStep
  BY <1>0, <1>2, PlainFrame, MineFrame
<1>3. CASE Collect \/ Handover
  <2>1. UNCHANGED <<view, used, wants>>
    BY <1>3 DEF Collect, Handover, told, results
  <2> QED BY <1>0, <1>3, <2>1, MineCleanedUp
<1>4. CASE SkipRun \/ RunNotifiers \/ SkipHandover \/ SignalRealms
  <2>1. UNCHANGED <<view, used, wants, place, alive>>
    BY <1>4 DEF SkipRun, RunNotifiers, SkipHandover, SignalRealms, told, query, results
  <2> QED BY <1>0, <2>1, MineFrame
<1>5. ASSUME NEW n \in use.observes, AddBlock(n) \/ EvaluateQuery(n)
      PROVE  view' \subseteq used' /\ Mine' \subseteq wants'
  <2>1. view' \subseteq used'
    BY <1>0, <1>5 DEF AddBlock, EvaluateQuery
  <2>2. CASE place[n] = "none"
    <3>1. RegisterNotifier(n)
      BY <1>5, <2>2 DEF AddBlock, EvaluateQuery
    <3> QED BY <1>0, <2>1, <2>2, <3>1, MineRegistered DEF RegisterNotifier
  <2>3. CASE place[n] # "none"
    BY <1>0, <1>5, <2>1, <2>3, MineAdded DEF AddBlock, EvaluateQuery
  <2> QED BY <2>2, <2>3
<1>6. ASSUME NEW n \in use.observes, Unregister(n)
      PROVE  view' \subseteq used' /\ Mine' \subseteq wants'
  <2>1. Mine' \subseteq Mine \ {n}
    BY <1>0, <1>6 DEF Unregister, Mine, Main, New, Types, QueryTypes
  <2> QED BY <1>0, <1>6, <2>1 DEF Unregister
<1> QED BY <1>1, <1>2, <1>3, <1>4, <1>5, <1>6, Steps

LEMMA RowsFrame ==
    ASSUME RowsInv, UNCHANGED use,
           UNCHANGED <<ver, ran, rows, pend, wpc, wold, wnew, nsv>>,
           Mine' \subseteq Mine
    PROVE  RowsInv'
<1>1. Computed' = Computed
  BY DEF Computed
<1> QED BY <1>1 DEF RowsInv

(* The state of one notifier. *)
RowsOf(n) ==
    /\ n \in Computed => rows[n] = nsv
    /\ n \notin Computed /\ ran[n] => rows[n] = ver[n]
    /\ pend[n] = IF n \in Computed /\ ran[n] THEN (ver[n] + 1) .. nsv ELSE {}

LEMMA RowsRun ==
    ASSUME Types, RoundsInv, WantedInv, RowsInv, ~use.idles, SkipRun \/ RunNotifiers,
           NEW n \in Mine
    PROVE  RowsOf(n)'
<1>0. /\ n \in Notifiers /\ alive[n] /\ n \in wants /\ ver[n] \in Nat /\ rows[n] \in Nat
      /\ rows \in [Notifiers -> 0..latest] /\ pend \in [Notifiers -> SUBSET (1..latest)]
  BY DEF Mine, Main, New, WantedInv, Types, NumTypes, QueryTypes
<1>1. PICK S, v :
        /\ Run(S, v) /\ nsv' = v /\ v \in Nat
        /\ \/ wpc = "skip" /\ wpc' = "skipped" /\ S = wold
           \/ wpc = "run" /\ wpc' = "ran" /\ S = wold \cup wnew
  BY DEF SkipRun, RunNotifiers, SkipTo, Types, NumTypes
<1>2. UNCHANGED <<wold, wnew, ver, ran>>
  BY DEF SkipRun, RunNotifiers
<1>3. Computed = {} /\ Computed' = S
  BY <1>1, <1>2 DEF Computed
<1>4. (ran[n] => rows[n] = ver[n]) /\ pend[n] = {}
  BY <1>3 DEF RowsInv
<1>5. /\ rows'[n] = IF n \in S /\ NeedToRun(n, v) THEN v ELSE rows[n]
      /\ pend'[n] = IF n \in S /\ NeedToRun(n, v) /\ ran[n] THEN (rows[n] + 1) .. v ELSE pend[n]
  BY <1>0, <1>1 DEF Run, With
<1>6. NeedToRun(n, v) <=> ~(ran[n] /\ rows[n] = v)
  BY <1>0 DEF NeedToRun
<1>7. CASE n \notin S
  BY <1>2, <1>3, <1>4, <1>5, <1>7 DEF RowsOf
<1>8. CASE n \in S /\ ran[n] /\ rows[n] = v
  <2>1. rows'[n] = v /\ pend'[n] = {} /\ ver[n] = v
    BY <1>4, <1>5, <1>6, <1>8
  <2>2. (v + 1) .. v = {}
    BY <1>1
  <2> QED BY <1>1, <1>2, <1>3, <1>8, <2>1, <2>2 DEF RowsOf
<1>9. CASE n \in S /\ ~(ran[n] /\ rows[n] = v)
  BY <1>1, <1>2, <1>3, <1>4, <1>5, <1>6, <1>9 DEF RowsOf
<1> QED BY <1>7, <1>8, <1>9

LEMMA RowsHandover ==
    ASSUME Types, RoundsInv, RowsInv, ~use.idles, SkipHandover \/ Handover,
           NEW n \in Mine
    PROVE  RowsOf(n)'
<1>0. /\ n \in Notifiers
      /\ ver \in [Notifiers -> 0..latest] /\ pend \in [Notifiers -> SUBSET (1..latest)]
  BY DEF Mine, Main, New, Types, QueryTypes
<1>1. PrepareHandover(Computed) /\ rows' = rows /\ Computed' = {}
  BY DEF SkipHandover, Handover, HandedOver, Computed
<1>2. /\ ver'[n] = IF n \in Computed THEN nsv ELSE ver[n]
      /\ pend'[n] = IF n \in Computed THEN {} ELSE pend[n]
      /\ n \notin Computed => (ran'[n] = ran[n])
  BY <1>0, <1>1 DEF PrepareHandover, Remaining, With
<1>3. RowsOf(n)
  BY DEF RowsInv, RowsOf
<1> QED BY <1>1, <1>2, <1>3 DEF RowsOf

LEMMA NextRows ==
    ASSUME Types, RoundsInv, WantedInv, RowsInv, Next, UNCHANGED use
    PROVE  RowsInv'
<1>0. use.observes \subseteq Notifiers
  BY UseTypes DEF Types, NumTypes
<1>1. CASE Delivery
  BY <1>1, DeliveryFrame, MineFrame, RowsFrame
<1>2. CASE PlainStep
  BY <1>2, PlainFrame, MineFrame, RowsFrame
<1>3. CASE SkipRun \/ RunNotifiers
  <2>1. Mine' = Mine
    BY <1>3, MineFrame DEF SkipRun, RunNotifiers
  <2> QED BY <1>3, <2>1, RowsRun DEF RowsInv, RowsOf
<1>4. CASE SkipHandover \/ Handover
  <2>1. Mine' = Mine
    BY <1>4, MineFrame, MineCleanedUp DEF SkipHandover
  <2> QED BY <1>4, <2>1, RowsHandover DEF RowsInv, RowsOf
<1>5. CASE Collect
  <2>1. Computed' = {} /\ Computed = {} /\ UNCHANGED <<ver, ran, rows, pend>>
    BY <1>5 DEF Collect, Computed
  <2> QED BY <1>5, <2>1, MineCleanedUp DEF RowsInv
<1>6. CASE SignalRealms
  <2>1. Computed' = {} /\ Computed = {} /\ UNCHANGED <<place, alive, ver, ran, rows, pend>>
    BY <1>6 DEF SignalRealms, Computed, query
  <2> QED BY <1>6, <2>1, MineFrame DEF RowsInv
<1>7. ASSUME NEW n \in use.observes, Unregister(n)
      PROVE  RowsInv'
  <2>1. Mine' \subseteq Mine
    BY <1>0, <1>7 DEF Unregister, Mine, Main, New, Types, QueryTypes
  <2> QED BY <1>7, <2>1, RowsFrame DEF Unregister, worker
<1>8. ASSUME NEW n \in use.observes, AddBlock(n) \/ EvaluateQuery(n)
      PROVE  RowsInv'
  <2>1. UNCHANGED <<wpc, wold, wnew, nsv>>
    BY <1>8 DEF AddBlock, EvaluateQuery
  <2>2. CASE place[n] = "none"
    <3>1. RegisterNotifier(n)
      BY <1>8, <2>2 DEF AddBlock, EvaluateQuery
    <3>2. Mine' = Mine \cup {n} /\ Mine \subseteq Notifiers /\ n \in Notifiers
      BY <1>0, <2>2, <3>1, MineRegistered DEF Mine, Main, New
    <3>3. Computed' = Computed /\ n \notin Computed
      BY <2>1, <2>2 DEF Computed, RoundsInv, RoundInv, InRound, Main
    <3>4. \A m \in Notifiers : /\ m # n => ver'[m] = ver[m] /\ (ran'[m] = ran[m])
                                           /\ rows'[m] = rows[m] /\ pend'[m] = pend[m]
                               /\ m = n => ~ran'[m] /\ pend'[m] = {}
      BY <1>0, <3>1 DEF RegisterNotifier, Types, QueryTypes
    <3> QED BY <2>1, <3>2, <3>3, <3>4 DEF RowsInv
  <2>3. CASE place[n] # "none"
    BY <1>0, <1>8, <2>1, <2>3, MineAdded, RowsFrame DEF AddBlock, EvaluateQuery, query
  <2> QED BY <2>2, <2>3
<1> QED BY <1>1, <1>2, <1>3, <1>4, <1>5, <1>6, <1>7, <1>8, Steps

-----------------------------------------------------------------------------
(* No block is told of more than it should *)

(* The state of one block. *)
ExtraOf(n) ==
    /\ upto[n] <= ver[n] /\ acc[n] \subseteq (upto[n] + 1) .. ver[n]
    /\ ~ran[n] => upto[n] = 0 /\ acc[n] = {}

LEMMA BlockValues ==
    ASSUME Types, NEW n \in block
    PROVE  /\ n \in Notifiers /\ n \in Mine /\ alive[n]
           /\ ver[n] \in Nat /\ rows[n] \in Nat /\ upto[n] \in Nat /\ ver[n] <= latest
           /\ upto[n] <= latest /\ acc[n] \subseteq 1..latest
           /\ latest \in Nat /\ nsv \in Nat /\ wver \in Nat /\ wver <= latest /\ nsv <= latest
BY DEF Types, SetTypes, Mine, Main, New, NumTypes, QueryTypes, BlockTypes

(* What a handover does to one block. *)
LEMMA BlockHandedOver ==
    ASSUME Types, RoundsInv, RowsInv, ~use.idles, SkipHandover \/ Handover, NEW n \in block
    PROVE  /\ n \notin Computed =>
                ver'[n] = ver[n] /\ (ran'[n] = ran[n]) /\ acc'[n] = acc[n] /\ (n \in skip' <=> n \in skip)
           /\ n \in Computed =>
                /\ ver'[n] = nsv /\ ran'[n] /\ n \notin skip'
                /\ n \in skip => acc'[n] = acc[n]
                /\ n \notin skip /\ ran[n] => acc'[n] = acc[n] \cup ((ver[n] + 1) .. nsv)
                /\ n \notin skip /\ ~ran[n] => acc'[n] = acc[n]
                /\ ran[n] => ver[n] <= nsv
           /\ UNCHANGED <<upto, block, quiet>>
<1>0. n \in Notifiers /\ n \in Mine
  BY BlockValues
<1>1. PrepareHandover(Computed) /\ UNCHANGED <<upto, block, quiet>>
  BY DEF SkipHandover, Handover, HandedOver, Computed
<1>2. /\ ver' = With(ver, Computed, nsv) /\ ran' = With(ran, Computed, TRUE)
      /\ acc' = [m \in Notifiers |-> IF m \in (Computed \cap block) \ skip
                                     THEN acc[m] \cup pend[m] ELSE acc[m]]
      /\ skip' = skip \ Computed
  BY <1>1 DEF PrepareHandover, Accumulated
<1>3. /\ pend[n] = IF n \in Computed /\ ran[n] THEN (ver[n] + 1) .. nsv ELSE {}
  BY <1>0 DEF RowsInv
<1>4. n \in Computed /\ ran[n] => ver[n] <= nsv
  <2>1. n \in Computed => n \in Main /\ InRound
    BY DEF Computed, InRound, RoundsInv, RoundInv
  <2> QED BY <2>1 DEF RoundsInv, BehindInv
<1>5. /\ ver'[n] = IF n \in Computed THEN nsv ELSE ver[n]
      /\ n \in Computed => ran'[n]
      /\ n \notin Computed => (ran'[n] = ran[n])
      /\ acc'[n] = IF n \in Computed /\ n \notin skip THEN acc[n] \cup pend[n] ELSE acc[n]
  BY <1>0, <1>2 DEF With
<1> QED BY <1>1, <1>2, <1>3, <1>4, <1>5

(* What a package does to one block. *)
LEMMA BlockDelivered ==
    ASSUME Types, NEW S, NEW C, NEW D, NEW v, NEW r, Delivered(S, C, D, v, r), NEW n \in block
    PROVE  /\ n \in S => ran[n] /\ acc'[n] = {}
           /\ n \notin S => acc'[n] = acc[n]
           /\ n \in C => n \in S /\ ver[n] = v
           /\ upto'[n] = IF n \in C /\ (upto[n] = 0 \/ acc[n] # {}) THEN v ELSE upto[n]
           /\ block' = block /\ skip' = skip
<1>0. n \in Notifiers
  BY BlockValues
<1>1. /\ acc' = With(acc, S \cap block, {})
      /\ upto' = With(upto, {m \in C \cap block : upto[m] = 0 \/ acc[m] # {}}, v)
      /\ S \subseteq Ready /\ C \subseteq S /\ block' = block /\ skip' = skip
      /\ \A m \in C : ver[m] = v
  BY DEF Delivered, Deliver
<1> QED BY <1>0, <1>1 DEF With, Ready

LEMMA ExtraDelivered ==
    ASSUME Types, ~use.suppresses, ~use.idles, ExtraInv,
           NEW S, NEW C, NEW D, NEW v, NEW r, Delivered(S, C, D, v, r),
           UNCHANGED <<ver, ran, quiet>>
    PROVE  extra' = {} /\ \A n \in block' : ExtraOf(n)'
<1>0. /\ extra = {} /\ \A n \in block : quiet[n] = {}
      /\ \A n \in block : ExtraOf(n)
  BY BlockValues DEF ExtraInv, ExtraOf
<1>1. extra' = extra \cup {n \in {m \in C \cap block : upto[m] = 0 \/ acc[m] # {}} :
                             upto[n] # 0 /\ ~(acc[n] \subseteq Expected(n, v))}
  BY DEF Delivered, Deliver
<1>2. \A n \in C \cap block : acc[n] \subseteq Expected(n, v)
  BY <1>0, BlockDelivered DEF ExtraOf, Expected
<1>3. ASSUME NEW n \in block' PROVE ExtraOf(n)'
  <2>1. n \in block
    BY DEF Delivered
  <2>2. /\ n \in S => ran[n] /\ acc'[n] = {}
        /\ n \notin S => acc'[n] = acc[n]
        /\ n \in C => n \in S /\ ver[n] = v
        /\ upto'[n] = IF n \in C /\ (upto[n] = 0 \/ acc[n] # {}) THEN v ELSE upto[n]
    BY <2>1, BlockDelivered
  <2>3. ver[n] \in Nat /\ upto[n] \in Nat
    BY <2>1, BlockValues
  <2>4. ExtraOf(n)
    BY <1>0, <2>1
  <2>5. CASE n \in S
    BY <2>2, <2>3, <2>4, <2>5 DEF ExtraOf
  <2>6. CASE n \notin S
    BY <2>2, <2>3, <2>4, <2>6 DEF ExtraOf
  <2> QED BY <2>5, <2>6
<1> QED BY <1>0, <1>1, <1>2, <1>3

LEMMA ExtraFrame ==
    ASSUME Types, \A n \in block : ExtraOf(n), UNCHANGED <<ver, ran>>,
           block' \subseteq block,
           \A n \in block' : upto'[n] = upto[n] /\ acc'[n] = acc[n]
    PROVE  \A n \in block' : ExtraOf(n)'
BY DEF ExtraOf

LEMMA NextExtra ==
    ASSUME Types, RoundsInv, RowsInv, ExtraInv, Next, UNCHANGED use
    PROVE  ExtraInv'
<1> SUFFICES ASSUME ~use.suppresses, ~use.idles
             PROVE  /\ extra' = {} /\ asked' = {}
                    /\ \A n \in Notifiers : quiet'[n] = {}
                    /\ \A n \in block' : ExtraOf(n)'
  BY DEF ExtraInv, ExtraOf
<1>0. /\ extra = {} /\ asked = {} /\ \A n \in Notifiers : quiet[n] = {}
      /\ \A n \in block : ExtraOf(n)
      /\ use.observes \subseteq Notifiers
  BY UseTypes DEF ExtraInv, ExtraOf, Types, NumTypes
<1>1. asked' = {}
  BY <1>0 DEF Next, Collect, SkipRun, SkipHandover, RunNotifiers, Handover, SignalRealms, Notify,
       RefreshBegins, RefreshEnds, RefreshAnew, BeginTransaction, BeginEnds, CommitTransaction,
       CancelTransaction, Invalidate, ReadGroup, OtherCommits, OtherNotifies, SuppressNext,
       AddBlock, EvaluateQuery, RemoveBlock, Unregister, Wait, main
<1>2. CASE Delivery
  <2>1. UNCHANGED <<ver, ran, quiet>>
    BY <1>2, DeliveryFrame
  <2>2. CASE NothingDelivered \/ DeliverError
    <3>1. UNCHANGED <<upto, acc, extra>> /\ block' \subseteq block
      BY <2>2 DEF NothingDelivered, DeliverError
    <3> QED BY <1>0, <1>1, <2>1, <3>1, ExtraFrame
  <2>3. ASSUME NEW S, NEW C, NEW D, NEW v, NEW r, Delivered(S, C, D, v, r)
        PROVE  extra' = {} /\ \A n \in block' : ExtraOf(n)'
    BY <2>1, <2>3, ExtraDelivered
  <2> QED BY <1>0, <1>1, <1>2, <2>1, <2>2, <2>3, Deliveries DEF RoundsInv
<1>3. CASE PlainStep
  <2>1. UNCHANGED <<ver, ran, extra>>
    BY <1>3, PlainFrame
  <2>2. \A n \in Notifiers : quiet'[n] = {}
    BY <1>0, <1>3 DEF PlainStep, RefreshBegins, BeginTransaction, CancelTransaction, Invalidate,
       ReadGroup, OtherNotifies, OtherCommits, CommitTransaction, SuppressNext, RemoveBlock, Wait,
       told, With
  <2>3. /\ block' \subseteq block
        /\ \A n \in block' : n \in Notifiers => upto'[n] = upto[n] /\ acc'[n] = acc[n]
    BY <1>0, <1>3 DEF PlainStep, RefreshBegins, BeginTransaction, CancelTransaction, Invalidate,
       ReadGroup, OtherNotifies, OtherCommits, CommitTransaction, SuppressNext, RemoveBlock, Wait,
       told, With
  <2>4. \A n \in block' : upto'[n] = upto[n] /\ acc'[n] = acc[n]
    BY <2>3, BlockValues
  <2> QED BY <1>0, <1>1, <2>1, <2>2, <2>3, <2>4, ExtraFrame
<1>4. CASE Collect \/ SkipRun \/ RunNotifiers \/ SignalRealms
  <2>1. UNCHANGED <<ver, ran, extra, quiet, block, upto, acc>>
    BY <1>4 DEF Collect, SkipRun, RunNotifiers, SignalRealms, query, told, hist
  <2> QED BY <1>0, <1>1, <2>1, ExtraFrame
<1>5. CASE SkipHandover \/ Handover
  <2>1. UNCHANGED <<extra, quiet, block>>
    BY <1>5 DEF SkipHandover, Handover, hist
  <2>2. ASSUME NEW n \in block PROVE ExtraOf(n)'
    <3>1. /\ ver[n] \in Nat /\ upto[n] \in Nat /\ nsv \in Nat /\ ExtraOf(n)
      BY <1>0, BlockValues
    <3>2. CASE n \notin Computed
      BY <1>5, <3>1, <3>2, BlockHandedOver DEF ExtraOf
    <3>3. CASE n \in Computed
      <4>1. /\ ver'[n] = nsv /\ ran'[n] /\ upto'[n] = upto[n]
            /\ acc'[n] \subseteq acc[n] \cup ((ver[n] + 1) .. nsv)
            /\ ran[n] => ver[n] <= nsv
            /\ ~ran[n] => acc'[n] = acc[n]
        BY <1>5, <3>3, BlockHandedOver
      <4>2. CASE ran[n]
        BY <3>1, <4>1, <4>2 DEF ExtraOf
      <4>3. CASE ~ran[n]
        BY <3>1, <4>1, <4>3 DEF ExtraOf
      <4> QED BY <4>2, <4>3
    <3> QED BY <3>2, <3>3
  <2> QED BY <1>0, <1>1, <2>1, <2>2
<1>6. ASSUME NEW n \in use.observes, Unregister(n)
      PROVE  /\ extra' = {} /\ \A m \in Notifiers : quiet'[m] = {}
             /\ \A m \in block' : ExtraOf(m)'
  <2>1. UNCHANGED <<ver, ran, extra, quiet, block, upto, acc>>
    BY <1>6 DEF Unregister, hist
  <2> QED BY <1>0, <2>1, ExtraFrame
<1>7. ASSUME NEW n \in use.observes, AddBlock(n) \/ EvaluateQuery(n)
      PROVE  /\ extra' = {} /\ \A m \in Notifiers : quiet'[m] = {}
             /\ \A m \in block' : ExtraOf(m)'
  <2>1. extra' = extra /\ \A m \in Notifiers : quiet'[m] = {}
    BY <1>0, <1>7 DEF AddBlock, EvaluateQuery, With
  <2>2. n \in Notifiers /\ block' \subseteq block \cup {n} /\ block \subseteq Notifiers
    BY <1>0, <1>7, BlockValues DEF AddBlock, EvaluateQuery
  <2>3. \A m \in block : m # n => /\ ver'[m] = ver[m] /\ (ran'[m] = ran[m])
                                  /\ upto'[m] = upto[m] /\ acc'[m] = acc[m]
    BY <1>7, <2>2 DEF AddBlock, EvaluateQuery, RegisterNotifier, With, query, Types, QueryTypes
  <2>4. \A m \in block : m # n => ExtraOf(m)'
    BY <1>0, <2>3 DEF ExtraOf
  <2>5. CASE AddBlock(n)
    <3>1. upto'[n] = 0 /\ acc'[n] = {} /\ ver'[n] \in Nat
      <4>1. ver' \in [Notifiers -> 0..latest']
        BY NextTypes DEF RoundsInv, Types, QueryTypes
      <4>2. latest' = latest /\ latest \in Nat
        BY <2>5 DEF AddBlock, file, Types, NumTypes
      <4> QED BY <2>2, <2>5, <4>1, <4>2 DEF AddBlock, With
    <3>2. ExtraOf(n)'
      BY <3>1 DEF ExtraOf
    <3> QED BY <1>0, <2>1, <2>2, <2>4, <3>2
  <2>6. CASE EvaluateQuery(n)
    <3>1. block' = block /\ UNCHANGED <<upto, acc>>
      BY <2>6 DEF EvaluateQuery
    <3>2. CASE n \in block
      <4>1. place[n] # "none"
        BY <3>2, BlockValues DEF Mine, Main, New
      <4>2. UNCHANGED <<ver, ran>>
        BY <2>6, <4>1 DEF EvaluateQuery, query
      <4> QED BY <1>0, <2>1, <3>1, <4>2, ExtraFrame
    <3>3. CASE n \notin block
      BY <1>0, <2>1, <2>4, <3>1, <3>3
    <3> QED BY <3>2, <3>3
  <2> QED BY <1>7, <2>5, <2>6
<1> QED BY <1>1, <1>2, <1>3, <1>4, <1>5, <1>6, <1>7, Steps

-----------------------------------------------------------------------------
(* Blocks are told of everything *)

LEMMA ToldDelivered ==
    ASSUME Types, NEW S, NEW C, NEW D, NEW v, NEW r, Delivered(S, C, D, v, r),
           \A n \in block : ToldOf(n), missed = {}
    PROVE  missed' = {}
<1>1. missed' = missed \cup {n \in {m \in C \cap block : upto[m] = 0 \/ acc[m] # {}} :
                               upto[n] # 0 /\ ~(Expected(n, v) \subseteq acc[n])}
  BY DEF Delivered, Deliver
<1>2. \A n \in C \cap block : ver[n] = v /\ ToldOf(n)
  BY BlockDelivered
<1> QED BY <1>1, <1>2 DEF ToldOf

(* A block that is called has nothing left to be told of. *)
LEMMA CalledBlock ==
    ASSUME Types, NEW S, NEW C, NEW D, NEW v, NEW r, Delivered(S, C, D, v, r),
           NEW n \in block, n \in C, ToldOf(n), ver[n] # 0, UNCHANGED <<ver, quiet>>
    PROVE  ran[n] /\ upto'[n] # 0 /\ Expected(n, ver[n])' = {}
<1>1. /\ ran[n] /\ ver[n] = v
      /\ upto'[n] = IF upto[n] = 0 \/ acc[n] # {} THEN ver[n] ELSE upto[n]
  BY BlockDelivered
<1>2. ver[n] \in Nat /\ upto[n] \in Nat
  BY BlockValues
<1>3. CASE upto[n] = 0 \/ acc[n] # {}
  <2>1. upto'[n] = ver[n]
    BY <1>1, <1>3
  <2>2. (ver[n] + 1) .. ver[n] = {}
    BY <1>2
  <2> QED BY <1>1, <2>1, <2>2 DEF Expected
<1>4. CASE upto[n] # 0 /\ acc[n] = {}
  <2>1. upto'[n] = upto[n]
    BY <1>1, <1>4
  <2>2. Expected(n, ver[n]) = {}
    BY <1>4 DEF ToldOf
  <2> QED BY <1>1, <1>4, <2>1, <2>2 DEF Expected
<1> QED BY <1>3, <1>4

(* A block that has nothing left and is packaged still has nothing left. *)
LEMMA DoneBlock ==
    ASSUME Types, NEW S, NEW C, NEW D, NEW v, NEW r, Delivered(S, C, D, v, r),
           NEW n \in block, n \notin C, UNCHANGED <<ver, quiet>>
    PROVE  upto'[n] = upto[n] /\ Expected(n, ver[n])' = Expected(n, ver[n])
BY BlockDelivered DEF Expected

LEMMA ReachedBlocks ==
    ASSUME Types, Reached, target # 0
    PROVE  block \subseteq Ready /\ \A n \in block : ver[n] >= target
<1>1. \A n \in block : n \in Mine /\ HasReached(n)
  BY BlockValues DEF Reached
<1> QED BY <1>1 DEF HasReached, Ready

(* The Realm is told at the version it goes to. *)
LEMMA AllCalled ==
    ASSUME Types, \A n \in block : ToldOf(n), NEW D, NEW v, NEW r,
           Delivered(Ready, Ready, D, v, r), v # 0, rv' = v, UNCHANGED <<ver, quiet, ran>>
    PROVE  \A n \in block' : ToldOf(n)'
<1> SUFFICES ASSUME NEW n \in block', upto'[n] # 0
             PROVE  /\ ran'[n] /\ Expected(n, ver[n])' = {}
                    /\ rv' <= ver'[n] + 1
  BY DEF ToldOf
<1>1. n \in block /\ ToldOf(n)
  BY DEF Delivered
<1>2. ver[n] \in Nat /\ n \in Mine
  BY <1>1, BlockValues
<1>3. CASE n \in Ready
  <2>1. ver[n] = v
    BY <1>3 DEF Delivered
  <2> QED BY <1>1, <1>2, <1>3, <2>1, CalledBlock
<1>4. CASE n \notin Ready
  <2>1. ~ran[n]
    BY <1>2, <1>4 DEF Ready
  <2>2. upto'[n] = upto[n]
    BY <1>1, <1>4, BlockDelivered
  <2> QED BY <1>1, <2>1, <2>2 DEF ToldOf
<1> QED BY <1>3, <1>4

LEMMA ToldFrame ==
    ASSUME \A n \in block : ToldOf(n), block' \subseteq block, rv' = rv,
           \A n \in block' : /\ ver'[n] = ver[n] /\ (ran'[n] = ran[n]) /\ upto'[n] = upto[n]
                             /\ acc'[n] = acc[n] /\ quiet'[n] = quiet[n]
    PROVE  \A n \in block' : ToldOf(n)'
BY DEF ToldOf, Expected

LEMMA ToldAvailable ==
    ASSUME Types, RoundsInv, \A n \in block : ToldOf(n), missed = {}, reading,
           ProcessAvailable(reading, rv), UNCHANGED <<ver, ran, quiet, rv>>
    PROVE  missed' = {} /\ \A n \in block' : ToldOf(n)'
<1> DEFINE S == {n \in Ready : ver[n] = rv}
<1>0. rv \in Nat /\ rv # 0
  BY DEF Types, NumTypes
<1>1. CASE failed \/ S = {}
  <2>1. NothingDelivered \/ DeliverError
    BY <1>1 DEF ProcessAvailable
  <2>2. UNCHANGED <<upto, acc, missed>> /\ block' \subseteq block
    BY <2>1 DEF NothingDelivered, DeliverError
  <2> QED BY <2>2, ToldFrame
<1>2. CASE ~failed /\ S # {}
  <2>0. S = {n \in Ready : reading => ver[n] = rv}
    OBVIOUS
  <2>1. Deliver(S, S, S, Common(S), rv) /\ UNCHANGED <<block, skip>>
    BY <1>2, <2>0 DEF ProcessAvailable
  <2>2. \A n \in S : ver[n] = Common(S)
    BY <1>2, ReadyAgree DEF RoundsInv
  <2>3. Delivered(S, S, S, Common(S), rv)
    BY <2>1, <2>2 DEF Delivered
  <2>4. ASSUME NEW n \in block' PROVE ToldOf(n)'
    <3>1. n \in block /\ ToldOf(n)
      BY <2>3 DEF Delivered
    <3>2. CASE n \in S
      <4>1. ran[n] /\ Expected(n, ver[n])' = {}
        BY <1>0, <2>3, <3>1, <3>2, CalledBlock
      <4>2. rv <= ver[n] + 1
        BY <1>0, <3>2
      <4> QED BY <4>1, <4>2 DEF ToldOf
    <3>3. CASE n \notin S
      <4>1. upto'[n] = upto[n] /\ Expected(n, ver[n])' = Expected(n, ver[n])
        BY <2>3, <3>1, <3>3, DoneBlock
      <4>2. acc'[n] = acc[n]
        BY <2>3, <3>1, <3>3, BlockDelivered
      <4> QED BY <3>1, <4>1, <4>2 DEF ToldOf
    <3> QED BY <3>2, <3>3
  <2> QED BY <2>3, <2>4, ToldDelivered
<1> QED BY <1>1, <1>2

LEMMA ToldReady ==
    ASSUME Types, RoundsInv, \A n \in block : ToldOf(n), missed = {},
           AdvanceToReady, UNCHANGED <<ver, ran, quiet>>
    PROVE  missed' = {} /\ \A n \in block' : ToldOf(n)'
<1>0. rv \in Nat /\ rv # 0 /\ block \subseteq Mine
  BY DEF Types, NumTypes, SetTypes
<1>1. CASE failed
  <2>1. block' = block \ Mine /\ missed' = missed
    BY <1>1 DEF AdvanceToReady, DeliverError
  <2> QED BY <1>0, <2>1
<1>2. CASE ~failed /\ Ready = {}
  <2>1. UNCHANGED <<upto, acc, missed, block>>
    BY <1>2 DEF AdvanceToReady, NothingDelivered
  <2>2. \A n \in block : ~ran[n]
    BY <1>0, <1>2 DEF Ready
  <2> QED BY <2>1, <2>2 DEF ToldOf
<1>3. CASE ~failed /\ Ready # {}
  <2>1. /\ \A n \in Ready : ver[n] = Common(Ready)
        /\ Common(Ready) \in Nat
    BY <1>3, ReadyAgree DEF RoundsInv, Types, NumTypes
  <2>2. CASE Common(Ready) < rv
    <3>1. Delivered(Ready, {}, {}, rv, rv) /\ rv' = rv
      BY <1>3, <2>2 DEF AdvanceToReady, Delivered
    <3>2. ASSUME NEW n \in block' PROVE ToldOf(n)'
      <4>1. n \in block /\ ToldOf(n)
        BY <3>1 DEF Delivered
      <4>2. upto'[n] = upto[n] /\ Expected(n, ver[n])' = Expected(n, ver[n])
        BY <3>1, <4>1, DoneBlock
      <4>3. upto[n] # 0 => n \in Ready /\ ver[n] < rv
        BY <1>0, <2>1, <2>2, <4>1 DEF ToldOf, Ready
      <4> QED BY <3>1, <4>1, <4>2, <4>3 DEF ToldOf
    <3> QED BY <3>1, <3>2, ToldDelivered
  <2>3. CASE ~(Common(Ready) < rv)
    <3>1. /\ rv' = Common(Ready) /\ Deliver(Ready, Ready, Ready, Common(Ready), Common(Ready))
          /\ UNCHANGED <<block, skip>>
      BY <1>3, <2>3 DEF AdvanceToReady, ReadyVersion
    <3>2. Delivered(Ready, Ready, Ready, Common(Ready), Common(Ready))
      BY <2>1, <3>1 DEF Delivered
    <3>3. Common(Ready) # 0
      BY <1>0, <2>1, <2>3
    <3> QED BY <3>1, <3>2, <3>3, ToldDelivered, AllCalled
  <2> QED BY <2>2, <2>3
<1> QED BY <1>1, <1>2, <1>3

(* refresh and begin_transaction, when what they waited for is there. *)
LEMMA ToldAdvance ==
    ASSUME Types, RoundsInv, \A n \in block : ToldOf(n), missed = {},
           NEW v \in Nat, NEW reads, Advance(v, reads),
           target # 0 /\ Packaged # {} => v = Common(Ready),
           UNCHANGED <<ver, ran, quiet>>
    PROVE  /\ missed' = {} /\ \A n \in block' : ToldOf(n)'
           /\ \A n \in block' : /\ n \in block /\ target # 0 /\ ran[n] /\ ver[n] = v
                                /\ upto'[n] # 0 /\ Expected(n, ver[n])' = {}
           /\ skip' \subseteq block'
<1>0. block \subseteq Mine /\ target \in Nat /\ skip \subseteq block
  BY DEF Types, NumTypes, SetTypes
<1>1. CASE target = 0
  <2>1. block' = block \ Mine /\ missed' = missed /\ skip' = skip \ Mine
    BY <1>1 DEF Advance, DeliverError
  <2> QED BY <1>0, <2>1
<1>2. CASE target # 0 /\ Ready = {}
  <2>1. UNCHANGED <<missed, block, skip>>
    BY <1>2 DEF Advance, NothingDelivered
  <2>2. block = {}
    BY <1>2, ReachedBlocks DEF Advance
  <2> QED BY <1>0, <2>1, <2>2
<1>3. CASE target # 0 /\ Ready # {}
  <2> DEFINE D == IF reads THEN Packaged ELSE {}
  <2>1. /\ \A n \in Ready : ver[n] = Common(Ready)
        /\ Common(Ready) \in Nat
    BY <1>3, ReadyAgree DEF RoundsInv, Types, NumTypes
  <2>2. block \subseteq Ready /\ \A n \in block : ver[n] >= target
    BY <1>3, ReachedBlocks DEF Advance
  <2>3. Deliver(Ready, Packaged, D, Common(Ready), v) /\ UNCHANGED <<block, skip>> /\ rv' = v
    BY <1>3 DEF Advance
  <2>4. CASE block = {}
    <3>1. Packaged \subseteq Ready
      BY DEF Packaged
    <3>2. missed' = missed
      BY <2>3, <2>4 DEF Deliver
    <3> QED BY <1>0, <2>3, <2>4, <3>2
  <2>5. CASE block # {}
    <3>1. Common(Ready) >= target /\ Common(Ready) # 0
      BY <1>0, <1>3, <2>1, <2>2, <2>5
    <3>2. Packaged = Ready
      BY <1>3, <3>1 DEF Packaged
    <3>3. v = Common(Ready)
      BY <1>3, <3>2
    <3>4. Delivered(Ready, Ready, D, v, v)
      BY <2>1, <2>3, <3>2, <3>3 DEF Delivered
    <3>5. missed' = {} /\ \A n \in block' : ToldOf(n)'
      BY <2>3, <3>1, <3>3, <3>4, ToldDelivered, AllCalled
    <3>6. \A n \in block : /\ ran[n] /\ ver[n] = v
                           /\ upto'[n] # 0 /\ Expected(n, ver[n])' = {}
      BY <2>1, <2>2, <3>1, <3>3, <3>4, CalledBlock
    <3> QED BY <1>0, <1>3, <2>3, <3>5, <3>6
  <2> QED BY <2>4, <2>5
<1> QED BY <1>1, <1>2, <1>3

LEMMA NextVersionType ==
    ASSUME Types
    PROVE  NextVersion \in Nat /\ NextVersion <= latest
BY DEF Types, NumTypes, NextVersion

LEMMA SkipFrame ==
    ASSUME \A n \in skip : SkipOf(n), skip' \subseteq skip,
           UNCHANGED <<latest, wpc, wver, wskip, nsv, skipv>>,
           \A n \in skip' : ver'[n] = ver[n] /\ (ran'[n] = ran[n]) /\ quiet'[n] = quiet[n],
           pc' = pc \/ pc # "commit"
    PROVE  \A n \in skip' : pc' # "commit" \/ pc = "commit" => SkipOf(n)'
<1>1. NextVersion' = NextVersion /\ InRound' = InRound
  BY DEF NextVersion, InRound
<1> QED BY <1>1 DEF SkipOf

LEMMA MissedDelivery ==
    ASSUME Types, RoundsInv, UsesTold, ToldInv, WriteInv, SkipInv, Delivery, UNCHANGED use
    PROVE  ToldInv' /\ WriteInv' /\ SkipInv'
<1>0. /\ UNCHANGED <<latest, ver, ran, quiet, wpc, wver, wskip, nsv, skipv>>
  BY DeliveryFrame
<1>t. /\ block \subseteq Mine /\ skip \subseteq block /\ latest \in Nat /\ rv \in Nat
      /\ ver \in [Notifiers -> 0..latest] /\ target \in Nat
      /\ pc \in {"idle", "refresh", "begin", "write", "commit"}
  BY DEF Types, NumTypes, QueryTypes, SetTypes
<1>a. /\ missed = {} /\ reading /\ \A n \in block : ToldOf(n)
  BY DEF ToldInv
<1>b. ~RefreshAnew
  BY <1>a DEF RefreshAnew
<1>1. CASE Notify
  <2>1. UNCHANGED <<reading, pc, target, asked>> /\ pc # "commit" /\ pc # "begin"
    BY <1>1 DEF Notify
  <2>2. CASE pc = "write"
    <3>1. UNCHANGED <<rv, block, skip, acc, upto, missed>>
      BY <1>1, <2>2 DEF Notify, NothingDelivered
    <3>2. ToldInv'
      BY <1>0, <1>a, <2>1, <3>1, ToldFrame DEF ToldInv
    <3>3. WriteInv'
      BY <1>0, <2>1, <3>1 DEF WriteInv, WrittenOf, Expected
    <3>4. SkipInv'
      BY <2>1, <2>2, <3>1 DEF SkipInv
    <3> QED BY <3>2, <3>3, <3>4
  <2>3. CASE pc # "write"
    <3>1. missed' = {} /\ \A n \in block' : ToldOf(n)'
      <4>1. CASE rv # latest
        BY <1>0, <1>1, <1>a, <2>1, <2>3, <4>1, ToldReady DEF Notify
      <4>2. CASE rv = latest
        <5>1. ProcessAvailable(reading, rv) /\ rv' = rv
          BY <1>1, <2>3, <4>2 DEF Notify
        <5> QED BY <1>0, <1>a, <5>1, ToldAvailable
      <4> QED BY <4>1, <4>2
    <3>2. skip' \subseteq skip
      <4>1. CASE NothingDelivered \/ DeliverError
        BY <4>1 DEF NothingDelivered, DeliverError
      <4>2. ASSUME NEW S, NEW C, NEW D, NEW v, NEW r, Delivered(S, C, D, v, r)
            PROVE  skip' \subseteq skip
        BY <4>2 DEF Delivered
      <4> QED BY <4>1, <4>2, Deliveries DEF RoundsInv
    <3>3. SkipInv'
      BY <1>0, <2>1, <2>3, <3>2, SkipFrame DEF SkipInv
    <3>4. WriteInv'
      BY <2>1, <2>3 DEF WriteInv
    <3> QED BY <1>a, <2>1, <3>1, <3>3, <3>4 DEF ToldInv
  <2> QED BY <2>2, <2>3
<1>2. CASE RefreshEnds
  <2> DEFINE v == IF target # 0 /\ Packaged # {} THEN Common(Ready) ELSE latest
  <2>1. Advance(v, TRUE) /\ pc = "refresh" /\ pc' = "idle" /\ UNCHANGED reading
    BY <1>2 DEF RefreshEnds, Advance
  <2>2. v \in Nat
    <3>1. Packaged # {} => Ready # {}
      BY DEF Packaged
    <3>2. Packaged # {} => Common(Ready) \in 0..latest
      BY <3>1, ReadyAgree DEF RoundsInv
    <3> QED BY <1>t, <3>2
  <2>3. target # 0 /\ Packaged # {} => v = Common(Ready)
    OBVIOUS
  <2> HIDE DEF v
  <2>4. missed' = {} /\ \A n \in block' : ToldOf(n)'
    BY <1>0, <1>a, <2>1, <2>2, <2>3, ToldAdvance
  <2>5. skip' \subseteq skip
    BY <2>1 DEF Advance, DeliverError, NothingDelivered
  <2>6. SkipInv'
    BY <1>0, <2>1, <2>5, SkipFrame DEF SkipInv
  <2> QED BY <1>a, <2>1, <2>4, <2>6 DEF ToldInv, WriteInv
<1>3. CASE BeginEnds
  <2>1. /\ Advance(latest, FALSE) /\ pc = "begin" /\ pc' = "write" /\ UNCHANGED reading
        /\ rv' = latest /\ Reached
    BY <1>3 DEF BeginEnds, Advance
  <2>2. target # 0 => target = latest
    BY <2>1 DEF WriteInv
  <2>3. target # 0 /\ Packaged # {} => latest = Common(Ready)
    <3> SUFFICES ASSUME target # 0, Packaged # {} PROVE latest = Common(Ready)
      OBVIOUS
    <3>1. Ready # {} /\ Common(Ready) >= target
      BY DEF Packaged
    <3>2. Common(Ready) \in 0..latest
      BY <3>1, ReadyAgree DEF RoundsInv
    <3> QED BY <1>t, <2>2, <3>1, <3>2
  <2>4. /\ missed' = {} /\ \A n \in block' : ToldOf(n)'
        /\ \A n \in block' : /\ n \in block /\ target # 0 /\ ran[n] /\ ver[n] = latest
                             /\ upto'[n] # 0 /\ Expected(n, ver[n])' = {}
        /\ skip' \subseteq block'
    BY <1>0, <1>t, <1>a, <2>1, <2>3, ToldAdvance
  <2>5. WriteInv'
    BY <1>0, <2>1, <2>4 DEF WriteInv, WrittenOf
  <2>6. skip' \subseteq skip
    BY <2>1 DEF Advance, DeliverError, NothingDelivered
  <2>7. skip' = {}
    <3> SUFFICES ASSUME NEW n \in skip' PROVE FALSE
      OBVIOUS
    <3>1. SkipOf(n) /\ ver[n] = latest
      BY <2>4, <2>6 DEF SkipInv
    <3> QED BY <1>t, <2>1, <3>1 DEF SkipOf
  <2>8. SkipInv'
    BY <2>1, <2>7 DEF SkipInv
  <2> QED BY <1>a, <2>1, <2>4, <2>5, <2>8 DEF ToldInv
<1> QED BY <1>1, <1>2, <1>3, <1>b DEF Delivery

LEMMA WriteFrame ==
    ASSUME WriteInv, UNCHANGED <<latest, rv, pc, target>>, block' \subseteq block,
           \A n \in block' : /\ ver'[n] = ver[n] /\ (ran'[n] = ran[n])
                             /\ upto'[n] = upto[n] /\ quiet'[n] = quiet[n]
    PROVE  WriteInv'
BY DEF WriteInv, WrittenOf, Expected

(* Steps that leave the main thread, the notifiers and the worker's place alone. *)
LEMMA MissedFrame ==
    ASSUME ToldInv, WriteInv, SkipInv,
           UNCHANGED <<use, latest, rv, pc, target, reading, missed, asked>>,
           UNCHANGED <<wpc, wver, wskip, nsv, skipv>>,
           block' \subseteq block, skip' \subseteq skip, skip \subseteq block,
           \A n \in block : /\ ver'[n] = ver[n] /\ (ran'[n] = ran[n]) /\ upto'[n] = upto[n]
                            /\ acc'[n] = acc[n] /\ quiet'[n] = quiet[n]
    PROVE  ToldInv' /\ WriteInv' /\ SkipInv'
<1>1. ToldInv'
  BY ToldFrame DEF ToldInv
<1>2. WriteInv'
  BY WriteFrame
<1>3. SkipInv'
  BY SkipFrame DEF SkipInv
<1> QED BY <1>1, <1>2, <1>3

LEMMA MissedPlain ==
    ASSUME Types, RoundsInv, UsesTold, ToldInv, WriteInv, SkipInv, PlainStep, UNCHANGED use
    PROVE  ToldInv' /\ WriteInv' /\ SkipInv'
<1>0. /\ UNCHANGED <<place, alive, ver, ran, wpc, wver, wskip, wold, wnew, nsv, missed>>
      /\ use.observes \subseteq Notifiers
  BY PlainFrame, UseTypes DEF Types, NumTypes
<1>t. /\ block \subseteq Mine /\ skip \subseteq block /\ latest \in Nat /\ rv \in Nat
      /\ asked \subseteq block
      /\ ver \in [Notifiers -> 0..latest] /\ target \in Nat /\ Mine \subseteq Notifiers
      /\ pc \in {"idle", "refresh", "begin", "write", "commit"}
  BY DEF Types, NumTypes, QueryTypes, SetTypes, Mine, Main, New
<1>a. missed = {} /\ reading /\ \A n \in block : ToldOf(n)
  BY DEF ToldInv
<1>1. CASE \/ RefreshBegins \/ BeginTransaction \/ CancelTransaction \/ OtherNotifies
  <2>1. CASE OtherNotifies
    <3>1. UNCHANGED <<pc, target, asked>>
      BY <2>1 DEF OtherNotifies, main
    <3>2. UNCHANGED <<latest, rv, reading, skipv, block, skip, upto, acc, quiet>>
      BY <2>1 DEF OtherNotifies, main, told, worker
    <3> QED BY <1>0, <1>t, <3>1, <3>2, MissedFrame
  <2>2. CASE RefreshBegins \/ BeginTransaction \/ CancelTransaction
    <3>1. /\ UNCHANGED <<latest, rv, reading, skipv, block, skip, upto, acc, quiet>>
          /\ pc' # "commit" /\ pc # "commit" /\ pc' # "write"
          /\ pc' = "begin" => target' \in {0, latest}
      BY <2>2, <1>a DEF RefreshBegins, BeginTransaction, CancelTransaction, Wait,
         file, main, told, worker
    <3>2. ToldInv'
      BY <1>0, <1>a, <3>1, ToldFrame DEF ToldInv
    <3>3. WriteInv'
      BY <1>t, <3>1 DEF WriteInv
    <3>4. SkipInv'
      BY <1>0, <3>1, SkipFrame DEF SkipInv
    <3> QED BY <3>2, <3>3, <3>4
  <2> QED BY <1>1, <2>1, <2>2
<1>2. CASE Invalidate \/ ReadGroup
  BY <1>2, <1>a DEF Invalidate, ReadGroup, UsesTold
<1>3. CASE OtherCommits
  <2>1. /\ UNCHANGED <<rv, reading, skipv, block, skip, upto, acc, quiet, pc, target, asked>>
        /\ latest' = latest + 1 /\ pc \in {"idle", "refresh"}
    BY <1>3 DEF OtherCommits, main, told, worker
  <2>2. ToldInv'
    BY <1>0, <1>a, <2>1, ToldFrame DEF ToldInv
  <2>3. WriteInv'
    BY <2>1 DEF WriteInv
  <2>4. ASSUME NEW n \in skip PROVE SkipOf(n)'
    <3>1. NextVersion' = NextVersion /\ InRound' = InRound
      BY <1>0, <2>1 DEF NextVersion, InRound
    <3>2. SkipOf(n) /\ ver[n] \in Nat
      BY <1>t DEF SkipInv
    <3>3. ver[n] < latest'
      BY <1>t, <2>1, <3>2 DEF SkipOf
    <3> QED BY <1>0, <2>1, <3>1, <3>2, <3>3 DEF SkipOf
  <2>5. SkipInv'
    BY <2>1, <2>4 DEF SkipInv
  <2> QED BY <2>2, <2>3, <2>5
<1>4. CASE CommitTransaction
  <2>1. UNCHANGED <<reading, block, skip, upto, acc, target>> /\ pc \in {"write", "commit"}
    BY <1>4 DEF CommitTransaction
  <2>2. rv = latest /\ \A n \in block : WrittenOf(n)
    BY <2>1 DEF WriteInv
  <2>3. CASE /\ latest' = latest + 1 /\ rv' = latest' /\ skipv' = SkipVersion /\ pc' = "idle"
             /\ quiet' = [n \in Notifiers |-> IF n \in asked THEN quiet[n] \cup {latest'}
                                              ELSE quiet[n]]
    <3>1. \A n \in block : /\ n \in Notifiers /\ quiet[n] \subseteq quiet'[n]
                           /\ n \in asked => latest' \in quiet'[n]
      BY <1>t, <2>3
    <3>2. ASSUME NEW n \in block PROVE ToldOf(n)'
      <4>1. ver'[n] = latest /\ ran'[n] /\ Expected(n, ver[n]) = {}
        BY <1>0, <2>2 DEF WrittenOf
      <4>2. Expected(n, ver[n])' = {}
        BY <1>0, <2>1, <3>1, <4>1 DEF Expected
      <4>3. rv' <= ver'[n] + 1
        BY <1>t, <2>3, <4>1
      <4> QED BY <4>1, <4>2, <4>3 DEF ToldOf
    <3>3. ASSUME NEW n \in skip PROVE SkipOf(n)'
      <4>1. n \in block /\ n \in asked /\ ver'[n] = latest /\ ran'[n] /\ ran[n] /\ ver[n] = latest
        BY <1>0, <1>t, <2>1, <2>2 DEF SkipInv, WrittenOf
      <4>2. n \in Main /\ alive[n]
        BY <1>t, <4>1 DEF Mine, New, RoundsInv, RoundInv
      <4>3. skipv' = latest + 1
        BY <2>3, <4>2 DEF SkipVersion
      <4>4. InRound' = InRound
        BY <1>0 DEF InRound
      <4>5. CASE InRound
        <5>1. NextVersion' = NextVersion
          BY <1>0, <4>5 DEF NextVersion, InRound
        <5>2. (latest + 1) .. NextVersion = {}
          BY <1>t, NextVersionType
        <5> QED BY <1>t, <2>3, <4>1, <4>4, <4>5, <5>1, <5>2 DEF SkipOf
      <4>6. CASE ~InRound
        <5>1. wpc' \in {"idle", "signal"}
          BY <1>0, <4>6 DEF InRound, Types, NumTypes
        <5>2. NextVersion' = latest + 1
          BY <4>3, <5>1 DEF NextVersion
        <5>3. (latest + 1) .. (latest + 1) = {latest + 1}
          BY <1>t
        <5> QED BY <1>t, <2>3, <3>1, <4>1, <4>3, <5>2, <5>3 DEF SkipOf
      <4> QED BY <4>5, <4>6
    <3> QED BY <1>0, <1>a, <2>1, <2>3, <3>2, <3>3 DEF ToldInv, WriteInv, SkipInv
  <2>4. CASE use.commitsFail /\ pc' = "write" /\ UNCHANGED <<latest, rv, skipv, quiet, asked>>
    <3>1. skip = {}
      BY <2>4 DEF UsesTold, SkipInv
    <3>2. ToldInv'
      BY <1>0, <1>a, <2>1, <2>4, ToldFrame DEF ToldInv
    <3>3. WriteInv'
      BY <1>0, <2>1, <2>2, <2>4 DEF WriteInv, WrittenOf, Expected
    <3> QED BY <2>1, <2>4, <3>1, <3>2, <3>3 DEF SkipInv
  <2> QED BY <1>4, <2>3, <2>4 DEF CommitTransaction
<1>5. ASSUME NEW m \in use.observes, SuppressNext(m)
      PROVE  ToldInv' /\ WriteInv' /\ SkipInv'
  <2>1. /\ UNCHANGED <<latest, rv, reading, skipv, block, upto, acc, quiet, target>>
        /\ pc \in {"write", "commit"} /\ pc' = "commit" /\ m \in block
        /\ skip' = skip \cup {m} /\ asked' = asked \cup {m} /\ use.suppresses
    BY <1>5 DEF SuppressNext, file, worker
  <2>2. rv = latest /\ \A n \in block : WrittenOf(n)
    BY <2>1 DEF WriteInv
  <2>3. ToldInv'
    BY <1>0, <1>a, <2>1, ToldFrame DEF ToldInv
  <2>4. WriteInv'
    BY <1>0, <2>1, <2>2 DEF WriteInv, WrittenOf, Expected
  <2>5. ASSUME NEW n \in skip' PROVE SkipOf(n)'
    <3>1. ran'[n] /\ ver'[n] = latest
      BY <1>0, <1>t, <2>1, <2>2 DEF WrittenOf
    <3>2. NextVersion' = NextVersion
      BY <1>0, <2>1 DEF NextVersion
    <3>3. (latest + 1) .. NextVersion = {}
      BY <1>t, NextVersionType
    <3> QED BY <2>1, <3>1, <3>2, <3>3 DEF SkipOf
  <2>6. skip' \subseteq asked'
    BY <2>1 DEF SkipInv
  <2>7. SkipInv'
    BY <2>1, <2>5, <2>6 DEF SkipInv
  <2> QED BY <2>3, <2>4, <2>7
<1>6. ASSUME NEW m \in use.observes, RemoveBlock(m)
      PROVE  ToldInv' /\ WriteInv' /\ SkipInv'
  <2>1. /\ UNCHANGED <<latest, rv, reading, skipv, pc, target>>
        /\ block' = block \ {m} /\ skip' = skip \ {m} /\ asked' = asked \ {m}
        /\ \A n \in Notifiers : n # m =>
              upto'[n] = upto[n] /\ acc'[n] = acc[n] /\ quiet'[n] = quiet[n]
    BY <1>6 DEF RemoveBlock, file, worker, With
  <2>2. \A n \in block' : upto'[n] = upto[n] /\ acc'[n] = acc[n] /\ quiet'[n] = quiet[n]
    BY <1>t, <2>1
  <2>3. ToldInv'
    BY <1>0, <1>a, <2>1, <2>2, ToldFrame DEF ToldInv
  <2>4. WriteInv'
    BY <1>0, <2>1, <2>2, WriteFrame
  <2>5. \A n \in skip' : SkipOf(n)'
    BY <1>0, <1>t, <2>1, <2>2, SkipFrame DEF SkipInv
  <2>6. SkipInv'
    BY <2>1, <2>5 DEF SkipInv
  <2> QED BY <2>3, <2>4, <2>6
<1> QED BY <1>1, <1>2, <1>3, <1>4, <1>5, <1>6 DEF PlainStep

LEMMA MissedRounds ==
    ASSUME Types, RoundsInv, RowsInv, UsesTold, ToldInv, WriteInv, SkipInv, UNCHANGED use,
           \/ Collect \/ SkipRun \/ RunNotifiers \/ SignalRealms \/ SkipHandover \/ Handover
    PROVE  ToldInv' /\ WriteInv' /\ SkipInv'
<1>0. /\ UNCHANGED <<latest, rv, reading, pc, target, asked, missed, block, upto, quiet>>
  BY DEF Collect, SkipRun, RunNotifiers, SignalRealms, SkipHandover, Handover, file, main, told, hist
<1>t. /\ block \subseteq Mine /\ skip \subseteq block /\ latest \in Nat /\ rv \in Nat
      /\ ver \in [Notifiers -> 0..latest] /\ Mine \subseteq Notifiers
      /\ skipv \in Nat /\ skipv <= latest
      /\ wpc \in {"idle", "skip", "skipped", "run", "ran", "signal"}
  BY DEF Types, NumTypes, QueryTypes, SetTypes, Mine, Main, New
<1>a. missed = {} /\ reading /\ \A n \in block : ToldOf(n)
  BY DEF ToldInv
<1>m. \A n \in skip : n \in Main \ wnew /\ n \notin Dead
  <2> SUFFICES ASSUME NEW n \in skip PROVE n \in Main \ wnew /\ n \notin Dead
    OBVIOUS
  <2>1. ran[n] /\ n \in Mine
    BY <1>t DEF SkipInv, SkipOf
  <2> QED BY <2>1 DEF Mine, New, Dead, RoundsInv, RoundInv
<1>1. CASE Collect \/ SkipRun \/ RunNotifiers \/ SignalRealms
  <2>1. UNCHANGED <<ver, ran, acc, skip>>
    BY <1>1 DEF Collect, SkipRun, RunNotifiers, SignalRealms, query, told
  <2>2. ToldInv'
    BY <1>0, <1>a, <2>1, ToldFrame DEF ToldInv
  <2>3. WriteInv'
    BY <1>0, <2>1, WriteFrame
  <2>4. ASSUME NEW n \in skip PROVE SkipOf(n)'
    <3>1. SkipOf(n) /\ ver[n] \in Nat
      BY <1>t DEF SkipInv
    <3>2. CASE SkipRun \/ RunNotifiers
      <4>1. NextVersion' = NextVersion /\ InRound'
        BY <3>2 DEF SkipRun, RunNotifiers, SkipTo, NextVersion, InRound
      <4> QED BY <1>0, <2>1, <3>1, <4>1 DEF SkipOf
    <3>3. CASE SignalRealms
      <4>1. NextVersion' = NextVersion /\ InRound' = InRound /\ skipv' = skipv
        BY <3>3 DEF SignalRealms, NextVersion, InRound
      <4> QED BY <1>0, <2>1, <3>1, <4>1 DEF SkipOf
    <3>4. CASE Collect
      <4>1. wpc = "idle" /\ ~InRound /\ NextVersion = skipv
        BY <3>4 DEF Collect, InRound, NextVersion
      <4>2. Main \ Dead # {}
        BY <1>m
      <4>3. CASE wpc' = "signal"
        <5>1. skipv' = skipv
          BY <3>4, <4>2, <4>3 DEF Collect
        <5>2. NextVersion' = NextVersion /\ ~InRound'
          BY <4>1, <4>3, <5>1 DEF NextVersion, InRound
        <5> QED BY <1>0, <2>1, <3>1, <4>1, <5>1, <5>2 DEF SkipOf
      <4>4. CASE wpc' = "skip"
        <5>1. wskip' = skipv
          BY <3>4, <4>2, <4>4 DEF Collect
        <5>2. NextVersion' = NextVersion /\ InRound'
          BY <4>1, <4>4, <5>1 DEF NextVersion, InRound
        <5> QED BY <1>0, <2>1, <3>1, <5>2 DEF SkipOf
      <4>5. CASE wpc' = "run"
        <5>1. wver' = latest /\ skipv = 0
          BY <3>4, <4>2, <4>5 DEF Collect
        <5>2. NextVersion' = latest /\ InRound'
          BY <4>5, <5>1 DEF NextVersion, InRound
        <5>3. pc = "commit"
          BY <3>1, <4>1, <5>1 DEF SkipOf
        <5>4. ver[n] = latest
          BY <1>t, <5>3 DEF WriteInv, WrittenOf
        <5>5. (ver[n] + 1) .. latest = {}
          BY <1>t, <5>4
        <5> QED BY <1>0, <2>1, <3>1, <5>2, <5>3, <5>5 DEF SkipOf
      <4> QED BY <3>4, <4>3, <4>4, <4>5 DEF Collect
    <3> QED BY <1>1, <3>2, <3>3, <3>4
  <2>5. SkipInv'
    BY <1>0, <2>1, <2>4 DEF SkipInv
  <2> QED BY <2>2, <2>3, <2>5
<1>2. CASE SkipHandover \/ Handover
  <2>0. ~use.idles
    BY DEF UsesTold
  <2>1. Main \ wnew \subseteq Computed /\ NextVersion = nsv
    BY <1>2 DEF SkipHandover, Handover, Computed, NextVersion, RoundsInv, RoundInv, InRound
  <2>2. skip' = {}
    <3>1. skip' = skip \ Computed
      BY <1>2 DEF SkipHandover, Handover, PrepareHandover, HandedOver, Computed
    <3> QED BY <1>m, <2>1, <3>1
  <2>3. SkipInv'
    BY <1>0, <2>2 DEF SkipInv
  <2>4. ASSUME NEW n \in block PROVE ToldOf(n)'
    <3> SUFFICES ASSUME upto[n] # 0 PROVE ToldOf(n)'
      BY <1>0 DEF ToldOf
    <3>1. /\ ver[n] \in Nat /\ nsv \in Nat /\ upto[n] \in Nat
      BY BlockValues
    <3>2. /\ ran[n] /\ Expected(n, ver[n]) \subseteq acc[n] /\ rv <= ver[n] + 1
          /\ ver[n] < rv => Expected(n, ver[n]) = {}
      BY <1>a DEF ToldOf
    <3>3. CASE n \notin Computed
      <4>1. ver'[n] = ver[n] /\ ran'[n] /\ acc'[n] = acc[n]
        BY <1>2, <2>0, <3>2, <3>3, BlockHandedOver
      <4> QED BY <1>0, <3>2, <4>1 DEF ToldOf, Expected
    <3>4. CASE n \in Computed
      <4>1. /\ ver'[n] = nsv /\ ran'[n] /\ ver[n] <= nsv
            /\ n \in skip => acc'[n] = acc[n]
            /\ n \notin skip => acc'[n] = acc[n] \cup ((ver[n] + 1) .. nsv)
        BY <1>2, <2>0, <3>2, <3>4, BlockHandedOver
      <4>2. n \in skip => (ver[n] + 1) .. nsv \subseteq quiet[n]
        BY <2>1 DEF SkipInv, SkipOf
      <4>3. Expected(n, nsv) \subseteq Expected(n, ver[n]) \cup (((ver[n] + 1) .. nsv) \ quiet[n])
        BY <3>1, <4>1 DEF Expected
      <4>4. Expected(n, nsv) \subseteq acc'[n]
        BY <3>2, <4>1, <4>2, <4>3
      <4>5. Expected(n, ver[n])' = Expected(n, nsv)
        BY <1>0, <4>1 DEF Expected
      <4>6. nsv < rv => nsv = ver[n]
        BY <1>t, <3>1, <3>2, <4>1
      <4>7. rv <= nsv + 1
        BY <1>t, <3>1, <3>2, <4>1
      <4> QED BY <1>0, <3>2, <4>1, <4>4, <4>5, <4>6, <4>7 DEF ToldOf
    <3> QED BY <3>3, <3>4
  <2>5. ASSUME pc \in {"write", "commit"}, NEW n \in block PROVE WrittenOf(n)'
    <3>1. WrittenOf(n)
      BY <2>5 DEF WriteInv
    <3>2. nsv \in Nat /\ nsv <= latest
      BY BlockValues
    <3>3. ver'[n] = ver[n] /\ ran'[n]
      <4>1. n \in Computed => ver'[n] = nsv /\ ran'[n] /\ ver[n] <= nsv
        BY <1>2, <2>0, <3>1, BlockHandedOver DEF WrittenOf
      <4>2. n \notin Computed => ver'[n] = ver[n] /\ ran'[n]
        BY <1>2, <2>0, <3>1, BlockHandedOver DEF WrittenOf
      <4> QED BY <1>t, <3>1, <3>2, <4>1, <4>2 DEF WrittenOf
    <3> QED BY <1>0, <3>1, <3>3 DEF WrittenOf, Expected
  <2>6. WriteInv'
    BY <1>0, <2>5 DEF WriteInv
  <2> QED BY <1>0, <1>a, <2>3, <2>4, <2>6 DEF ToldInv
<1> QED BY <1>1, <1>2

LEMMA MissedAdd ==
    ASSUME Types, RoundsInv, UsesTold, ToldInv, WriteInv, SkipInv, UNCHANGED use,
           NEW n \in use.observes, AddBlock(n) \/ EvaluateQuery(n) \/ Unregister(n)
    PROVE  ToldInv' /\ WriteInv' /\ SkipInv'
<1>0. /\ UNCHANGED <<latest, rv, reading, pc, target, asked, missed>>
      /\ UNCHANGED <<wpc, wver, wskip, nsv, skipv>>
  BY DEF AddBlock, EvaluateQuery, Unregister, file, main, hist, worker
<1>t. /\ n \in Notifiers /\ skip \subseteq block /\ block \subseteq Notifiers
      /\ \A m \in block : place[m] # "none"
  BY UseTypes, BlockValues DEF Types, NumTypes, SetTypes, Mine, Main, New
<1>1. CASE Unregister(n)
  <2>1. UNCHANGED <<ver, ran, block, skip, upto, acc, quiet>>
    BY <1>1 DEF Unregister
  <2> QED BY <1>0, <1>t, <2>1, MissedFrame
<1>r. ASSUME AddBlock(n) \/ EvaluateQuery(n), NEW m \in block, m # n \/ EvaluateQuery(n)
      PROVE  /\ ver'[m] = ver[m] /\ (ran'[m] = ran[m]) /\ upto'[m] = upto[m]
             /\ acc'[m] = acc[m] /\ quiet'[m] = quiet[m]
  <2>1. ver'[m] = ver[m] /\ (ran'[m] = ran[m])
    BY <1>t, <1>r DEF AddBlock, EvaluateQuery, RegisterNotifier, query, Types, QueryTypes
  <2>2. upto'[m] = upto[m] /\ acc'[m] = acc[m] /\ quiet'[m] = quiet[m]
    BY <1>t, <1>r DEF AddBlock, EvaluateQuery, With
  <2> QED BY <2>1, <2>2
<1>2. CASE EvaluateQuery(n)
  <2>1. UNCHANGED <<block, skip>>
    BY <1>2 DEF EvaluateQuery
  <2> QED BY <1>0, <1>t, <1>2, <1>r, <2>1, MissedFrame
<1>3. CASE AddBlock(n)
  <2>1. /\ block' = block \cup {n} /\ n \notin block /\ skip' \subseteq skip /\ pc = "idle"
        /\ upto'[n] = 0
    BY <1>t, <1>3 DEF AddBlock, With
  <2>2. \A m \in block : /\ ver'[m] = ver[m] /\ (ran'[m] = ran[m]) /\ upto'[m] = upto[m]
                         /\ acc'[m] = acc[m] /\ quiet'[m] = quiet[m]
    BY <1>3, <1>r, <2>1
  <2>3. \A m \in block : ToldOf(m)'
    BY <1>0, <2>2 DEF ToldInv, ToldOf, Expected
  <2>4. ToldOf(n)'
    BY <2>1 DEF ToldOf
  <2>5. ToldInv'
    BY <1>0, <2>1, <2>3, <2>4 DEF ToldInv
  <2>6. WriteInv'
    BY <1>0, <2>1 DEF WriteInv
  <2>7. SkipInv'
    BY <1>0, <1>t, <2>1, <2>2, SkipFrame DEF SkipInv
  <2> QED BY <2>5, <2>6, <2>7
<1> QED BY <1>1, <1>2, <1>3

LEMMA NextMissed ==
    ASSUME Types, RoundsInv, RowsInv, MissedInv, Next, UNCHANGED use
    PROVE  MissedInv'
<1> SUFFICES ASSUME UsesTold PROVE ToldInv' /\ WriteInv' /\ SkipInv'
  BY DEF MissedInv, UsesTold
<1> QED BY Steps, MissedDelivery, MissedPlain, MissedRounds, MissedAdd DEF MissedInv

LEMMA InitInv == Init => IInv
<1> SUFFICES ASSUME Init PROVE IInv
  OBVIOUS
<1>1. Mine = {} /\ block = {} /\ skip = {}
  BY DEF Init, Mine, Main, New, All
<1>2. WantedInv /\ RowsInv
  BY <1>1 DEF Init, WantedInv, RowsInv
<1>3. ExtraInv
  BY <1>1 DEF Init, ExtraInv, All
<1>4. MissedInv
  BY <1>1 DEF Init, MissedInv, ToldInv, WriteInv, SkipInv
<1> QED BY <1>2, <1>3, <1>4, InitMeet DEF IInv

LEMMA StepInv == ASSUME IInv, [Next /\ UNCHANGED use]_<<vars, use>> PROVE IInv'
<1>1. CASE Next /\ UNCHANGED use
  BY <1>1, StepMeet, NextWanted, NextRows, NextExtra, NextMissed DEF IInv, MeetInv
<1>2. CASE UNCHANGED <<vars, use>>
  <2> USE <1>2 DEF vars, file, wake, main, query, told, worker, hist, results
  <2>1. Mine' = Mine
    BY MineFrame
  <2>2. WantedInv'
    BY <2>1 DEF IInv, WantedInv
  <2>3. RowsInv'
    BY <2>1, RowsFrame DEF IInv
  <2>4. ExtraInv'
    BY DEF IInv, ExtraInv
  <2>5. MissedInv'
    BY MissedFrame DEF IInv, MeetInv, Types, SetTypes, MissedInv, UsesTold
  <2> QED BY <2>2, <2>3, <2>4, <2>5, StepMeet DEF IInv
<1> QED BY <1>1, <1>2

LEMMA Invariance == Spec => []IInv
BY InitInv, StepInv, PTL DEF Spec

(* After its initial notification a block is told of every transaction it is to be
   told of: package_for_delivery and the rounds of the worker lose none, whatever
   is dropped, skipped, removed and added again, except where the application
   invalidates, leaves Results unused, or suppresses and has commits fail. *)
THEOREM NoneMissed == Spec => []NothingMissed
<1>1. IInv => NothingMissed
  BY UseTypes DEF IInv, MeetInv, Types, NumTypes, MissedInv, UsesTold, ToldInv, NothingMissed
<1> QED BY <1>1, Invariance, PTL

(* A block is told of no transaction twice, and of none from before its initial
   notification, except where the application suppresses or leaves Results unused. *)
THEOREM NoneExtra == Spec => []NothingExtra
<1>1. IInv => NothingExtra
  BY UseTypes DEF IInv, MeetInv, Types, NumTypes, ExtraInv, NothingExtra
<1> QED BY <1>1, Invariance, PTL

=============================================================================
