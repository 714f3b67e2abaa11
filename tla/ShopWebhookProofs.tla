------------------------- MODULE ShopWebhookProofs --------------------------
(* Proofs about the installation of a shop, about the webhooks that are      *)
(* published for it while it is installed, and about the customer that is    *)
(* read from a consent's body.                                               *)
EXTENDS ShopLifecycle, WebhookIngress, ConsentIdentity, FiniteSetTheorems, SequenceTheorems,
        WellFoundedInduction, TLAPS

-----------------------------------------------------------------------------
(* Proofs about ShopLifecycle, for any number of requests, schedules and     *)
(* rows.  A request decides on a row it read earlier; what keeps its         *)
(* decision harmless is that a row is uninstalled exactly while it has left, *)
(* which the locked transactions check again, so LeftRows is what makes the  *)
(* invariants of the module inductive.                                       *)

(* Without a row nothing of one is left over, and a row has uninstalledAt     *)
(* exactly while it is uninstalled.                                           *)
LeftRows ==
  /\ row.id = 0 => row = NoRow
  /\ row.id # 0 => (row.left <=> row.status = "UNINSTALLED")

(* The row is one that was created, and a request about to publish a job has  *)
(* admitted a row and a schedule that exist.                                  *)
KnownRows ==
  /\ row.id <= rows
  /\ \A v \in Visits : visit[v].pc = "enqueue" =>
       visit[v].seen.id \in 1..rows /\ visit[v].schedule # 0

IInv ==
  /\ TypeOK
  /\ LeftRows
  /\ KnownRows
  /\ PendingOnlyWhileUninstalled
  /\ UninstalledWantsNoSync

-----------------------------------------------------------------------------
(* The requests' records, with schedules up to n.                             *)
VisitRecords(n) ==
  [pc : {"idle", "resolve", "provision", "route", "begin", "retry", "enqueue"},
   entry : {"auth", "form"}, seen : Rows, hadSub : BOOLEAN, schedule : 0..n]

(* The two ways in which a reinstallation's marker is taken away.             *)
LEMMA RowLeaves ==
  ASSUME row \in Rows, row' = [row EXCEPT !.status = "UNINSTALLED", !.left = TRUE, !.pending = 0]
  PROVE  row' \in Rows /\ row'.id = row.id /\ row'.status = "UNINSTALLED" /\ row'.left /\ row'.pending = 0
  <1>1. 0 \in 0..MaxStamps
    BY BoundsAssumption
  <1>2. [row EXCEPT !.status = "UNINSTALLED", !.left = TRUE, !.pending = 0] \in Rows
    BY <1>1 DEF Rows
  <1> QED
    BY <1>2 DEF Rows

LEMMA RowReturns ==
  ASSUME row \in Rows, row' = [row EXCEPT !.status = "ACTIVE", !.left = FALSE, !.pending = 0]
  PROVE  row' \in Rows /\ row'.id = row.id /\ row'.status = "ACTIVE" /\ ~row'.left /\ row'.pending = 0
  <1>1. 0 \in 0..MaxStamps
    BY BoundsAssumption
  <1>2. [row EXCEPT !.status = "ACTIVE", !.left = FALSE, !.pending = 0] \in Rows
    BY <1>1 DEF Rows
  <1> QED
    BY <1>2 DEF Rows

(* Initially there is no row, and every request is idle.                      *)
LEMMA InitialIInv == Init => IInv
  <1> SUFFICES ASSUME Init PROVE IInv
    OBVIOUS
  <1> USE BoundsAssumption
  <1>1. TypeOK
    <2>1. NoRow \in Rows /\ NoRow.pending <= stamp
      BY DEF Init, NoRow, Rows
    <2>2. Idle \in VisitRecords(0)
      BY <2>1 DEF Idle, VisitRecords
    <2>3. visit \in [Visits -> VisitRecords(stamp)]
      BY <2>2 DEF Init
    <2>4. sub \in [row : BOOLEAN, live : BOOLEAN, next : 0..stamp]
      BY DEF Init, NoSub
    <2>5. jobs \subseteq (1..rows) \X (1..stamp)
      BY DEF Init
    <2>6. /\ settings \in BOOLEAN /\ scope \in BOOLEAN /\ emitted \in BOOLEAN
          /\ session \in {"none", "stale", "usable"}
          /\ catalogue \in {"NONE", "UNAVAILABLE", "SYNC_REQUIRED"}
      BY DEF Init
    <2>7. stamp \in 0..MaxStamps /\ rows \in 0..MaxRows /\ activating \in 0..MaxRows
      BY DEF Init
    <2>8. row \in Rows /\ row.pending <= stamp
      BY <2>1 DEF Init
    <2> QED
      BY <2>3, <2>4, <2>5, <2>6, <2>7, <2>8 DEF TypeOK, VisitRecords
  <1>2. LeftRows /\ KnownRows
    BY DEF Init, LeftRows, KnownRows, NoRow, Idle
  <1>3. PendingOnlyWhileUninstalled /\ UninstalledWantsNoSync
    BY DEF Init, PendingOnlyWhileUninstalled, UninstalledWantsNoSync, NoRow
  <1> QED
    BY <1>1, <1>2, <1>3 DEF IInv

(* A step that leaves the rows, the catalogue, the jobs and the clock alone   *)
(* keeps the invariant if it moves requests within their types, never straight *)
(* to the publication.                                                        *)
LEMMA RequestMoves ==
  ASSUME IInv, UNCHANGED <<domain, catalogue, jobs, clock, emitted, activating>>,
         session' \in {"none", "stale", "usable"}, scope' \in BOOLEAN,
         NEW v \in Visits, NEW next \in VisitRecords(stamp),
         visit' = [visit EXCEPT ![v] = next],
         next.pc = "enqueue" => next.seen.id \in 1..rows /\ next.schedule # 0
  PROVE  IInv'
  <1> USE DEF IInv, domain, clock
  <1>1. visit \in [Visits -> VisitRecords(stamp)]
    BY DEF TypeOK, VisitRecords
  <1>2. visit' \in [Visits -> VisitRecords(stamp)]
    BY <1>1
  <1>3. TypeOK'
    BY <1>2 DEF TypeOK, VisitRecords
  <1>4. LeftRows' /\ PendingOnlyWhileUninstalled' /\ UninstalledWantsNoSync'
    BY DEF LeftRows, PendingOnlyWhileUninstalled, UninstalledWantsNoSync
  <1>5. KnownRows'
    BY <1>1 DEF KnownRows, TypeOK
  <1> QED
    BY <1>3, <1>4, <1>5

(* The steps of a request that do not write the rows.                         *)
LEMMA RequestStep ==
  ASSUME IInv, NEW v \in Visits,
         (\E entry \in {"auth", "form"} : Enter(v, entry)) \/ ReadRows(v) \/ Route(v) \/ Drop(v)
  PROVE  IInv'
  <1> USE DEF IInv
  <1>1. visit \in [Visits -> VisitRecords(stamp)] /\ visit[v] \in VisitRecords(stamp)
    BY DEF TypeOK, VisitRecords
  <1>2. row \in Rows /\ NoRow \in Rows /\ stamp \in Nat /\ sub.row \in BOOLEAN
    BY BoundsAssumption DEF TypeOK, Rows, NoRow
  <1>3. session \in {"none", "stale", "usable"} /\ scope \in BOOLEAN
    BY DEF TypeOK
  <1>4. Idle \in VisitRecords(stamp) /\ Idle.pc = "idle"
    BY <1>2 DEF Idle, VisitRecords
  <1>5. ASSUME NEW entry \in {"auth", "form"}, Enter(v, entry) PROVE IInv'
    <2> DEFINE next == [Idle EXCEPT !.pc = "resolve", !.entry = entry]
    <2>1. next \in VisitRecords(stamp) /\ next.pc # "enqueue"
      BY <1>4 DEF VisitRecords, Idle
    <2>2. session' \in {"none", "stale", "usable"} /\ scope' \in BOOLEAN
      BY <1>3, <1>5 DEF Enter, credentials
    <2> HIDE DEF next
    <2> QED
      BY <1>5, <2>1, <2>2, RequestMoves DEF Enter, next
  <1>6. CASE ReadRows(v)
    <2> PICK pc \in {"route", "provision"} :
          visit' = [visit EXCEPT ![v].seen = row, ![v].hadSub = sub.row, ![v].pc = pc]
      BY <1>6 DEF ReadRows
    <2> DEFINE next == [visit[v] EXCEPT !.seen = row, !.hadSub = sub.row, !.pc = pc]
    <2>1. next \in VisitRecords(stamp) /\ next.pc # "enqueue"
      BY <1>1, <1>2 DEF VisitRecords
    <2>2. visit' = [visit EXCEPT ![v] = next]
      BY <1>1
    <2> HIDE DEF next
    <2> QED
      BY <1>3, <1>6, <2>1, <2>2, RequestMoves DEF ReadRows, credentials
  <1>7. CASE Route(v)
    <2> PICK next \in VisitRecords(stamp) : next.pc # "enqueue" /\ visit' = [visit EXCEPT ![v] = next]
      <3>1. CASE Leave(v)
        BY <1>4, <3>1 DEF Leave
      <3>2. ASSUME NEW pc \in {"retry", "begin"}, Go(v, pc)
            PROVE  \E next \in VisitRecords(stamp) : next.pc # "enqueue" /\ visit' = [visit EXCEPT ![v] = next]
        <4>1. [visit[v] EXCEPT !.pc = pc] \in VisitRecords(stamp) /\ [visit[v] EXCEPT !.pc = pc].pc # "enqueue"
          BY <1>1 DEF VisitRecords
        <4> QED
          BY <3>2, <4>1 DEF Go
      <3> QED
        BY <1>7, <3>1, <3>2 DEF Route
    <2> QED
      BY <1>3, <1>7, RequestMoves DEF Route, credentials
  <1>8. CASE Drop(v)
    BY <1>3, <1>4, <1>8, RequestMoves DEF Drop, Leave, credentials
  <1> QED
    BY <1>5, <1>6, <1>7, <1>8

(* An admission writes its marker and its schedule on an uninstalled row.     *)
LEMMA AdmissionStep ==
  ASSUME IInv, NEW v \in Visits, MayAdmit(v), Schedule(v, stamp + 1),
         UNCHANGED <<settings, credentials, catalogue, jobs, rows, emitted, activating>>
  PROVE  IInv'
  <1> USE DEF IInv, credentials
  <1>1. stamp \in Nat /\ stamp' = stamp + 1 /\ stamp' \in 0..MaxStamps /\ rows \in Nat
    BY BoundsAssumption DEF TypeOK, Schedule
  <1>2. row' \in Rows /\ row'.pending = stamp' /\ row'.id = row.id
        /\ row'.status = row.status /\ row'.left = row.left
    BY <1>1 DEF TypeOK, Schedule, Rows
  <1>3. sub' \in [row : BOOLEAN, live : BOOLEAN, next : 0..stamp']
    BY <1>1 DEF TypeOK, Schedule
  <1>4. visit \in [Visits -> VisitRecords(stamp)]
    BY DEF TypeOK, VisitRecords
  <1>5. visit[v].seen.id = row.id /\ row.id \in 1..rows
    BY <1>1 DEF MayAdmit, KnownRows, TypeOK, Rows
  <1>6. visit' \in [Visits -> VisitRecords(stamp')]
    <2>1. \A u \in Visits : visit[u] \in VisitRecords(stamp')
      BY <1>1, <1>4 DEF VisitRecords
    <2> DEFINE next == [visit[v] EXCEPT !.pc = "enqueue", !.schedule = stamp + 1]
    <2>2. next \in VisitRecords(stamp')
      <3>1. stamp + 1 \in 0..stamp'
        BY <1>1
      <3> QED
        BY <2>1, <3>1 DEF VisitRecords
    <2>3. visit' = [visit EXCEPT ![v] = next]
      BY <1>4 DEF Schedule
    <2> HIDE DEF next
    <2> QED
      BY <1>4, <2>1, <2>2, <2>3
  <1>7. jobs' \subseteq (1..rows') \X (1..stamp')
    BY <1>1 DEF TypeOK
  <1>8. TypeOK'
    BY <1>1, <1>2, <1>3, <1>6, <1>7 DEF TypeOK, VisitRecords
  <1>9. KnownRows'
    BY <1>1, <1>2, <1>4, <1>5 DEF KnownRows, Schedule, VisitRecords
  <1>10. LeftRows' /\ PendingOnlyWhileUninstalled' /\ UninstalledWantsNoSync'
    BY <1>2, <1>5 DEF LeftRows, PendingOnlyWhileUninstalled, UninstalledWantsNoSync, MayAdmit, TypeOK, Rows
  <1> QED
    BY <1>8, <1>9, <1>10

(* The steps of a request that write the rows or the queue.                   *)
LEMMA ServingStep ==
  ASSUME IInv, NEW v \in Visits, Provision(v) \/ Begin(v) \/ Retry(v) \/ Enqueue(v)
  PROVE  IInv'
  <1> USE DEF IInv
  <1>1. visit \in [Visits -> VisitRecords(stamp)] /\ visit[v] \in VisitRecords(stamp)
    BY DEF TypeOK, VisitRecords
  <1>2. /\ row \in Rows /\ NoRow \in Rows /\ stamp \in Nat /\ rows \in Nat
        /\ row.id \in Nat /\ row.id <= rows
    BY BoundsAssumption DEF TypeOK, Rows, NoRow, KnownRows
  <1>3. session \in {"none", "stale", "usable"} /\ scope \in BOOLEAN
    BY DEF TypeOK
  <1>4. Idle \in VisitRecords(stamp) /\ Idle.pc = "idle"
    BY <1>2 DEF Idle, VisitRecords
  <1>5. CASE Provision(v)
    <2>1. rows' \in 0..MaxRows /\ rows <= rows' /\ rows' \in Nat
      BY <1>2, <1>5, BoundsAssumption DEF Provision, TypeOK
    <2>2. row' \in Rows /\ row'.pending <= stamp /\ row'.id \in 1..rows'
      <3>1. CASE row.id # 0
        BY <1>2, <1>5, <3>1 DEF Provision, TypeOK
      <3>2. CASE row.id = 0
        BY <1>2, <1>5, <2>1, <3>2, BoundsAssumption DEF Provision, NewRow, NoRow, Rows, TypeOK
      <3> QED
        BY <3>1, <3>2
    <2>3. /\ row.id # 0 => row' = row
          /\ row.id = 0 => row'.status = "ACTIVE" /\ ~row'.left /\ row'.pending = 0 /\ row'.id # 0
      BY <1>2, <1>5 DEF Provision, NewRow, NoRow
    <2>4. sub' \in [row : BOOLEAN, live : BOOLEAN, next : 0..stamp]
      <3>1. sub' = sub \/ sub' = [NoSub EXCEPT !.row = TRUE]
        BY <1>5 DEF Provision
      <3>2. 0 \in 0..stamp
        BY <1>2
      <3>3. [NoSub EXCEPT !.row = TRUE] \in [row : BOOLEAN, live : BOOLEAN, next : 0..stamp]
        BY <3>2 DEF NoSub
      <3> QED
        BY <3>1, <3>3 DEF TypeOK
    <2>5. visit' \in [Visits -> VisitRecords(stamp)]
      BY <1>1, <1>5, <2>2 DEF Provision, VisitRecords
    <2>6. jobs' \subseteq (1..rows') \X (1..stamp)
      BY <1>2, <1>5, <2>1 DEF Provision, TypeOK
    <2>7. settings' \in BOOLEAN
      BY <1>5 DEF Provision
    <2>8. TypeOK'
      BY <1>5, <2>1, <2>2, <2>4, <2>5, <2>6, <2>7 DEF TypeOK, VisitRecords, Provision, credentials
    <2>9. LeftRows' /\ PendingOnlyWhileUninstalled' /\ UninstalledWantsNoSync'
      BY <1>5, <2>3 DEF Provision, LeftRows, PendingOnlyWhileUninstalled, UninstalledWantsNoSync
    <2>10. KnownRows'
      BY <1>1, <1>2, <1>5, <2>1, <2>2 DEF Provision, KnownRows, VisitRecords
    <2> QED
      BY <2>8, <2>9, <2>10
  <1>6. CASE Begin(v)
    <2>1. CASE MayAdmit(v) /\ row.pending = 0
      BY <1>6, <2>1, AdmissionStep DEF Begin
    <2>2. CASE MayAdmit(v) /\ row.pending # 0 /\ sub.next # 0
      <3> DEFINE next == [visit[v] EXCEPT !.pc = "enqueue", !.schedule = sub.next]
      <3>1. next \in VisitRecords(stamp)
        BY <1>1, <1>2 DEF VisitRecords, TypeOK
      <3>2. next.seen.id \in 1..rows /\ next.schedule # 0
        BY <1>1, <1>2, <2>2 DEF MayAdmit, VisitRecords
      <3>3. visit' = [visit EXCEPT ![v] = next] /\ UNCHANGED <<row, sub, stamp>>
        BY <1>1, <1>6, <2>2 DEF Begin
      <3> HIDE DEF next
      <3> QED
        BY <1>3, <1>6, <3>1, <3>2, <3>3, RequestMoves DEF Begin, credentials, domain, clock
    <2>3. CASE ~(MayAdmit(v) /\ row.pending = 0) /\ ~(MayAdmit(v) /\ row.pending # 0 /\ sub.next # 0)
      BY <1>3, <1>4, <1>6, <2>3, RequestMoves DEF Begin, Leave, credentials, domain, clock
    <2> QED
      BY <2>1, <2>2, <2>3
  <1>7. CASE Retry(v)
    <2>1. CASE MayAdmit(v) /\ row.pending # 0 /\ sub.next = 0
      BY <1>7, <2>1, AdmissionStep DEF Retry
    <2>2. CASE ~(MayAdmit(v) /\ row.pending # 0 /\ sub.next = 0)
      BY <1>3, <1>4, <1>7, <2>2, RequestMoves DEF Retry, Leave, credentials, domain, clock
    <2> QED
      BY <2>1, <2>2
  <1>8. CASE Enqueue(v)
    <2>1. <<visit[v].seen.id, visit[v].schedule>> \in (1..rows) \X (1..stamp)
      BY <1>1, <1>2, <1>8 DEF Enqueue, KnownRows, VisitRecords
    <2>2. jobs' \subseteq (1..rows) \X (1..stamp)
      BY <1>8, <2>1 DEF Enqueue, TypeOK
    <2>3. visit' \in [Visits -> VisitRecords(stamp)]
      BY <1>1, <1>4, <1>8 DEF Enqueue, Leave
    <2>4. TypeOK'
      BY <1>8, <2>2, <2>3 DEF Enqueue, TypeOK, VisitRecords, domain, credentials, clock
    <2>5. KnownRows'
      BY <1>1, <1>4, <1>8 DEF Enqueue, Leave, KnownRows, domain, clock
    <2>6. LeftRows' /\ PendingOnlyWhileUninstalled' /\ UninstalledWantsNoSync'
      BY <1>8 DEF Enqueue, LeftRows, PendingOnlyWhileUninstalled, UninstalledWantsNoSync, domain
    <2> QED
      BY <2>4, <2>5, <2>6
  <1> QED
    BY <1>5, <1>6, <1>7, <1>8

(* Deliveries and scope changes: each sees the row as it is under the lock.   *)
LEMMA WebhookStep ==
  ASSUME IInv,
         MerchantUninstalls \/ markUninstalled \/ Redact
         \/ (\E granted \in BOOLEAN : ScopesUpdate(granted)) \/ ActivatedSync
  PROVE  IInv'
  <1> USE DEF IInv
  <1>1. row \in Rows /\ stamp \in Nat /\ rows \in Nat /\ NoRow \in Rows /\ row.pending <= stamp
    BY BoundsAssumption DEF TypeOK, Rows, NoRow
  <1>2. CASE MerchantUninstalls
    BY <1>2 DEF MerchantUninstalls, TypeOK, LeftRows, KnownRows, PendingOnlyWhileUninstalled,
         UninstalledWantsNoSync, domain, credentials, clock
  <1>3. CASE markUninstalled
    <2>1. row' = row \/ row' = [row EXCEPT !.status = "UNINSTALLED", !.left = TRUE, !.pending = 0]
      BY <1>3 DEF markUninstalled
    <2>2. row' \in Rows /\ row'.pending <= stamp /\ row'.id = row.id
      BY <1>1, <2>1, RowLeaves
    <2>3. row'.status = "UNINSTALLED" /\ row'.left
      BY <1>1, <1>3, <2>1, RowLeaves DEF LeftRows, markUninstalled, UninstallDelivered
    <2>4. session' \in {"none", "stale", "usable"} /\ catalogue' = "UNAVAILABLE"
      BY <1>3 DEF markUninstalled, TypeOK
    <2>5. TypeOK'
      BY <1>3, <2>2, <2>4 DEF markUninstalled, TypeOK, clock
    <2>6. LeftRows' /\ PendingOnlyWhileUninstalled' /\ UninstalledWantsNoSync' /\ KnownRows'
      BY <1>1, <1>3, <2>2, <2>3, <2>4 DEF markUninstalled, UninstallDelivered, LeftRows,
           PendingOnlyWhileUninstalled, UninstalledWantsNoSync, KnownRows, clock
    <2> QED
      BY <2>5, <2>6
  <1>4. CASE Redact
    <2>1. NoRow.id = 0 /\ NoRow.pending = 0 /\ NoRow.id <= rows /\ NoRow.pending <= stamp
      BY <1>1 DEF NoRow
    <2>2. NoSub \in [row : BOOLEAN, live : BOOLEAN, next : 0..stamp]
      BY <1>1 DEF NoSub
    <2>3. TypeOK'
      BY <1>1, <1>4, <2>1, <2>2 DEF Redact, TypeOK, clock
    <2>4. LeftRows' /\ PendingOnlyWhileUninstalled' /\ UninstalledWantsNoSync' /\ KnownRows'
      BY <1>1, <1>4, <2>1 DEF Redact, LeftRows, PendingOnlyWhileUninstalled,
           UninstalledWantsNoSync, KnownRows, clock
    <2> QED
      BY <2>3, <2>4
  <1>5. ASSUME NEW granted \in BOOLEAN, ScopesUpdate(granted) PROVE IInv'
    <2>1. /\ catalogue' \in {"NONE", "UNAVAILABLE", "SYNC_REQUIRED"}
          /\ catalogue' = "SYNC_REQUIRED" => row.status = "ACTIVE" \/ catalogue' = catalogue
      BY <1>5 DEF ScopesUpdate, isDiscountSyncEligible, TypeOK
    <2>2. scope' \in BOOLEAN
      BY <1>5 DEF ScopesUpdate, TypeOK
    <2>3. TypeOK'
      BY <1>5, <2>1, <2>2 DEF ScopesUpdate, TypeOK, domain, clock
    <2>4. LeftRows' /\ PendingOnlyWhileUninstalled' /\ UninstalledWantsNoSync' /\ KnownRows'
      BY <1>5, <2>1 DEF ScopesUpdate, LeftRows, PendingOnlyWhileUninstalled,
           UninstalledWantsNoSync, KnownRows, domain, clock
    <2> QED
      BY <2>3, <2>4
  <1>6. CASE ActivatedSync
    <2>1. /\ catalogue' \in {"NONE", "UNAVAILABLE", "SYNC_REQUIRED"}
          /\ catalogue' = "SYNC_REQUIRED" => row.status = "ACTIVE" \/ catalogue' = catalogue
      BY <1>6 DEF ActivatedSync, isDiscountSyncEligible, TypeOK
    <2>2. activating' \in 0..MaxRows
      BY <1>6, BoundsAssumption DEF ActivatedSync
    <2>3. TypeOK'
      BY <1>6, <2>1, <2>2 DEF ActivatedSync, TypeOK, domain, credentials, clock
    <2>4. LeftRows' /\ PendingOnlyWhileUninstalled' /\ UninstalledWantsNoSync' /\ KnownRows'
      BY <1>6, <2>1 DEF ActivatedSync, LeftRows, PendingOnlyWhileUninstalled,
           UninstalledWantsNoSync, KnownRows, domain, clock
    <2> QED
      BY <2>3, <2>4
  <1> QED
    BY <1>2, <1>3, <1>4, <1>5, <1>6

(* Billing, support, Shopify's credentials and the reconciliation worker.     *)
LEMMA OutsideStep ==
  ASSUME IInv, SubscriptionMoves \/ Suspension \/ CredentialsAge \/ Reconcile
  PROVE  IInv'
  <1> USE DEF IInv
  <1>1. /\ row \in Rows /\ stamp \in Nat /\ rows \in Nat /\ row.pending <= stamp
        /\ row.id \in 0..MaxRows
    BY BoundsAssumption DEF TypeOK, Rows
  <1>2. CASE SubscriptionMoves
    <2>1. sub' \in [row : BOOLEAN, live : BOOLEAN, next : 0..stamp]
      BY <1>2 DEF SubscriptionMoves, TypeOK
    <2>2. activating' \in 0..MaxRows
      BY <1>1, <1>2 DEF SubscriptionMoves, TypeOK
    <2>3. TypeOK'
      BY <1>2, <2>1, <2>2 DEF SubscriptionMoves, TypeOK, credentials, clock
    <2>4. LeftRows' /\ PendingOnlyWhileUninstalled' /\ UninstalledWantsNoSync' /\ KnownRows'
      BY <1>2 DEF SubscriptionMoves, LeftRows, PendingOnlyWhileUninstalled,
           UninstalledWantsNoSync, KnownRows, clock
    <2> QED
      BY <2>3, <2>4
  <1>3. CASE Suspension
    <2>1. /\ row' \in Rows /\ row'.pending = row.pending /\ row'.id = row.id /\ row'.left = row.left
          /\ row'.status \in {"ACTIVE", "SUSPENDED"} /\ row.id # 0 /\ row.status # "UNINSTALLED"
      BY <1>1, <1>3 DEF Suspension, Rows
    <2>2. TypeOK'
      BY <1>1, <1>3, <2>1 DEF Suspension, TypeOK, credentials, clock
    <2>3. LeftRows' /\ PendingOnlyWhileUninstalled' /\ UninstalledWantsNoSync' /\ KnownRows'
      BY <1>1, <1>3, <2>1 DEF Suspension, LeftRows, PendingOnlyWhileUninstalled,
           UninstalledWantsNoSync, KnownRows, clock
    <2> QED
      BY <2>2, <2>3
  <1>4. CASE CredentialsAge
    BY <1>4 DEF CredentialsAge, TypeOK, LeftRows, KnownRows, PendingOnlyWhileUninstalled,
         UninstalledWantsNoSync, domain, clock
  <1>5. CASE Reconcile
    <2>1. /\ jobs' \subseteq jobs
          /\ UNCHANGED <<settings, credentials, catalogue, clock, emitted, visit, activating>>
      BY <1>5 DEF Reconcile
    <2>2. sub' = sub \/ sub' = [sub EXCEPT !.next = 0]
      BY <1>5 DEF Reconcile
    <2>3. \/ row' = row
          \/ row.pending # 0 /\ row' = [row EXCEPT !.status = "ACTIVE", !.left = FALSE, !.pending = 0]
      BY <1>5 DEF Reconcile
    <2>4. row' \in Rows /\ row'.pending <= stamp /\ row'.id = row.id
      BY <1>1, <2>3, RowReturns
    <2>5. sub' \in [row : BOOLEAN, live : BOOLEAN, next : 0..stamp]
      BY <1>1, <2>2 DEF TypeOK
    <2>6. TypeOK'
      BY <2>1, <2>4, <2>5 DEF TypeOK, credentials, clock
    <2>7. row.pending # 0 => row.id # 0
      BY DEF LeftRows, NoRow
    <2>8. LeftRows' /\ PendingOnlyWhileUninstalled' /\ UninstalledWantsNoSync' /\ KnownRows'
      BY <1>1, <2>1, <2>3, <2>4, <2>7, RowReturns DEF LeftRows, PendingOnlyWhileUninstalled,
           UninstalledWantsNoSync, KnownRows, clock
    <2> QED
      BY <2>6, <2>8
  <1> QED
    BY <1>2, <1>3, <1>4, <1>5

LEMMA Invariance == Spec => []IInv
  <1>1. IInv /\ UNCHANGED vars => IInv'
    BY DEF IInv, TypeOK, LeftRows, KnownRows, PendingOnlyWhileUninstalled, UninstalledWantsNoSync,
           vars, domain, credentials, clock
  <1>2. IInv /\ [Next]_vars => IInv'
    BY <1>1, RequestStep, ServingStep, WebhookStep, OutsideStep DEF Next, Serve
  <1> QED
    BY InitialIInv, <1>2, PTL DEF Spec

(* A shop is waiting for its reinstallation only while it is uninstalled, and *)
(* only the catalogue of an installed shop is waiting for a sync, whatever    *)
(* requests, deliveries and activations overtake each other.                  *)
THEOREM LifecycleHolds == Spec => []LifecycleInv
  <1>1. IInv => LifecycleInv
    BY DEF IInv, LifecycleInv
  <1> QED
    BY Invariance, <1>1, PTL

-----------------------------------------------------------------------------
(* Only the worker turns an uninstalled row into an active one, and only with *)
(* the job of the schedule that the row still has.                            *)
THEOREM AlwaysReactivatedByReconciliation == Spec => OnlyReconciliationReactivates
  <1> DEFINE A == row.status = "UNINSTALLED" /\ row'.status = "ACTIVE" /\ row'.id = row.id =>
                    row.pending # 0 /\ <<row.id, sub.next>> \in jobs \ jobs'
  <1>1. ASSUME IInv, Next, row.status = "UNINSTALLED", row'.status = "ACTIVE", row'.id = row.id
        PROVE  row.pending # 0 /\ <<row.id, sub.next>> \in jobs \ jobs'
    <2>1. /\ row \in Rows /\ rows \in Nat
      BY <1>1 DEF IInv, TypeOK
    <2>2. row' # row
      BY <1>1
    <2>3. ASSUME NEW v \in Visits, NEW marker, Schedule(v, marker) PROVE FALSE
      BY <1>1, <2>1, <2>3 DEF Schedule, Rows
    <2>4. ASSUME NEW v \in Visits, Provision(v) PROVE FALSE
      BY <1>1, <2>1, <2>2, <2>4 DEF Provision, NewRow, NoRow, Rows
    <2>5. CASE Reconcile
      BY <2>2, <2>5 DEF Reconcile
    <2>6. CASE markUninstalled
      BY <1>1, <2>1, <2>2, <2>6, RowLeaves DEF markUninstalled
    <2>7. CASE Redact \/ Suspension
      BY <1>1, <2>7 DEF Redact, NoRow, Suspension
    <2>8. ASSUME NEW v \in Visits, Begin(v) \/ Retry(v) PROVE FALSE
      BY <2>2, <2>3, <2>8 DEF Begin, Retry
    <2>9. ASSUME NEW v \in Visits,
                 (\E entry \in {"auth", "form"} : Enter(v, entry)) \/ ReadRows(v) \/ Route(v) \/ Enqueue(v) \/ Drop(v)
          PROVE  FALSE
      BY <2>2, <2>9 DEF Enter, ReadRows, Route, Enqueue, Drop, domain
    <2>10. CASE MerchantUninstalls \/ (\E granted \in BOOLEAN : ScopesUpdate(granted)) \/ ActivatedSync
                \/ SubscriptionMoves \/ CredentialsAge
      BY <2>2, <2>10 DEF MerchantUninstalls, ScopesUpdate, ActivatedSync, SubscriptionMoves, CredentialsAge, domain
    <2> QED
      BY <1>1, <2>4, <2>5, <2>6, <2>7, <2>8, <2>9, <2>10 DEF Next, Serve
  <1>2. IInv /\ [Next]_vars => A
    BY <1>1 DEF vars, domain
  <1>3. IInv /\ [Next]_vars => [A]_vars
    BY <1>2
  <1> QED
    BY Invariance, <1>3, PTL DEF Spec, OnlyReconciliationReactivates

(* While a reinstallation waits, no delivery that still arrives takes its     *)
(* marker or its new session away, unless the worker has brought it back.     *)
THEOREM RedeliveryAlwaysKeepsReinstallation == Spec => RedeliveryKeepsReinstallation
  <1> DEFINE A == row.pending # 0 /\ row'.id = row.id /\ row'.status = "UNINSTALLED" =>
                    row'.pending # 0 /\ (session # "none" => session' # "none")
  <1>1. ASSUME IInv, Next, row.pending # 0, row'.id = row.id, row'.status = "UNINSTALLED"
        PROVE  row'.pending # 0 /\ (session # "none" => session' # "none")
    <2>1. /\ row \in Rows /\ rows \in Nat /\ stamp \in Nat /\ row.id # 0
          /\ row.left /\ row.status = "UNINSTALLED"
      BY <1>1, BoundsAssumption DEF IInv, TypeOK, LeftRows, NoRow, PendingOnlyWhileUninstalled
    <2>2. ASSUME NEW v \in Visits, Schedule(v, stamp + 1) PROVE row'.pending # 0
      BY <2>1, <2>2 DEF Schedule, Rows
    <2>3. ASSUME NEW v \in Visits, Begin(v) \/ Retry(v)
          PROVE  row'.pending # 0 /\ session' = session
      BY <1>1, <2>2, <2>3 DEF Begin, Retry, credentials
    <2>4. ASSUME NEW v \in Visits, Provision(v)
          PROVE  row' = row /\ session' = session
      BY <2>1, <2>4 DEF Provision, credentials
    <2>5. ASSUME NEW v \in Visits, NEW entry \in {"auth", "form"}, Enter(v, entry)
          PROVE  row' = row /\ (session # "none" => session' # "none")
      BY <2>5 DEF Enter, domain, credentials
    <2>6. ASSUME NEW v \in Visits, ReadRows(v) \/ Route(v) \/ Enqueue(v) \/ Drop(v)
          PROVE  row' = row /\ session' = session
      BY <2>6 DEF ReadRows, Route, Enqueue, Drop, domain, credentials
    <2>7. CASE markUninstalled
      BY <1>1, <2>1, <2>7 DEF markUninstalled
    <2>8. CASE Redact \/ Suspension
      BY <1>1, <2>1, <2>8 DEF Redact, NoRow, Suspension
    <2>9. CASE Reconcile
      <3>1. row' = row
        BY <1>1, <2>1, <2>9, RowReturns DEF Reconcile
      <3> QED
        BY <1>1, <2>9, <3>1 DEF Reconcile, credentials
    <2>10. CASE MerchantUninstalls \/ (\E granted \in BOOLEAN : ScopesUpdate(granted)) \/ ActivatedSync
                \/ SubscriptionMoves \/ CredentialsAge
      BY <1>1, <2>10 DEF MerchantUninstalls, ScopesUpdate, ActivatedSync, SubscriptionMoves, CredentialsAge,
           domain, credentials
    <2> QED
      BY <1>1, <2>3, <2>4, <2>5, <2>6, <2>7, <2>8, <2>9, <2>10 DEF Next, Serve
  <1>2. IInv /\ [Next]_vars => A
    BY <1>1 DEF vars, domain, credentials
  <1>3. IInv /\ [Next]_vars => [A]_vars
    BY <1>2
  <1> QED
    BY Invariance, <1>3, PTL DEF Spec, RedeliveryKeepsReinstallation

-----------------------------------------------------------------------------
(* Proofs about WebhookIngress, for any number of requests, events,          *)
(* deliveries and crashes.  An add under way outlives its request and its    *)
(* process, so the invariant says of every place a job may still come from   *)
(* that its id names the subject of its event; and what was accepted stays   *)
(* in the queue until it is worked off.                                      *)

Steps == {"idle", "shop", "adding", "added", "answered"}

RequestShape(q) ==
  q \in [at : Steps, event : Events \cup {None}, try : Nat, id : {q.id}, late : BOOLEAN,
         outcome : Outcomes \cup {"none"}, wasActive : BOOLEAN, wasInactive : BOOLEAN]

(* The subject of e waits in a queue of these jobs, is retained there as      *)
(* failed, or is among those worked off.                                      *)
Kept(e, queue, done) == Subject[e] \in done \/ \E job \in queue : Subject[job.event] = Subject[e]

RequestOK(q, status, queue, done) ==
  /\ RequestShape(q)
  /\ q.at # "idle" => q.event \in Events
  /\ q.at = "shop" => /\ status = "ACTIVE" => q.wasActive
                      /\ status # "ACTIVE" => q.wasInactive
  /\ q.at \in {"idle", "shop"} => ~q.late
  /\ q.at \in {"adding", "added"} => q.id = JobId(q.event) /\ q.wasActive
  /\ (q.at = "answered") <=> (q.outcome \in Outcomes)
  /\ q.outcome = "QUEUE_ACCEPTED" => ~q.late /\ q.wasActive
  /\ q.outcome = "IGNORED_SHOP" => q.wasInactive
  /\ q.at = "added" \/ q.outcome = "QUEUE_ACCEPTED" => Kept(q.event, queue, done)

RequestsOK ==
  DOMAIN requests = Requests /\ \A r \in Requests : RequestOK(requests[r], shop, retained, processed)

Job(e, state) == [id |-> JobId(e), event |-> e, state |-> state]

JobsOK ==
  /\ \A job \in retained : \E e \in Events, state \in {"waiting", "failed"} : job = Job(e, state)
  /\ \A job, other \in retained : job.id = other.id => job = other

LateAddsOK == \A add \in lateAdds : \E e \in Events : add = [id |-> JobId(e), event |-> e]

DeliveryOK(e, delivery, queue, done) ==
  /\ delivery \in [state : {"due", "sent", "acknowledged", "dropped"}, tries : Nat,
                   outcome : Outcomes \cup {"none"}]
  /\ delivery.outcome = "QUEUE_ACCEPTED" => Kept(e, queue, done)

DeliveriesOK ==
  DOMAIN deliveries = Events /\ \A e \in Events : DeliveryOK(e, deliveries[e], retained, processed)

IngressIInv ==
  /\ shop \in {"none", "ACTIVE", "UNINSTALLED"}
  /\ RequestsOK
  /\ JobsOK
  /\ LateAddsOK
  /\ DeliveriesOK

-----------------------------------------------------------------------------
LEMMA IngressInitHolds == IngressInit => IngressIInv
<1> SUFFICES ASSUME IngressInit PROVE IngressIInv
  OBVIOUS
<1>1. RequestOK(IdleRequest, shop, retained, processed)
  BY DEF RequestOK, RequestShape, IdleRequest, Steps, Outcomes
<1>2. \A e \in Events : DeliveryOK(e, deliveries[e], retained, processed)
  BY DEF IngressInit, DeliveryOK
<1> QED
  BY <1>1, <1>2 DEF IngressInit, IngressIInv, RequestsOK, JobsOK, LateAddsOK, DeliveriesOK

(* What a queue keeps, a queue that has more and a larger set of subjects     *)
(* keep.                                                                      *)
Keeps(queue, done) == \A e \in Events : Kept(e, retained, processed) => Kept(e, queue, done)

(* Nothing that was accepted leaves: requests and deliveries stay what they   *)
(* are.                                                                       *)
LEMMA KeptByQueue ==
  ASSUME IngressIInv, Keeps(retained', processed')
  PROVE  /\ \A r \in Requests : RequestOK(requests[r], shop, retained', processed')
         /\ \A e \in Events : DeliveryOK(e, deliveries[e], retained', processed')
<1>1. ASSUME NEW r \in Requests PROVE RequestOK(requests[r], shop, retained', processed')
  BY DEF IngressIInv, RequestsOK, RequestOK, Keeps, Steps, Outcomes
<1>2. ASSUME NEW e \in Events PROVE DeliveryOK(e, deliveries[e], retained', processed')
  BY DEF IngressIInv, DeliveriesOK, DeliveryOK, Keeps
<1> QED  BY <1>1, <1>2

(* A step that moves one request and leaves the queue and the shop alone, or  *)
(* adds to the queue.                                                         *)
LEMMA OneRequest ==
  ASSUME IngressIInv, NEW r \in Requests, NEW next, Becomes(r, next), UNCHANGED shop,
         Keeps(retained', processed'), RequestOK(next, shop, retained', processed')
  PROVE  RequestsOK'
<1>1. /\ DOMAIN requests' = Requests
      /\ \A s \in Requests : requests'[s] = IF s = r THEN next ELSE requests[s]
  BY DEF Becomes, IngressIInv, RequestsOK
<1>2. \A s \in Requests : RequestOK(requests'[s], shop', retained', processed')
  BY <1>1, KeptByQueue
<1> QED  BY <1>1, <1>2 DEF RequestsOK

LEMMA QueueUnchanged ==
  ASSUME UNCHANGED <<retained, processed>> PROVE Keeps(retained', processed')
BY DEF Keeps

(* An answer keeps what the request was.                                      *)
LEMMA AnswerOK ==
  ASSUME NEW q, NEW outcome \in Outcomes, RequestOK(q, shop, retained, processed), q.at # "idle",
         outcome = "QUEUE_ACCEPTED" => ~q.late /\ q.wasActive /\ Kept(q.event, retained, processed),
         outcome = "IGNORED_SHOP" => q.wasInactive
  PROVE  RequestOK([q EXCEPT !.at = "answered", !.outcome = outcome], shop, retained, processed)
<1> DEFINE next == [q EXCEPT !.at = "answered", !.outcome = outcome]
<1>1. /\ RequestShape(next) /\ next.at = "answered" /\ next.outcome = outcome
      /\ next.event = q.event /\ next.late = q.late
      /\ next.wasActive = q.wasActive /\ next.wasInactive = q.wasInactive
  BY DEF RequestOK, RequestShape, Steps
<1> HIDE DEF next
<1>2. RequestOK(next, shop, retained, processed)
  BY <1>1 DEF RequestOK
<1> QED  BY <1>2 DEF next

LEMMA AnswerKeeps ==
  ASSUME IngressIInv, NEW r \in Requests, NEW outcome \in Outcomes, ~At(r, "idle"), Answer(r, outcome),
         outcome = "QUEUE_ACCEPTED" =>
           ~requests[r].late /\ requests[r].wasActive /\ Kept(requests[r].event, retained, processed),
         outcome = "IGNORED_SHOP" => requests[r].wasInactive,
         UNCHANGED <<shop, retained, processed>>
  PROVE  RequestsOK'
<1>1. RequestOK(requests[r], shop, retained, processed)
  BY DEF IngressIInv, RequestsOK
<1>2. RequestOK(Answered(r, outcome), shop, retained, processed)
  BY <1>1, AnswerOK DEF Answered, At
<1> QED  BY <1>2, QueueUnchanged, OneRequest DEF Answer

-----------------------------------------------------------------------------
(* One lemma per action.                                                      *)
LEMMA ReceiveKeeps ==
  ASSUME IngressIInv, NEW r \in Requests, NEW e \in Events, Receive(r, e) PROVE IngressIInv'
<1> DEFINE received == [IdleRequest EXCEPT !.at = "shop", !.event = e, !.try = deliveries[e].tries + 1,
                          !.wasActive = shop = "ACTIVE", !.wasInactive = shop # "ACTIVE"]
           answered(outcome) == [received EXCEPT !.at = "answered", !.outcome = outcome]
<1>1. DeliveryOK(e, deliveries[e], retained, processed)
  BY DEF IngressIInv, DeliveriesOK
<1>2. /\ RequestShape(received)
      /\ received.at = "shop" /\ received.event = e /\ ~received.late /\ received.outcome = "none"
      /\ received.wasActive = (shop = "ACTIVE") /\ received.wasInactive = (shop # "ACTIVE")
  <2> DEFINE try == deliveries[e].tries + 1
             active == shop = "ACTIVE"
             inactive == shop # "ACTIVE"
  <2>1. try \in Nat /\ active \in BOOLEAN /\ inactive \in BOOLEAN
    BY <1>1 DEF DeliveryOK
  <2> HIDE DEF try, active, inactive
  <2> DEFINE next == [IdleRequest EXCEPT !.at = "shop", !.event = e, !.try = try,
                        !.wasActive = active, !.wasInactive = inactive]
  <2>2. /\ RequestShape(next)
        /\ next.at = "shop" /\ next.event = e /\ ~next.late /\ next.outcome = "none"
        /\ next.wasActive = active /\ next.wasInactive = inactive
    BY <2>1 DEF RequestShape, IdleRequest, Steps
  <2> QED  BY <2>2 DEF try, active, inactive
<1> HIDE DEF received
<1>3. RequestOK(received, shop, retained, processed)
  BY <1>2 DEF RequestOK, Outcomes
<1>4. \A outcome \in {"REJECTED", "IGNORED"} : RequestOK(answered(outcome), shop, retained, processed)
  <2> SUFFICES ASSUME NEW outcome \in {"REJECTED", "IGNORED"}
               PROVE  RequestOK(answered(outcome), shop, retained, processed)
    OBVIOUS
  <2>1. received.at # "idle" /\ outcome \in Outcomes
    BY <1>2 DEF Outcomes
  <2> QED  BY <1>3, <2>1, AnswerOK
<1> HIDE DEF answered
<1>5. RequestsOK'
  <2>1. PICK next \in {received, answered("REJECTED"), answered("IGNORED")} : Becomes(r, next)
    BY DEF Receive, received, answered
  <2>2. RequestOK(next, shop, retained', processed') /\ UNCHANGED <<shop, retained, processed>>
    BY <1>3, <1>4 DEF Receive
  <2> QED  BY <2>1, <2>2, QueueUnchanged, OneRequest
<1>6. DeliveriesOK'
  <2> DEFINE old == deliveries[e]
             tries == old.tries + 1
             sent == [deliveries[e] EXCEPT !.state = "sent", !.tries = @ + 1]
  <2>1. DeliveryOK(e, sent, retained, processed)
    <3>1. tries \in Nat /\ sent = [old EXCEPT !.state = "sent", !.tries = tries]
      BY <1>1 DEF DeliveryOK
    <3> HIDE DEF old, tries, sent
    <3> QED  BY <1>1, <3>1 DEF DeliveryOK, old
  <2>2. deliveries' = [deliveries EXCEPT ![e] = sent]
    BY DEF Receive
  <2> HIDE DEF sent
  <2> QED  BY <2>1, <2>2 DEF sent, Receive, IngressIInv, DeliveriesOK
<1> QED  BY <1>5, <1>6 DEF Receive, IngressIInv, JobsOK, LateAddsOK

(* A step of a request that touches neither the queue nor the deliveries.     *)
LEMMA OthersKept ==
  ASSUME IngressIInv, RequestsOK', UNCHANGED <<shop, retained, lateAdds, processed, deliveries>>
  PROVE  IngressIInv'
BY DEF IngressIInv, JobsOK, LateAddsOK, DeliveriesOK

LEMMA ReadShopKeeps ==
  ASSUME IngressIInv, NEW r \in Requests, ReadShop(r) PROVE IngressIInv'
<1> DEFINE q == requests[r]
<1>1. RequestOK(q, shop, retained, processed) /\ q.at = "shop"
  BY DEF IngressIInv, RequestsOK, ReadShop, At
<1>2. UNCHANGED <<shop, retained, lateAdds, processed, deliveries>>
  BY DEF ReadShop
<1>3. CASE ~Served
  <2>1. Answer(r, "IGNORED_SHOP") /\ ~At(r, "idle") /\ q.wasInactive
    BY <1>1, <1>3 DEF ReadShop, At, Served, RequestOK
  <2> QED  BY <1>2, <2>1, AnswerKeeps, OthersKept DEF Outcomes
<1>4. CASE Served /\ ~(ConsentParses(q.event) /\ Normalizes(q.event))
  <2>1. Answer(r, "REJECTED") /\ ~At(r, "idle")
    BY <1>1, <1>4 DEF ReadShop, At
  <2> QED  BY <1>2, <2>1, AnswerKeeps, OthersKept DEF Outcomes
<1>5. CASE Served /\ ConsentParses(q.event) /\ Normalizes(q.event)
  <2> DEFINE next == [q EXCEPT !.at = "adding", !.id = JobId(q.event)]
  <2>1. Becomes(r, next)
    BY <1>5 DEF ReadShop
  <2>2. /\ RequestShape(next) /\ next.at = "adding" /\ next.id = JobId(q.event)
        /\ next.event = q.event /\ next.late = q.late /\ next.outcome = q.outcome
        /\ next.wasActive = q.wasActive
    <3> DEFINE jobId == JobId(q.event)
    <3> HIDE DEF jobId
    <3> QED  BY <1>1 DEF RequestOK, RequestShape, Steps
  <2> HIDE DEF next
  <2>3. RequestOK(next, shop, retained, processed)
    BY <1>1, <1>5, <2>2 DEF RequestOK, Served, Outcomes
  <2> QED  BY <1>2, <2>1, <2>3, QueueUnchanged, OneRequest, OthersKept
<1> QED  BY <1>3, <1>4, <1>5

(* Subjects name jobs: events of one subject have one job id.                 *)
LEMMA SameSubject ==
  ASSUME NEW e \in Events, NEW f \in Events
  PROVE  JobId(e) = JobId(f) <=> Subject[e] = Subject[f]
BY DEF JobId

(* An add that is executed keeps the queue's ids apart and its event is kept, *)
(* by the job of an earlier delivery perhaps.                                 *)
LEMMA ExecutedKeeps ==
  ASSUME IngressIInv, NEW e \in Events, Executed(JobId(e), e), UNCHANGED processed
  PROVE  JobsOK' /\ Keeps(retained', processed') /\ Kept(e, retained', processed')
<1> DEFINE new == [id |-> JobId(e), event |-> e, state |-> "waiting"]
<1>1. new = Job(e, "waiting") /\ new.id = JobId(e) /\ new.event = e
  BY DEF Job
<1>2. CASE Retained(JobId(e))
  <2>1. retained' = retained
    BY <1>2 DEF Executed
  <2>2. PICK job \in retained : job.id = JobId(e)
    BY <1>2 DEF Retained
  <2>3. PICK f \in Events : job.id = JobId(f) /\ job.event = f
    BY DEF IngressIInv, JobsOK, Job
  <2>4. Subject[job.event] = Subject[e]
    BY <2>2, <2>3, SameSubject
  <2> QED  BY <2>1, <2>4 DEF Keeps, Kept, IngressIInv, JobsOK
<1>3. CASE ~Retained(JobId(e))
  <2>1. retained' = retained \cup {new} /\ \A job \in retained : job.id # new.id
    BY <1>3 DEF Executed, Retained
  <2> HIDE DEF new
  <2>2. JobsOK'
    BY <1>1, <2>1 DEF IngressIInv, JobsOK
  <2> QED  BY <1>1, <2>1, <2>2 DEF Keeps, Kept
<1> QED  BY <1>2, <1>3

LEMMA AddKeeps ==
  ASSUME IngressIInv, NEW r \in Requests, Add(r) PROVE IngressIInv'
<1> DEFINE q == requests[r]
           next == [q EXCEPT !.at = "added"]
<1>1. RequestOK(q, shop, retained, processed) /\ q.at = "adding"
  BY DEF IngressIInv, RequestsOK, Add, At
<1>2. q.event \in Events /\ q.id = JobId(q.event)
  BY <1>1 DEF RequestOK
<1>3. JobsOK' /\ Keeps(retained', processed') /\ Kept(q.event, retained', processed')
  BY <1>2, ExecutedKeeps DEF Add
<1>4. next = [at |-> "added", event |-> q.event, try |-> q.try, id |-> q.id, late |-> q.late,
              outcome |-> q.outcome, wasActive |-> q.wasActive, wasInactive |-> q.wasInactive]
  BY <1>1 DEF RequestOK, RequestShape
<1>5. Becomes(r, next) /\ UNCHANGED <<shop, lateAdds, processed, deliveries>>
  BY DEF Add
<1> HIDE DEF next
<1>6. RequestShape(next)
  BY <1>1, <1>4 DEF RequestOK, RequestShape, Steps
<1>7. RequestOK(next, shop, retained', processed')
  BY <1>1, <1>3, <1>4, <1>6 DEF RequestOK, Outcomes
<1>8. RequestsOK'
  BY <1>3, <1>5, <1>7, OneRequest
<1>9. DeliveriesOK'
  BY <1>3, <1>5, KeptByQueue DEF IngressIInv, DeliveriesOK
<1> QED  BY <1>3, <1>5, <1>8, <1>9 DEF IngressIInv, LateAddsOK

LEMMA SettleKeeps ==
  ASSUME IngressIInv, NEW r \in Requests, Settle(r) PROVE IngressIInv'
<1>1. RequestOK(requests[r], shop, retained, processed) /\ requests[r].at = "added" /\ ~At(r, "idle")
  BY DEF IngressIInv, RequestsOK, Settle, At
<1>2. Settled(r) \in Outcomes /\ Settled(r) # "IGNORED_SHOP"
  BY DEF Settled, Outcomes
<1>3. Settled(r) = "QUEUE_ACCEPTED" =>
        ~requests[r].late /\ requests[r].wasActive /\ Kept(requests[r].event, retained, processed)
  BY <1>1 DEF Settled, RequestOK
<1> QED  BY <1>1, <1>2, <1>3, AnswerKeeps, OthersKept DEF Settle

LEMMA AddFailsKeeps ==
  ASSUME IngressIInv, NEW r \in Requests, AddFails(r) PROVE IngressIInv'
BY AnswerKeeps, OthersKept DEF AddFails, At, Failed, Outcomes

LEMMA DeadlinePassesKeeps ==
  ASSUME IngressIInv, NEW r \in Requests, DeadlinePasses(r) PROVE IngressIInv'
<1> DEFINE q == requests[r]
           next == [q EXCEPT !.late = TRUE]
<1>1. RequestOK(q, shop, retained, processed) /\ q.at \in {"adding", "added"}
  BY DEF IngressIInv, RequestsOK, DeadlinePasses
<1>2. /\ next.at = q.at /\ next.event = q.event /\ next.id = q.id /\ next.outcome = q.outcome
      /\ next.wasActive = q.wasActive
  BY <1>1 DEF RequestOK, RequestShape
<1>3. Becomes(r, next) /\ UNCHANGED <<shop, retained, lateAdds, processed, deliveries>>
  BY DEF DeadlinePasses
<1>4. RequestShape(next)
  BY <1>1 DEF RequestOK, RequestShape
<1> HIDE DEF next
<1>5. q.outcome = "none"
  BY <1>1 DEF RequestOK, RequestShape, Outcomes
<1>6. RequestOK(next, shop, retained, processed)
  BY <1>1, <1>2, <1>4, <1>5 DEF RequestOK, Outcomes
<1> QED  BY <1>3, <1>6, QueueUnchanged, OneRequest, OthersKept

LEMMA TimerFiresKeeps ==
  ASSUME IngressIInv, NEW r \in Requests, TimerFires(r) PROVE IngressIInv'
<1>1. RequestOK(requests[r], shop, retained, processed) /\ requests[r].at \in {"adding", "added"}
  BY DEF IngressIInv, RequestsOK, TimerFires, Armed
<1>2. requests[r].event \in Events /\ requests[r].id = JobId(requests[r].event)
  BY <1>1 DEF RequestOK
<1>3. RequestsOK'
  BY <1>1, AnswerKeeps DEF TimerFires, At, Outcomes
<1>4. LateAddsOK'
  BY <1>2 DEF TimerFires, IngressIInv, LateAddsOK
<1> QED  BY <1>3, <1>4 DEF TimerFires, IngressIInv, JobsOK, DeliveriesOK

(* A step that changes no request, and keeps the shop.                        *)
LEMMA QueueMoves ==
  ASSUME IngressIInv, JobsOK', Keeps(retained', processed'), LateAddsOK', UNCHANGED <<shop, requests, deliveries>>
  PROVE  IngressIInv'
<1>1. RequestsOK' /\ DeliveriesOK'
  BY KeptByQueue DEF IngressIInv, RequestsOK, DeliveriesOK
<1> QED  BY <1>1 DEF IngressIInv

LEMMA LateAddKeeps ==
  ASSUME IngressIInv, NEW add \in lateAdds, LateAdd(add) PROVE IngressIInv'
<1>1. PICK e \in Events : add = [id |-> JobId(e), event |-> e]
  BY DEF IngressIInv, LateAddsOK
<1>2. JobsOK' /\ Keeps(retained', processed')
  <2>1. CASE UNCHANGED retained
    BY <2>1 DEF LateAdd, Keeps, IngressIInv, JobsOK
  <2>2. CASE Executed(add.id, add.event)
    BY <1>1, <2>2, ExecutedKeeps DEF LateAdd
  <2> QED  BY <2>1, <2>2 DEF LateAdd
<1> QED  BY <1>2, QueueMoves DEF LateAdd, IngressIInv, LateAddsOK

LEMMA RespondKeeps ==
  ASSUME IngressIInv, NEW r \in Requests, Respond(r) PROVE IngressIInv'
<1> DEFINE q == requests[r]
           e == q.event
           old == deliveries[e]
           new == deliveries'[e]
<1>1. RequestOK(q, shop, retained, processed) /\ q.at = "answered"
  BY DEF IngressIInv, RequestsOK, Respond, At
<1>2. e \in Events /\ q.outcome \in Outcomes
  BY <1>1 DEF RequestOK
<1>3. DeliveryOK(e, old, retained, processed)
  BY <1>2 DEF IngressIInv, DeliveriesOK
<1>4. /\ DOMAIN deliveries' = Events
      /\ \A f \in Events \ {e} : deliveries'[f] = deliveries[f]
      /\ \/ new = old
         \/ q.outcome \in Acknowledges /\ new = [old EXCEPT !.state = "acknowledged", !.outcome = q.outcome]
         \/ new = Redelivered(old)
  BY <1>2 DEF Respond, IngressIInv, DeliveriesOK
<1>5. DeliveryOK(e, new, retained, processed)
  <2>1. CASE new = [old EXCEPT !.state = "acknowledged", !.outcome = q.outcome]
    BY <1>1, <1>2, <1>3, <2>1 DEF DeliveryOK, RequestOK
  <2>2. CASE new = Redelivered(old)
    BY <1>3, <2>2 DEF DeliveryOK, Redelivered
  <2> QED  BY <1>3, <1>4, <2>1, <2>2
<1>6. DeliveriesOK'
  BY <1>4, <1>5 DEF Respond, IngressIInv, DeliveriesOK
<1>7. RequestOK(IdleRequest, shop, retained, processed)
  BY DEF RequestOK, RequestShape, IdleRequest, Steps, Outcomes
<1>8. RequestsOK'
  BY <1>7, QueueUnchanged, OneRequest DEF Respond
<1> QED  BY <1>6, <1>8 DEF Respond, IngressIInv, JobsOK, LateAddsOK

LEMMA ShopifyTimesOutKeeps ==
  ASSUME IngressIInv, NEW e \in Events, ShopifyTimesOut(e) PROVE IngressIInv'
<1>1. DeliveryOK(e, Redelivered(deliveries[e]), retained, processed)
  BY DEF IngressIInv, DeliveriesOK, DeliveryOK, Redelivered
<1>2. DeliveriesOK'
  BY <1>1 DEF ShopifyTimesOut, IngressIInv, DeliveriesOK
<1> QED  BY <1>2 DEF ShopifyTimesOut, IngressIInv, RequestsOK, JobsOK, LateAddsOK

LEMMA CrashKeeps == ASSUME IngressIInv, Crash PROVE IngressIInv'
<1>1. RequestOK(IdleRequest, shop, retained, processed)
  BY DEF RequestOK, RequestShape, IdleRequest, Steps, Outcomes
<1>2. RequestsOK'
  BY <1>1 DEF Crash, RequestsOK
<1>3. LateAddsOK'
  <2>1. \A s \in Requests : At(s, "adding") =>
          requests[s].event \in Events /\ requests[s].id = JobId(requests[s].event)
    BY DEF IngressIInv, RequestsOK, RequestOK, At
  <2> QED  BY <2>1 DEF Crash, IngressIInv, LateAddsOK
<1> QED  BY <1>2, <1>3 DEF Crash, IngressIInv, JobsOK, DeliveriesOK

LEMMA MoveKeeps == ASSUME IngressIInv, Move PROVE IngressIInv'
<1>1. shop' \in {"ACTIVE", "UNINSTALLED"} /\ UNCHANGED <<retained, lateAdds, processed, deliveries>>
  BY DEF Move
<1>2. ASSUME NEW r \in Requests PROVE RequestOK(requests'[r], shop', retained, processed)
  <2> DEFINE q == requests[r]
             next == requests'[r]
  <2>1. RequestOK(q, shop, retained, processed)
    BY DEF IngressIInv, RequestsOK
  <2>2. next = [at |-> q.at, event |-> q.event, try |-> q.try, id |-> q.id, late |-> q.late,
                outcome |-> q.outcome,
                wasActive |-> q.at # "idle" /\ (q.wasActive \/ shop' = "ACTIVE"),
                wasInactive |-> q.at # "idle" /\ (q.wasInactive \/ shop' # "ACTIVE")]
    BY <2>1 DEF Move, At, RequestOK, RequestShape
  <2> HIDE DEF next
  <2>3. RequestShape(next)
    BY <2>1, <2>2 DEF RequestOK, RequestShape
  <2>4. RequestOK(next, shop', retained, processed)
    BY <1>1, <2>1, <2>2, <2>3 DEF RequestOK, Outcomes
  <2> QED  BY <2>4 DEF next
<1>3. RequestsOK'
  BY <1>1, <1>2 DEF Move, RequestsOK
<1> QED  BY <1>1, <1>3 DEF IngressIInv, JobsOK, LateAddsOK, DeliveriesOK

LEMMA WorkKeeps == ASSUME IngressIInv, NEW job \in retained, Work(job) PROVE IngressIInv'
<1>1. PICK e \in Events : job = Job(e, "waiting") /\ job.event = e /\ job.id = JobId(e)
  BY DEF Work, IngressIInv, JobsOK, Job
<1>2. CASE retained' = retained \ {job} /\ processed' = processed \cup {Subject[job.event]}
  <2>1. Keeps(retained', processed') /\ JobsOK'
    BY <1>2 DEF Keeps, Kept, IngressIInv, JobsOK
  <2> QED  BY <2>1, QueueMoves DEF Work, IngressIInv, LateAddsOK
<1>3. CASE retained' = (retained \ {job}) \cup {[job EXCEPT !.state = "failed"]} /\ UNCHANGED processed
  <2> DEFINE failed == [job EXCEPT !.state = "failed"]
  <2>1. failed = Job(e, "failed") /\ failed.event = job.event /\ failed.id = job.id
    BY <1>1 DEF Job
  <2>2. retained' = (retained \ {job}) \cup {failed}
    BY <1>3
  <2> HIDE DEF failed
  <2>3. JobsOK'
    BY <2>1, <2>2 DEF IngressIInv, JobsOK
  <2>4. Keeps(retained', processed')
    BY <1>3, <2>1, <2>2 DEF Keeps, Kept
  <2> QED  BY <2>3, <2>4, QueueMoves DEF Work, IngressIInv, LateAddsOK
<1> QED  BY <1>2, <1>3 DEF Work

-----------------------------------------------------------------------------
LEMMA IngressNextKeeps == ASSUME IngressIInv, [IngressNext]_ingressVars PROVE IngressIInv'
<1>1. CASE UNCHANGED ingressVars
  BY <1>1 DEF ingressVars, IngressIInv, RequestsOK, JobsOK, LateAddsOK, DeliveriesOK
<1>2. ASSUME NEW r \in Requests,
             Handle(r) \/ Add(r) \/ Settle(r) \/ AddFails(r) \/ (\E e \in Events : Receive(r, e))
      PROVE  IngressIInv'
  BY <1>2, ReadShopKeeps, DeadlinePassesKeeps, TimerFiresKeeps, RespondKeeps, AddKeeps, SettleKeeps,
     AddFailsKeeps, ReceiveKeeps DEF Handle
<1> QED
  BY <1>1, <1>2, LateAddKeeps, ShopifyTimesOutKeeps, WorkKeeps, CrashKeeps, MoveKeeps DEF IngressNext

LEMMA IngressInvariance == IngressSpec => []IngressIInv
<1>1. IngressIInv /\ [IngressNext]_ingressVars => IngressIInv'
  BY IngressNextKeeps
<1> QED  BY <1>1, IngressInitHolds, PTL DEF IngressSpec

(* In particular: what holds of the deliveries, the queue and the requests.   *)
LEMMA IngressInvImplied == ASSUME IngressIInv PROVE IngressInv
<1>1. \A r \in Requests : RequestOK(requests[r], shop, retained, processed)
  BY DEF IngressIInv, RequestsOK
<1>2. IngressTypeOK
  <2>1. \A r \in Requests : requests[r].at \in {"adding", "added"} => requests[r].id # None
    BY <1>1, NoneIsNoJob DEF RequestOK, JobId
  <2> QED  BY <1>1, <2>1 DEF IngressTypeOK, RequestOK, RequestShape, Steps, IngressIInv, JobsOK
<1>3. QueuedOnce
  BY SameSubject DEF QueuedOnce, IngressIInv, JobsOK, Job
<1>4. AcceptedIsQueued
  BY DEF AcceptedIsQueued, IngressIInv, DeliveriesOK, DeliveryOK, Kept
<1>5. AcceptedWithinBudget /\ DecidedByShop
  BY <1>1 DEF AcceptedWithinBudget, DecidedByShop, RequestOK
<1> QED  BY <1>2, <1>3, <1>4, <1>5 DEF IngressInv

(* An order's job is queued once and an accepted delivery is never dropped,   *)
(* whenever late adds are executed, deliveries repeated or processes ended    *)
(* (publishWebhookEvent and withinPublicationDeadline).                       *)
THEOREM IngressAlwaysHolds == IngressSpec => []IngressInv
<1>1. IngressIInv => IngressInv
  BY IngressInvImplied
<1> QED  BY <1>1, IngressInvariance, PTL

-----------------------------------------------------------------------------
(* Proofs about ConsentIdentity, for any document over any names and numbers. *)
(* The scanner is always at a place of the document's text: what follows it   *)
(* is the text of what is still to come, at the depths of that place, and     *)
(* what it found is what the keys that it has passed give.  A text is built   *)
(* by two recursions, over the members and over the characters of a string;   *)
(* both are unrolled by an induction over the numbers.                        *)

(* The least number of a set, and induction in the form of sets.              *)
LEMMA LeastNumber ==
  ASSUME NEW S \in SUBSET Nat, S # {}
  PROVE  \E m \in S : \A k \in S : m <= k
<1>1. PICK n \in S : TRUE
  OBVIOUS
<1> DEFINE Order == StrictSubsetOrdering(1..n)
           Initial == {1..m : m \in {k \in S : k <= n}}
<1>2. IsWellFoundedOn(Order, FiniteSubsetsOf(1..n))
  BY FS_Interval, FS_StrictSubsetOrderingWellFounded
<1>3. \A m \in {k \in S : k <= n} : 1..m \in FiniteSubsetsOf(1..n)
  BY FS_Interval DEF FiniteSubsetsOf
<1>4. Initial \subseteq FiniteSubsetsOf(1..n) /\ Initial # {}
  <2>1. n \in {k \in S : k <= n}
    BY <1>1
  <2>2. 1..n \in Initial
    BY <2>1
  <2>3. Initial \subseteq FiniteSubsetsOf(1..n)
    BY <1>3
  <2> QED  BY <2>2, <2>3
<1>5. \E x \in Initial : \A y \in Initial : <<y, x>> \notin Order
  <2> HIDE DEF Initial, Order
  <2> QED  BY <1>2, <1>4, WFMin
<1>6. PICK m \in {k \in S : k <= n} : \A k \in {j \in S : j <= n} : <<1..k, 1..m>> \notin Order
  BY <1>5
<1>7. ASSUME NEW k \in S, k < m
      PROVE  FALSE
  <2>1. k <= n
    BY <1>7
  <2>2. 1..k \in SUBSET (1..n) /\ 1..m \in SUBSET (1..n) /\ 1..k \subseteq 1..m
    BY <1>7
  <2>3. m \in 1..m /\ m \notin 1..k
    BY <1>7
  <2>4. <<1..k, 1..m>> \in Order
    BY <2>2, <2>3 DEF StrictSubsetOrdering
  <2> QED  BY <2>1, <2>4, <1>6
<1> QED  BY <1>7

LEMMA EveryNumber ==
  ASSUME NEW S, 0 \in S, \A n \in Nat : n \in S => n + 1 \in S
  PROVE  Nat \subseteq S
<1> SUFFICES ASSUME Nat \ S # {} PROVE FALSE
  OBVIOUS
<1>1. PICK m \in Nat \ S : \A k \in Nat \ S : m <= k
  BY LeastNumber
<1>2. m # 0
  BY <1>1
<1>3. m - 1 \in Nat /\ m - 1 \in S
  BY <1>1, <1>2
<1>4. (m - 1) + 1 \in S
  BY <1>3
<1> QED  BY <1>1, <1>4

-----------------------------------------------------------------------------
(* A text from a position on.                                                 *)
Chars == STRING \cup Structural
Texts == Seq(Chars)

Follows(text, at, rest) ==
  /\ text \in Texts /\ rest \in Texts /\ at \in Nat \ {0}
  /\ Len(text) = at - 1 + Len(rest)
  /\ \A k \in 1..Len(rest) : text[at - 1 + k] = rest[k]

LEMMA NamesAreTexts == Names \subseteq Texts
<1> SUFFICES ASSUME NEW chars \in Names PROVE chars \in Texts
  OBVIOUS
<1>1. chars \in Seq(STRING) /\ STRING \subseteq Chars
  BY NamesAreStrings DEF Chars
<1> QED  BY <1>1, SeqMonotonic DEF Texts

LEMMA NumbersAreTexts == Numbers \subseteq Texts
<1> SUFFICES ASSUME NEW chars \in Numbers PROVE chars \in Texts
  OBVIOUS
<1>1. chars \in Seq(STRING) /\ STRING \subseteq Chars
  BY NumbersArePlain DEF Chars
<1> QED  BY <1>1, SeqMonotonic DEF Texts

\* Concatenation by other names, of which the provers see no more than these lemmas say.
Join(s, t) == s \o t
Then(c, t) == <<c>> \o t

LEMMA Joined ==
  ASSUME NEW s \in Texts, NEW t \in Texts
  PROVE  /\ Join(s, t) \in Texts
         /\ Len(Join(s, t)) = Len(s) + Len(t) /\ Len(s) \in Nat /\ Len(t) \in Nat
         /\ \A k \in 1..Len(s) : Join(s, t)[k] = s[k]
         /\ \A k \in 1..Len(t) : Join(s, t)[Len(s) + k] = t[k]
<1>0. Join(s, t) = s \o t
  BY DEF Join
<1>1. s \o t \in Texts /\ Len(s \o t) = Len(s) + Len(t) /\ Len(s) \in Nat /\ Len(t) \in Nat
  BY ConcatProperties, LenProperties DEF Texts
<1>2. \A k \in 1..(Len(s) + Len(t)) : (s \o t)[k] = IF k <= Len(s) THEN s[k] ELSE t[k - Len(s)]
  BY ConcatProperties DEF Texts
<1>3. ASSUME NEW k \in 1..Len(s) PROVE (s \o t)[k] = s[k]
  BY <1>1, <1>2, <1>3
<1>4. ASSUME NEW k \in 1..Len(t) PROVE (s \o t)[Len(s) + k] = t[k]
  <2>1. Len(s) + k \in 1..(Len(s) + Len(t)) /\ ~(Len(s) + k <= Len(s)) /\ (Len(s) + k) - Len(s) = k
    BY <1>1
  <2> QED  BY <1>2, <2>1
<1> QED  BY <1>0, <1>1, <1>3, <1>4

LEMMA One ==
  ASSUME NEW c \in Chars
  PROVE  <<c>> \in Texts /\ Len(<<c>>) = 1 /\ <<c>>[1] = c
<1>1. <<>> \in Seq(Chars) /\ Append(<<>>, c) = <<c>>
  BY EmptySeq
<1>2. <<c>> \in Seq(Chars)
  BY <1>1, AppendProperties
<1> QED  BY <1>2 DEF Texts

LEMMA OneOf == \A c \in {"q", "colon", "comma", "lbrace", "rbrace", "lbracket", "rbracket"} : c \in Chars /\ <<c>> \in Texts
<1> SUFFICES ASSUME NEW c \in {"q", "colon", "comma", "lbrace", "rbrace", "lbracket", "rbracket"} PROVE c \in Chars /\ <<c>> \in Texts
  OBVIOUS
<1>1. c \in Chars
  BY DEF Chars, Structural
<1> QED  BY <1>1, One

LEMMA TextIs ==
  ASSUME NEW s \in Texts
  PROVE  Len(s) \in Nat /\ DOMAIN s = 1..Len(s) /\ \A k \in 1..Len(s) : s[k] \in Chars
<1>1. s \in Seq(Chars)
  BY DEF Texts
<1> QED  BY <1>1, LenProperties, ElementOfSeq

LEMMA JoinIs ==
  /\ \A s, t \in Texts : Join(s, t) \in Texts
  /\ \A s, t, u \in Texts : Join(Join(s, t), u) = Join(s, Join(t, u))
  /\ \A t \in Texts : Join(<<>>, t) = t
<1>1. \A s, t \in Texts : Join(s, t) \in Texts
  BY Joined
<1>2. ASSUME NEW s \in Texts, NEW t \in Texts, NEW u \in Texts
      PROVE  Join(Join(s, t), u) = Join(s, Join(t, u))
  BY ConcatAssociative DEF Join, Texts
<1>3. ASSUME NEW t \in Texts
      PROVE  Join(<<>>, t) = t
  BY ConcatEmptySeq DEF Join, Texts
<1> QED  BY <1>1, <1>2, <1>3

LEMMA ThenIs ==
  /\ \A c \in Chars, t \in Texts : Then(c, t) = Join(<<c>>, t) /\ Then(c, t) \in Texts
  /\ \A c \in Chars, s, t \in Texts : Join(Then(c, s), t) = Then(c, Join(s, t))
<1>1. \A c, t : Then(c, t) = Join(<<c>>, t)
  BY DEF Then, Join
<1>2. \A c \in Chars : <<c>> \in Texts
  BY One
<1> QED  BY <1>1, <1>2, JoinIs

LEMMA JoinedFour ==
  ASSUME NEW s \in Texts, NEW t \in Texts, NEW u \in Texts, NEW v \in Texts
  PROVE  /\ Join(Join(s, t), u) \in Texts
         /\ Join(Join(Join(s, t), u), v) = Join(s, Join(t, Join(u, v)))
BY JoinIs

LEMMA JoinedSix ==
  ASSUME NEW s \in Texts, NEW t \in Texts, NEW u \in Texts, NEW v \in Texts, NEW w \in Texts, NEW x \in Texts
  PROVE  /\ Join(Join(Join(Join(s, t), u), v), w) \in Texts
         /\ Join(Join(Join(Join(Join(s, t), u), v), w), x) = Join(s, Join(t, Join(u, Join(v, Join(w, x)))))
<1> DEFINE stu == Join(Join(s, t), u)
           vwx == Join(v, Join(w, x))
<1>1. stu \in Texts /\ vwx \in Texts
  BY JoinIs
<1>2. Join(stu, vwx) = Join(s, Join(t, Join(u, vwx)))
  <2> HIDE DEF vwx
  <2> QED  BY <1>1, JoinedFour
<1> HIDE DEF stu
<1>3. Join(Join(stu, v), w) \in Texts /\ Join(Join(Join(stu, v), w), x) = Join(stu, Join(v, Join(w, x)))
  BY <1>1, JoinedFour
<1> QED  BY <1>2, <1>3 DEF stu

LEMMA Passed ==
  ASSUME NEW text, NEW at, NEW s \in Texts, NEW t \in Texts, Follows(text, at, Join(s, t))
  PROVE  /\ Follows(text, at + Len(s), t)
         /\ at - 1 + Len(s) <= Len(text)
         /\ \A k \in 1..Len(s) : text[at - 1 + k] = s[k]
<1>1. /\ text \in Texts /\ at \in Nat \ {0} /\ Len(text) = at - 1 + Len(Join(s, t))
      /\ \A k \in 1..Len(Join(s, t)) : text[at - 1 + k] = (Join(s, t))[k]
  BY DEF Follows
<1>2. /\ Len(Join(s, t)) = Len(s) + Len(t) /\ Len(s) \in Nat /\ Len(t) \in Nat
      /\ \A k \in 1..Len(s) : (Join(s, t))[k] = s[k]
      /\ \A k \in 1..Len(t) : (Join(s, t))[Len(s) + k] = t[k]
  BY Joined
<1>3. at + Len(s) \in Nat \ {0} /\ Len(text) = (at + Len(s)) - 1 + Len(t) /\ at - 1 + Len(s) <= Len(text)
  BY <1>1, <1>2
<1>4. ASSUME NEW k \in 1..Len(t) PROVE text[(at + Len(s)) - 1 + k] = t[k]
  <2>1. Len(s) + k \in 1..Len(Join(s, t)) /\ at - 1 + (Len(s) + k) = (at + Len(s)) - 1 + k
    BY <1>1, <1>2
  <2> QED  BY <1>1, <1>2, <2>1
<1>5. ASSUME NEW k \in 1..Len(s) PROVE text[at - 1 + k] = s[k]
  <2>1. k \in 1..Len(Join(s, t))
    BY <1>2
  <2> QED  BY <1>1, <1>2, <2>1
<1> QED  BY <1>1, <1>3, <1>4, <1>5 DEF Follows

LEMMA PassedOne ==
  ASSUME NEW text, NEW at, NEW c \in Chars, NEW t \in Texts, Follows(text, at, Then(c, t))
  PROVE  /\ at \in Nat \ {0} /\ at <= Len(text) /\ Len(text) \in Nat
         /\ text[at] = c
         /\ Follows(text, at + 1, t)
<1>1. <<c>> \in Texts /\ Len(<<c>>) = 1 /\ <<c>>[1] = c /\ Follows(text, at, Join(<<c>>, t))
  BY One, ThenIs
<1>2. /\ Follows(text, at + Len(<<c>>), t) /\ at - 1 + Len(<<c>>) <= Len(text)
      /\ \A k \in 1..Len(<<c>>) : text[at - 1 + k] = <<c>>[k]
  BY <1>1, Passed
<1>3. text \in Texts /\ at \in Nat \ {0} /\ at - 1 + 1 = at
  BY DEF Follows
<1>4. Len(text) \in Nat
  BY <1>3, TextIs
<1>5. 1 \in 1..Len(<<c>>)
  BY <1>1
<1>6. text[at - 1 + 1] = <<c>>[1]
  BY <1>2, <1>5
<1> QED  BY <1>1, <1>2, <1>3, <1>4, <1>6

(* What stands at a place is what a slice of the text gives.                  *)
LEMMA Sliced ==
  ASSUME NEW text, NEW at, NEW s \in Texts, NEW t \in Texts, Follows(text, at, Join(s, t))
  PROVE  SubSeq(text, at, at - 1 + Len(s)) = s
<1> DEFINE slice == SubSeq(text, at, at - 1 + Len(s))
<1>0. text \in Texts /\ at \in Nat \ {0}
  BY DEF Follows
<1>1. /\ text \in Seq(Chars) /\ at \in Nat \ {0} /\ Len(s) \in Nat /\ s \in Seq(Chars)
      /\ Len(text) \in Nat /\ at - 1 + Len(s) <= Len(text)
      /\ \A k \in 1..Len(s) : text[at - 1 + k] = s[k]
  <2>1. Len(text) \in Nat /\ Len(s) \in Nat
    BY <1>0, TextIs
  <2>2. at - 1 + Len(s) <= Len(text) /\ \A k \in 1..Len(s) : text[at - 1 + k] = s[k]
    BY Passed
  <2> QED  BY <1>0, <2>1, <2>2 DEF Texts
<1>2. \A k \in at..(at - 1 + Len(s)) : text[k] \in Chars
  BY <1>1, ElementOfSeq
<1>3. /\ slice \in Seq(Chars)
      /\ Len(slice) = IF at <= at - 1 + Len(s) THEN at - 1 + Len(s) - at + 1 ELSE 0
      /\ \A k \in 1..(at - 1 + Len(s) - at + 1) : slice[k] = text[at + k - 1]
  BY <1>1, <1>2, SubSeqProperties
<1>4. Len(slice) = Len(s)
  BY <1>1, <1>3
<1>5. ASSUME NEW k \in 1..Len(slice) PROVE slice[k] = s[k]
  <2>1. k \in 1..(at - 1 + Len(s) - at + 1) /\ at + k - 1 = at - 1 + k /\ k \in 1..Len(s)
    BY <1>1, <1>4
  <2> QED  BY <1>1, <1>3, <2>1
<1> HIDE DEF slice
<1> QED  BY <1>1, <1>3, <1>4, <1>5, SeqEqual DEF slice

LEMMA QuotedIs ==
  ASSUME NEW chars \in Texts, NEW t \in Texts
  PROVE  /\ Quoted(chars) \in Texts
         /\ Join(Quoted(chars), t) = Then("q", Join(chars, Then("q", t)))
<1> DEFINE quote == <<"q">>
<1>1. quote \in Texts /\ Quoted(chars) = Join(Join(quote, chars), quote)
  BY OneOf DEF Quoted, Join
<1>2. Then("q", Join(chars, Then("q", t))) = Join(quote, Join(chars, Join(quote, t)))
  BY DEF Then, Join
<1> HIDE DEF quote
<1> QED  BY <1>1, <1>2, JoinedFour

-----------------------------------------------------------------------------
(* The loop over a string's characters.                                       *)
LEMMA CloseIs ==
  ASSUME raw \in Texts, NEW from \in 1..(Len(raw) + 2)
  PROVE  \E f : /\ Close(from) = f[from]
                /\ \A j \in from..(Len(raw) + 2) :
                     f[j] = IF j > Len(raw) THEN j
                            ELSE IF raw[j] = "b" THEN f[j + 2]
                            ELSE IF raw[j] = "q" THEN j ELSE f[j + 1]
<1> DEFINE n == Len(raw) + 2
           Body(f, j) == IF j > Len(raw) THEN j
                         ELSE IF raw[j] = "b" THEN f[j + 2]
                         ELSE IF raw[j] = "q" THEN j ELSE f[j + 1]
           Whole(f, low) == f = [j \in low..n |-> Body(f, j)]
           E == {k \in Nat : k <= n - from => \E f : Whole(f, n - k)}
<1>1. Len(raw) \in Nat /\ n \in Nat /\ from \in Nat /\ from <= n
  BY TextIs
<1>2. 0 \in E
  <2> DEFINE f == [j \in n..n |-> j]
  <2>1. Whole(f, n - 0)
    BY <1>1
  <2> QED  BY <2>1
<1>3. ASSUME NEW k \in Nat, k \in E
      PROVE  k + 1 \in E
  <2> SUFFICES ASSUME k + 1 <= n - from PROVE \E f : Whole(f, n - (k + 1))
    OBVIOUS
  <2>1. PICK g : Whole(g, n - k)
    BY <1>1, <1>3
  <2> DEFINE low == n - (k + 1)
             f == [j \in low..n |-> IF j = low THEN Body(g, j) ELSE g[j]]
  <2>2. low \in Nat /\ low + 1 = n - k /\ low < n
    BY <1>1
  <2> HIDE DEF low
  <2>3. ASSUME NEW j \in (low + 1)..n PROVE f[j] = g[j] /\ g[j] = Body(g, j)
    <3>1. j \in low..n /\ j # low
      BY <1>1, <2>2
    <3>2. g = [l \in (low + 1)..n |-> Body(g, l)]
      BY <2>1, <2>2
    <3>3. g[j] = Body(g, j)
      BY <3>2
    <3> QED  BY <3>1, <3>3
  <2>4. ASSUME NEW j \in low..n PROVE f[j] = Body(f, j)
    <3>1. f[j] = Body(g, j)
      <4>1. CASE j = low
        BY <4>1
      <4>2. CASE j # low
        <5>1. j \in (low + 1)..n
          BY <1>1, <2>2, <4>2
        <5> QED  BY <2>3, <4>2, <5>1
      <4> QED  BY <4>1, <4>2
    <3>2. j > Len(raw) \/ (j + 1 \in (low + 1)..n /\ j + 2 \in (low + 1)..n)
      BY <1>1, <2>2
    <3>3. Body(g, j) = Body(f, j)
      BY <2>3, <3>2
    <3> QED  BY <3>1, <3>3
  <2>5. Whole(f, low)
    BY <2>4
  <2> QED  BY <2>5 DEF low
<1>4. Nat \subseteq E
  <2> HIDE DEF E
  <2> QED  BY <1>2, <1>3, EveryNumber
<1>5. \E f : Whole(f, from)
  <2>1. n - from \in Nat /\ n - (n - from) = from
    BY <1>1
  <2>2. n - from \in E
    BY <1>4, <2>1
  <2> QED  BY <2>1, <2>2
<1> DEFINE close == CHOOSE f : Whole(f, from)
<1>6. Whole(close, from)
  BY <1>5
<1>7. Close(from) = close[from]
  BY DEF Close
<1> HIDE DEF close
<1>8. \A j \in from..n : close[j] = Body(close, j)
  BY <1>6
<1> QED  BY <1>7, <1>8

(* A string is closed by the first quote that no backslash takes.             *)
LEMMA CloseAtQuote ==
  ASSUME NEW from, NEW chars \in Names, NEW t \in Texts, Follows(raw, from, Join(chars, Then("q", t)))
  PROVE  Close(from) = from + Len(chars)
<1> DEFINE n == Len(chars)
<1>1. chars \in Texts /\ n \in Nat
  BY NamesAreTexts, TextIs
<1>2. Then("q", t) \in Texts
  BY OneOf, ThenIs
<1>3. /\ Follows(raw, from + n, Then("q", t))
      /\ \A k \in 1..n : raw[from - 1 + k] = chars[k]
  BY <1>1, <1>2, Passed
<1>4. raw[from + n] = "q" /\ from + n <= Len(raw) /\ Len(raw) \in Nat /\ from \in Nat \ {0} /\ raw \in Texts
  <2>1. "q" \in Chars
    BY OneOf
  <2> DEFINE j == from + n
  <2>3. Follows(raw, j, Then("q", t))
    BY <1>3
  <2> HIDE DEF j
  <2>4. raw[j] = "q" /\ j <= Len(raw) /\ Len(raw) \in Nat
    BY <2>1, <2>3, PassedOne
  <2>2. raw[from + n] = "q" /\ from + n <= Len(raw) /\ Len(raw) \in Nat
    BY <2>4 DEF j
  <2> QED  BY <2>2 DEF Follows
<1> HIDE DEF n
<1>5. PICK f : /\ Close(from) = f[from]
               /\ \A j \in from..(Len(raw) + 2) :
                    f[j] = IF j > Len(raw) THEN j
                           ELSE IF raw[j] = "b" THEN f[j + 2]
                           ELSE IF raw[j] = "q" THEN j ELSE f[j + 1]
  <2>1. from \in 1..(Len(raw) + 2)
    BY <1>1, <1>4
  <2> QED  BY <1>4, <2>1, CloseIs
<1>6. PICK at \in Begins(chars) : TRUE
  BY NamesAreStrings
<1>7. /\ at \subseteq 1..(n + 1) /\ 1 \in at
      /\ \A j \in at \ {n + 1} : chars[j] # "q" /\ j + (IF chars[j] = "b" THEN 2 ELSE 1) \in at
  BY <1>6 DEF Begins, n
<1> DEFINE E == {k \in Nat : \A j \in at : n + 1 - j <= k => f[from - 1 + j] = from + n}
<1>8. 0 \in E
  <2> SUFFICES ASSUME NEW j \in at, n + 1 - j <= 0 PROVE f[from - 1 + j] = from + n
    OBVIOUS
  <2>1. j = n + 1 /\ from - 1 + j = from + n /\ from + n \in from..(Len(raw) + 2) /\ ~(from + n > Len(raw))
    BY <1>1, <1>4, <1>7
  <2> QED  BY <1>4, <1>5, <2>1
<1>9. ASSUME NEW k \in Nat, k \in E
      PROVE  k + 1 \in E
  <2> SUFFICES ASSUME NEW j \in at, n + 1 - j <= k + 1 PROVE f[from - 1 + j] = from + n
    OBVIOUS
  <2>1. CASE n + 1 - j <= k
    BY <1>9, <2>1
  <2>2. CASE ~(n + 1 - j <= k)
    <3>1. j \in 1..n /\ j \in at \ {n + 1}
      BY <1>1, <1>7, <2>2
    <3>2. raw[from - 1 + j] = chars[j] /\ chars[j] # "q"
      BY <1>3, <1>7, <3>1 DEF n
    <3>3. from - 1 + j \in from..(Len(raw) + 2) /\ ~(from - 1 + j > Len(raw))
      BY <1>1, <1>4, <3>1
    <3> DEFINE next == j + (IF chars[j] = "b" THEN 2 ELSE 1)
    <3>4. next \in at /\ next \in Nat /\ n + 1 - next <= k
      BY <1>1, <1>7, <2>2, <3>1
    <3>5. f[from - 1 + next] = from + n
      BY <1>9, <3>4
    <3>6. f[from - 1 + j] = f[from - 1 + next]
      <4>1. (from - 1 + j) + 2 = from - 1 + (j + 2) /\ (from - 1 + j) + 1 = from - 1 + (j + 1)
        BY <1>4, <3>1
      <4> QED  BY <1>5, <3>2, <3>3, <4>1
    <3> QED  BY <3>5, <3>6
  <2> QED  BY <2>1, <2>2
<1>10. Nat \subseteq E
  <2> HIDE DEF E
  <2> QED  BY <1>8, <1>9, EveryNumber
<1>11. n \in E /\ n + 1 - 1 <= n /\ from - 1 + 1 = from
  BY <1>1, <1>4, <1>10
<1> QED  BY <1>5, <1>7, <1>11 DEF n

-----------------------------------------------------------------------------
(* The texts of values, members and documents.                                *)
LEMMA ScalarIs ==
  ASSUME NEW v \in Scalars
  PROVE  /\ ScalarText(v) \in Texts
         /\ \/ v.kind = "string" /\ v.chars \in Names /\ ScalarText(v) = Quoted(v.chars)
            \/ v.kind = "number" /\ v.chars \in Numbers /\ ScalarText(v) = v.chars
<1>1. CASE v \in [kind : {"string"}, chars : Names]
  <2>1. v.kind = "string" /\ v.chars \in Names /\ ScalarText(v) = Quoted(v.chars)
    BY <1>1 DEF ScalarText
  <2>2. Quoted(v.chars) \in Texts
    BY <2>1, NamesAreTexts, OneOf, QuotedIs
  <2> QED  BY <2>1, <2>2
<1>2. CASE v \in [kind : {"number"}, chars : Numbers]
  BY <1>2, NumbersAreTexts DEF ScalarText
<1> QED  BY <1>1, <1>2 DEF Scalars

LEMMA ValueIs ==
  ASSUME NEW v \in Values, NEW t \in Texts
  PROVE  /\ ValueText(v) \in Texts
         /\ \/ v \in Scalars /\ ValueText(v) = ScalarText(v)
            \/ /\ v.kind = "array" /\ v.of \in Scalars
               /\ Join(ValueText(v), t) = Then("lbracket", Join(ScalarText(v.of), Then("rbracket", t)))
            \/ /\ v.kind = "object" /\ v.key \in Names /\ v.of \in Scalars
               /\ Join(ValueText(v), t)
                  = Then("lbrace", Join(Quoted(v.key), Then("colon", Join(ScalarText(v.of), Then("rbrace", t)))))
<1> DEFINE s == ScalarText(v.of)
<1>1. CASE v \in Scalars
  <2>1. v.kind \in {"string", "number"} /\ ScalarText(v) \in Texts
    BY <1>1, ScalarIs
  <2>2. ValueText(v) = ScalarText(v)
    BY <2>1 DEF ValueText
  <2> QED  BY <1>1, <2>1, <2>2
<1>2. CASE v \in [kind : {"array"}, of : Scalars]
  <2> DEFINE open == <<"lbracket">>
             shut == <<"rbracket">>
  <2>1. v.kind = "array" /\ v.of \in Scalars /\ ValueText(v) = Join(Join(open, s), shut)
    BY <1>2 DEF ValueText, Join
  <2>2. s \in Texts /\ open \in Texts /\ shut \in Texts
    BY <2>1, ScalarIs, OneOf
  <2>3. Then("lbracket", Join(s, Then("rbracket", t))) = Join(open, Join(s, Join(shut, t)))
    BY DEF Then, Join
  <2> HIDE DEF s, open, shut
  <2>4. ValueText(v) \in Texts /\ Join(ValueText(v), t) = Join(open, Join(s, Join(shut, t)))
    BY <2>1, <2>2, JoinedFour
  <2> QED  BY <2>1, <2>3, <2>4 DEF s
<1>3. CASE v \in [kind : {"object"}, key : Names, of : Scalars]
  <2> DEFINE open == <<"lbrace">>
             shut == <<"rbrace">>
             colon == <<"colon">>
             k == Quoted(v.key)
  <2>1. /\ v.kind = "object" /\ v.of \in Scalars /\ v.key \in Names
        /\ ValueText(v) = Join(Join(Join(Join(open, k), colon), s), shut)
    BY <1>3 DEF ValueText, Join
  <2>2. s \in Texts /\ open \in Texts /\ shut \in Texts /\ colon \in Texts
    BY <2>1, ScalarIs, OneOf
  <2>3. k \in Texts
    BY <2>1, <2>2, NamesAreTexts, QuotedIs
  <2>4. Then("lbrace", Join(k, Then("colon", Join(s, Then("rbrace", t))))) = Join(open, Join(k, Join(colon, Join(s, Join(shut, t)))))
    BY DEF Then, Join
  <2> HIDE DEF s, k, open, shut, colon
  <2>5. /\ ValueText(v) \in Texts
        /\ Join(ValueText(v), t) = Join(open, Join(k, Join(colon, Join(s, Join(shut, t)))))
    BY <2>1, <2>2, <2>3, JoinedSix
  <2> QED  BY <2>1, <2>4, <2>5 DEF s, k
<1> QED  BY <1>1, <1>2, <1>3 DEF Values

LEMMA MemberIs ==
  ASSUME NEW m \in Members, NEW t \in Texts
  PROVE  /\ m.key \in Names /\ m.value \in Values
         /\ MemberText(m) \in Texts /\ Join(MemberText(m), t) \in Texts
         /\ Join(MemberText(m), t) = Join(Quoted(m.key), Then("colon", Join(ValueText(m.value), t)))
<1> DEFINE k == Quoted(m.key)
           v == ValueText(m.value)
           colon == <<"colon">>
<1>1. m.key \in Names /\ m.value \in Values
  BY DEF Members
<1>2. k \in Texts /\ v \in Texts /\ colon \in Texts
  BY <1>1, NamesAreTexts, QuotedIs, ValueIs, OneOf
<1>3. MemberText(m) = Join(Join(k, colon), v) /\ Then("colon", Join(v, t)) = Join(colon, Join(v, t))
  BY DEF MemberText, Join, Then
<1> HIDE DEF k, v, colon
<1>4. /\ MemberText(m) \in Texts
      /\ Join(MemberText(m), t) = Join(k, Join(colon, Join(v, t)))
  BY <1>2, <1>3, JoinedFour
<1>5. Join(MemberText(m), t) \in Texts
  BY <1>4, JoinIs
<1> QED  BY <1>1, <1>3, <1>4, <1>5 DEF k, v

LEMMA DocumentIs ==
  ASSUME NEW doc \in Documents
  PROVE  Len(doc) \in Nat /\ DOMAIN doc = 1..Len(doc) /\ \A n \in 1..Len(doc) : doc[n] \in Members
<1>1. PICK n \in 0..MaxMembers : doc \in [1..n -> Members]
  BY DEF Documents
<1>2. n \in Nat
  BY MembersAssumption
<1>3. Len(doc) = n
  BY <1>1, <1>2
<1> QED  BY <1>1, <1>2, <1>3

\* What follows the first m members.
After(doc, m) == Ending(doc)[Len(doc) - m]

LEMMA EndingIs ==
  ASSUME NEW doc \in Documents
  PROVE  /\ Ending(doc)[0] = <<"rbrace">>
         /\ \A n \in 1..Len(doc) :
              Ending(doc)[n] = Join(Join(IF n = Len(doc) THEN <<>> ELSE <<"comma">>, MemberText(doc[Len(doc) - n + 1])),
                                    Ending(doc)[n - 1])
<1> DEFINE N == Len(doc)
           Body(f, n) == IF n = 0 THEN <<"rbrace">>
                         ELSE (IF n = Len(doc) THEN <<>> ELSE <<"comma">>) \o MemberText(doc[Len(doc) - n + 1]) \o f[n - 1]
           Whole(f, high) == f = [n \in 0..high |-> Body(f, n)]
           E == {k \in Nat : \E f : Whole(f, k)}
<1>1. N \in Nat
  BY DocumentIs
<1>2. 0 \in E
  <2> DEFINE f == [n \in 0..0 |-> <<"rbrace">>]
  <2>1. Whole(f, 0)
    OBVIOUS
  <2> QED  BY <2>1
<1>3. ASSUME NEW k \in Nat, k \in E
      PROVE  k + 1 \in E
  <2>1. PICK g : Whole(g, k)
    BY <1>3
  <2> DEFINE f == [n \in 0..(k + 1) |-> IF n = k + 1 THEN Body(g, n) ELSE g[n]]
  <2>2. ASSUME NEW n \in 0..k PROVE f[n] = g[n] /\ g[n] = Body(g, n)
    <3>1. n \in 0..(k + 1) /\ n # k + 1
      OBVIOUS
    <3>2. g = [l \in 0..k |-> Body(g, l)]
      BY <2>1
    <3>3. g[n] = Body(g, n)
      BY <3>2
    <3> QED  BY <3>1, <3>3
  <2>3. ASSUME NEW n \in 0..(k + 1) PROVE f[n] = Body(f, n)
    <3>1. f[n] = Body(g, n)
      <4>1. CASE n = k + 1
        BY <4>1
      <4>2. CASE n # k + 1
        <5>1. n \in 0..k
          BY <4>2
        <5> QED  BY <2>2, <4>2, <5>1
      <4> QED  BY <4>1, <4>2
    <3>2. n # 0 => n - 1 \in 0..k
      OBVIOUS
    <3>3. n # 0 => f[n - 1] = g[n - 1]
      BY <2>2, <3>2
    <3> QED  BY <3>1, <3>3
  <2>4. Whole(f, k + 1)
    <3>1. f = [n \in 0..(k + 1) |-> f[n]]
      OBVIOUS
    <3> QED  BY <2>3, <3>1
  <2> HIDE DEF f, Whole
  <2> QED  BY <2>4
<1>4. Nat \subseteq E
  <2> HIDE DEF E
  <2> QED  BY <1>2, <1>3, EveryNumber
<1>5. \E f : Whole(f, N)
  BY <1>1, <1>4
<1> DEFINE ending == CHOOSE f : Whole(f, N)
<1>6. Whole(ending, N)
  BY <1>5
<1>7. Ending(doc) = ending
  BY DEF Ending
<1> HIDE DEF ending
<1>8. \A n \in 0..N : ending[n] = Body(ending, n)
  BY <1>6
<1>9. ending[0] = <<"rbrace">>
  <2>1. 0 \in 0..N
    BY <1>1
  <2>2. ending[0] = Body(ending, 0)
    BY <1>8, <2>1
  <2> QED  BY <2>2
<1>10. ASSUME NEW n \in 1..N
       PROVE  ending[n] = (IF n = Len(doc) THEN <<>> ELSE <<"comma">>) \o MemberText(doc[Len(doc) - n + 1]) \o ending[n - 1]
  <2>1. n \in 0..N /\ n # 0
    BY <1>1
  <2>2. ending[n] = Body(ending, n)
    BY <1>8, <2>1
  <2> QED  BY <2>1, <2>2
<1> QED  BY <1>7, <1>9, <1>10 DEF Join

LEMMA AfterIs ==
  ASSUME NEW doc \in Documents
  PROVE  /\ \A m \in 0..Len(doc) : After(doc, m) \in Texts
         /\ After(doc, Len(doc)) = <<"rbrace">>
         /\ \A m \in 1..Len(doc) :
              After(doc, m - 1) = IF m = 1 THEN Join(MemberText(doc[m]), After(doc, m))
                                  ELSE Then("comma", Join(MemberText(doc[m]), After(doc, m)))
         /\ Text(doc) = Then("lbrace", After(doc, 0))
<1> DEFINE N == Len(doc)
           e == Ending(doc)
           E == {k \in Nat : k <= N => e[k] \in Texts}
<1>1. N \in Nat /\ \A n \in 1..N : doc[n] \in Members
  BY DocumentIs
<1>2. e[0] = <<"rbrace">> /\ <<"rbrace">> \in Texts /\ <<"comma">> \in Texts /\ <<>> \in Texts
  BY EndingIs, OneOf, EmptySeq DEF Texts
<1>3. \A n \in 1..N : e[n] = Join(Join(IF n = N THEN <<>> ELSE <<"comma">>, MemberText(doc[N - n + 1])), e[n - 1])
  BY EndingIs
<1>4. Text(doc) = Then("lbrace", e[N])
  BY DEF Text, Then
<1> HIDE DEF e, N
<1>5. ASSUME NEW n \in 1..N, e[n - 1] \in Texts
      PROVE  /\ e[n] \in Texts
             /\ e[n] = IF n = N THEN Join(MemberText(doc[N - n + 1]), e[n - 1])
                       ELSE Then("comma", Join(MemberText(doc[N - n + 1]), e[n - 1]))
  <2> DEFINE text == MemberText(doc[N - n + 1])
  <2>1. N - n + 1 \in 1..N
    BY <1>1
  <2>2. text \in Texts /\ Join(text, e[n - 1]) \in Texts
    BY <1>1, <1>5, <2>1, MemberIs
  <2>3. e[n] = Join(Join(IF n = N THEN <<>> ELSE <<"comma">>, text), e[n - 1])
    BY <1>3
  <2> HIDE DEF text
  <2>4. CASE n = N
    <3>1. Join(<<>>, text) = text
      BY <2>2, JoinIs
    <3> QED  BY <2>2, <2>3, <2>4, <3>1 DEF text
  <2>5. CASE n # N
    <3>1. e[n] = Join(Then("comma", text), e[n - 1])
      <4>1. e[n] = Join(Join(<<"comma">>, text), e[n - 1])
        BY <2>3, <2>5
      <4>2. Then("comma", text) = Join(<<"comma">>, text)
        BY <2>2, OneOf, ThenIs
      <4> QED  BY <4>1, <4>2
    <3>2. Join(Then("comma", text), e[n - 1]) = Then("comma", Join(text, e[n - 1]))
      <4>1. "comma" \in Chars
        BY OneOf
      <4> QED  BY <1>5, <2>2, <4>1, ThenIs
    <3>3. Then("comma", Join(text, e[n - 1])) \in Texts
      BY <2>2, OneOf, ThenIs
    <3> QED  BY <2>5, <3>1, <3>2, <3>3 DEF text
  <2> QED  BY <2>4, <2>5
<1>6. Nat \subseteq E
  <2>1. 0 \in E
    BY <1>2
  <2>2. ASSUME NEW k \in Nat, k \in E PROVE k + 1 \in E
    <3>1. CASE k + 1 <= N
      <4>1. k + 1 \in 1..N /\ (k + 1) - 1 = k /\ e[k] \in Texts
        BY <1>1, <2>2, <3>1
      <4>2. e[(k + 1) - 1] \in Texts
        BY <4>1
      <4>3. e[k + 1] \in Texts
        BY <1>5, <4>1, <4>2
      <4> QED  BY <4>3
    <3> QED  BY <3>1
  <2> HIDE DEF E
  <2> QED  BY <2>1, <2>2, EveryNumber
<1>7. ASSUME NEW m \in 0..N PROVE e[N - m] \in Texts
  <2>1. N - m \in Nat /\ N - m <= N
    BY <1>1
  <2> QED  BY <1>6, <2>1
<1>8. N - N = 0 /\ N - 0 = N
  BY <1>1
<1>9. ASSUME NEW m \in 1..N
      PROVE  e[N - (m - 1)] = IF m = 1 THEN Join(MemberText(doc[m]), e[N - m])
                              ELSE Then("comma", Join(MemberText(doc[m]), e[N - m]))
  <2> DEFINE n == N - (m - 1)
  <2>1. n \in 1..N /\ n - 1 = N - m /\ N - n + 1 = m /\ (n = N <=> m = 1) /\ m \in 0..N
    BY <1>1
  <2> HIDE DEF n
  <2>2. e[n - 1] \in Texts
    BY <1>7, <2>1
  <2>3. e[n] = IF n = N THEN Join(MemberText(doc[N - n + 1]), e[n - 1])
               ELSE Then("comma", Join(MemberText(doc[N - n + 1]), e[n - 1]))
    BY <1>5, <2>1, <2>2
  <2> QED  BY <2>1, <2>3 DEF n
<1> QED  BY <1>2, <1>4, <1>7, <1>8, <1>9 DEF After, e, N

-----------------------------------------------------------------------------
(* What the scanner finds where a string, a number or a value stands.         *)
LEMMA StringAt ==
  ASSUME NEW at, NEW chars \in Names, NEW t \in Texts, Follows(raw, at, Join(Quoted(chars), t))
  PROVE  /\ at \in Nat \ {0} /\ at <= Len(raw) /\ Len(raw) \in Nat /\ raw[at] = "q"
         /\ Close(at + 1) \in Nat /\ Close(at + 1) <= Len(raw)
         /\ Follows(raw, Close(at + 1) + 1, t)
         /\ SubSeq(raw, at + 1, Close(at + 1) - 1) = chars
<1>1. chars \in Texts /\ Len(chars) \in Nat
  BY NamesAreTexts, TextIs
<1>2. /\ Join(Quoted(chars), t) = Then("q", Join(chars, Then("q", t)))
      /\ Join(chars, Then("q", t)) \in Texts /\ Then("q", t) \in Texts
  <2>1. Then("q", t) \in Texts
    BY OneOf, ThenIs
  <2> QED  BY <1>1, <2>1, QuotedIs, JoinIs
<1> DEFINE tail == Then("q", t)
           inner == Join(chars, tail)
<1>3. "q" \in Chars
  BY OneOf
<1>4. Follows(raw, at, Then("q", inner)) /\ inner \in Texts /\ tail \in Texts
  BY <1>2
<1>5. at \in Nat \ {0} /\ at <= Len(raw) /\ Len(raw) \in Nat /\ raw[at] = "q" /\ Follows(raw, at + 1, inner)
  <2> HIDE DEF inner
  <2> QED  BY <1>3, <1>4, PassedOne
<1>6. Close(at + 1) = at + 1 + Len(chars)
  BY <1>5, CloseAtQuote
<1> DEFINE from == at + 1
<1>7. from \in Nat /\ Follows(raw, from, Join(chars, tail)) /\ Close(from) = from + Len(chars)
  BY <1>5, <1>6
<1> HIDE DEF tail, from
<1>8. SubSeq(raw, from, from - 1 + Len(chars)) = chars
  BY <1>1, <1>4, <1>7, Sliced
<1>9. Follows(raw, from + Len(chars), tail)
  BY <1>1, <1>4, <1>7, Passed
<1> DEFINE last == from + Len(chars)
<1>10. last \in Nat /\ last - 1 = from - 1 + Len(chars)
  BY <1>1, <1>7
<1>11. Follows(raw, last, Then("q", t))
  BY <1>9 DEF tail
<1>12. Close(from) = last
  BY <1>7
<1> HIDE DEF last
<1>13. last <= Len(raw) /\ Follows(raw, last + 1, t)
  BY <1>3, <1>11, PassedOne
<1>14. SubSeq(raw, from, last - 1) = chars
  BY <1>8, <1>10
<1> QED  BY <1>5, <1>10, <1>12, <1>13, <1>14 DEF from

LEMMA TokenIs ==
  ASSUME raw \in Texts, NEW at \in Nat \ {0}, at <= Len(raw)
  PROVE  \E last \in (at - 1)..Len(raw) :
           /\ Token(at) = SubSeq(raw, at, last)
           /\ Len(Token(at)) = last - at + 1
           /\ \A k \in at..last : raw[k] \in Digits
           /\ last = Len(raw) \/ raw[last + 1] \notin Digits
<1> DEFINE n == Len(raw)
           S == {j \in Nat : at - 1 <= j /\ j <= n /\ (j = n \/ raw[j + 1] \notin Digits)}
           Last(j) == (\A k \in at..j : raw[k] \in Digits) /\ (j = n \/ raw[j + 1] \notin Digits)
<1>1. n \in Nat
  BY TextIs
<1>2. n \in S
  BY <1>1
<1>3. PICK m \in S : \A k \in S : m <= k
  <2>1. S \in SUBSET Nat /\ S # {}
    BY <1>2
  <2> HIDE DEF S
  <2> QED  BY <2>1, LeastNumber
<1>4. m \in (at - 1)..n /\ Last(m)
  <2>1. ASSUME NEW k \in at..m PROVE raw[k] \in Digits
    <3>1. k - 1 \in Nat /\ at - 1 <= k - 1 /\ k - 1 <= n /\ k - 1 < m /\ (k - 1) + 1 = k
      BY <1>1
    <3>2. k - 1 \notin S
      BY <1>3, <3>1
    <3> QED  BY <3>1, <3>2
  <2> QED  BY <1>1, <2>1
<1>5. \E j \in (at - 1)..n : Last(j)
  BY <1>4
<1> DEFINE last == CHOOSE j \in (at - 1)..n : Last(j)
<1>6. last \in (at - 1)..n /\ Last(last)
  BY <1>5
<1>7. Token(at) = SubSeq(raw, at, last)
  BY DEF Token
<1> HIDE DEF last
<1>8. Len(SubSeq(raw, at, last)) = last - at + 1
  <2>1. \A k \in at..last : raw[k] \in Chars
    BY <1>1, <1>6, TextIs
  <2>2. at \in Int /\ last \in Int
    BY <1>1, <1>6
  <2>3. Len(SubSeq(raw, at, last)) = IF at <= last THEN last - at + 1 ELSE 0
    BY <2>1, <2>2, SubSeqProperties
  <2>4. ~(at <= last) => last - at + 1 = 0
    BY <1>1, <1>6
  <2> QED  BY <2>3, <2>4
<1> QED  BY <1>6, <1>7, <1>8

LEMMA NumberAt ==
  ASSUME NEW at, NEW chars \in Numbers, NEW c \in {"comma", "rbrace"}, NEW t \in Texts,
         Follows(raw, at, Join(chars, Then(c, t)))
  PROVE  /\ at \in Nat \ {0} /\ at <= Len(raw) /\ raw[at] # "q"
         /\ IsInteger(at) <=> \A k \in DOMAIN chars : chars[k] \in Digits
         /\ IsInteger(at) => Token(at) = chars
<1> DEFINE n == Len(chars)
           AllDigits == \A k \in 1..n : chars[k] \in Digits
<1>1. /\ chars \in Texts /\ n \in Nat \ {0} /\ DOMAIN chars = 1..n
      /\ \A k \in 1..n : chars[k] \notin Structural
  <2>1. chars \in Texts /\ chars \in Seq(STRING) /\ chars # <<>> /\ \A k \in DOMAIN chars : chars[k] \notin Structural
    BY NumbersAreTexts, NumbersArePlain
  <2>2. n \in Nat \ {0} /\ DOMAIN chars = 1..n
    BY <2>1, EmptySeq, LenProperties
  <2> QED  BY <2>1, <2>2
<1>2. c \in Chars /\ Then(c, t) \in Texts
  BY OneOf, ThenIs
<1>3. /\ Follows(raw, at + n, Then(c, t)) /\ \A k \in 1..n : raw[at - 1 + k] = chars[k]
      /\ SubSeq(raw, at, at - 1 + n) = chars
  <2> DEFINE tail == Then(c, t)
  <2> HIDE DEF tail
  <2>1. Follows(raw, at, Join(chars, tail)) /\ tail \in Texts
    BY <1>2 DEF tail
  <2>2. Follows(raw, at + n, tail) /\ \A k \in 1..n : raw[at - 1 + k] = chars[k]
    <3>1. chars \in Texts /\ tail \in Texts
      BY <1>1, <2>1
    <3>2. Follows(raw, at, Join(chars, tail))
      BY <2>1
    <3> HIDE DEF n
    <3>3. \A k \in 1..Len(chars) : raw[at - 1 + k] = chars[k]
      BY <3>1, <3>2, Passed
    <3>4. Follows(raw, at + Len(chars), tail)
      BY <3>1, <3>2, Passed
    <3> QED  BY <3>3, <3>4 DEF n
  <2>3. SubSeq(raw, at, at - 1 + n) = chars
    BY <1>1, <2>1, Sliced
  <2> QED  BY <2>2, <2>3 DEF tail
<1>4. at + n <= Len(raw) /\ raw[at + n] = c /\ Len(raw) \in Nat /\ at \in Nat \ {0} /\ raw \in Texts
  <2>1. at + n <= Len(raw) /\ raw[at + n] = c /\ Len(raw) \in Nat
    BY <1>2, <1>3, PassedOne
  <2> QED  BY <1>3, <2>1 DEF Follows
<1> HIDE DEF n
<1>5. at <= Len(raw) /\ raw[at] # "q"
  <2>1. 1 \in 1..n /\ at - 1 + 1 = at /\ at <= Len(raw)
    BY <1>1, <1>4
  <2> QED  BY <1>1, <1>3, <2>1 DEF Structural
<1>6. PICK last \in (at - 1)..Len(raw) :
        /\ Token(at) = SubSeq(raw, at, last)
        /\ Len(Token(at)) = last - at + 1
        /\ \A k \in at..last : raw[k] \in Digits
        /\ last = Len(raw) \/ raw[last + 1] \notin Digits
  BY <1>4, <1>5, TokenIs
<1>7. last <= at - 1 + n
  <2>1. CASE last >= at + n
    <3>1. at + n \in at..last
      BY <1>1, <1>4, <2>1
    <3>2. c \in Digits
      BY <1>4, <1>6, <3>1
    <3> QED  BY <3>2 DEF Digits
  <2> QED  BY <1>1, <1>4, <2>1
<1>8. /\ Len(Token(at)) = last - at + 1 /\ at + Len(Token(at)) = last + 1
      /\ last + 1 \in 1..Len(raw)
  BY <1>1, <1>4, <1>6, <1>7
<1>9. Character(at + Len(Token(at))) = raw[last + 1]
  BY <1>4, <1>8, TextIs DEF Character
<1>10. ASSUME IsInteger(at)
       PROVE  AllDigits /\ Token(at) = chars
  <2>1. last >= at
    <3>1. Token(at) # <<>> /\ raw \in Seq(Chars)
      BY <1>4, <1>10 DEF IsInteger, Texts
    <3>2. CASE last = at - 1
      <4>1. SubSeq(raw, at, last) = <<>>
        BY <1>4, <3>2, SubSeqEmpty
      <4> QED  BY <1>6, <3>1, <4>1
    <3> QED  BY <1>4, <3>2
  <2>2. raw[last + 1] \in {"comma", "rbrace"}
    BY <1>9, <1>10 DEF IsInteger
  <2>3. last = at - 1 + n
    <3>1. CASE last < at - 1 + n
      <4>1. last + 2 - at \in 1..n /\ at - 1 + (last + 2 - at) = last + 1
        BY <1>1, <1>4, <2>1, <3>1
      <4>2. raw[last + 1] \notin Structural
        BY <1>1, <1>3, <4>1
      <4> QED  BY <2>2, <4>2 DEF Structural
    <3> QED  BY <1>1, <1>4, <1>7, <3>1
  <2>4. ASSUME NEW k \in 1..n PROVE chars[k] \in Digits
    <3>1. at - 1 + k \in at..last
      BY <1>1, <1>4, <2>3
    <3> QED  BY <1>3, <1>6, <3>1
  <2> QED  BY <1>3, <1>6, <2>3, <2>4
<1>11. ASSUME AllDigits
       PROVE  IsInteger(at)
  <2>1. last = at - 1 + n
    <3>1. CASE last < at - 1 + n
      <4>1. last + 2 - at \in 1..n /\ at - 1 + (last + 2 - at) = last + 1 /\ last # Len(raw)
        BY <1>1, <1>4, <3>1
      <4>2. raw[last + 1] \in Digits
        BY <1>3, <1>11, <4>1
      <4> QED  BY <1>6, <4>1, <4>2
    <3> QED  BY <1>1, <1>4, <1>7, <3>1
  <2>2. raw[last + 1] = c /\ Len(Token(at)) = n
    BY <1>1, <1>4, <1>8, <2>1
  <2>3. Token(at) # <<>>
    BY <1>1, <2>2, EmptySeq
  <2> QED  BY <1>9, <2>2, <2>3 DEF IsInteger
<1> QED  BY <1>1, <1>4, <1>5, <1>10, <1>11

(* A value that can be a customer's: a string, or a number that is an integer.*)
Usable(v) ==
  \/ v.kind = "string"
  \/ v.kind = "number" /\ \A k \in DOMAIN v.chars : v.chars[k] \in Digits

LEMMA NotANumber ==
  ASSUME NEW at, NEW c \in {"lbrace", "lbracket"}, NEW t \in Texts, Follows(raw, at, Then(c, t))
  PROVE  ~IsInteger(at)
<1>1. raw[at] = c /\ at <= Len(raw) /\ at \in Nat \ {0} /\ Len(raw) \in Nat /\ raw \in Texts
  <2>1. c \in Chars
    BY OneOf
  <2>2. raw[at] = c /\ at <= Len(raw) /\ Len(raw) \in Nat
    BY <2>1, PassedOne
  <2> QED  BY <2>2 DEF Follows
<1>2. PICK last \in (at - 1)..Len(raw) :
        Token(at) = SubSeq(raw, at, last) /\ \A k \in at..last : raw[k] \in Digits
  BY <1>1, TokenIs
<1>3. last = at - 1
  <2>1. CASE last >= at
    <3>1. at \in at..last
      BY <1>1, <2>1
    <3>2. c \in Digits
      BY <1>1, <1>2, <3>1
    <3> QED  BY <3>2 DEF Digits
  <2> QED  BY <1>1, <2>1
<1>4. Token(at) = <<>>
  <2>1. SubSeq(raw, at, last) = <<>>
    BY <1>1, <1>3, SubSeqEmpty
  <2> QED  BY <1>2, <2>1
<1> QED  BY <1>4 DEF IsInteger

LEMMA ValueAt ==
  ASSUME NEW at, NEW v \in Values, NEW c \in {"comma", "rbrace"}, NEW t \in Texts,
         Follows(raw, at, Join(ValueText(v), Then(c, t)))
  PROVE  /\ Character(at) = "q" <=> v.kind = "string"
         /\ v.kind = "string" => /\ Close(at + 1) \in Nat /\ Close(at + 1) <= Len(raw)
                                 /\ SubSeq(raw, at + 1, Close(at + 1) - 1) = v.chars
         /\ v.kind # "string" => /\ IsInteger(at) <=> Usable(v)
                                 /\ IsInteger(at) => Token(at) = v.chars
<1> DEFINE tail == Then(c, t)
<1>1. tail \in Texts
  BY OneOf, ThenIs
<1>2. raw \in Texts /\ DOMAIN raw = 1..Len(raw) /\ Len(raw) \in Nat
  BY TextIs DEF Follows
<1>3. \A k \in Nat \ {0} : k <= Len(raw) => Character(k) = raw[k]
  BY <1>2 DEF Character
<1>4. CASE v \in Scalars /\ ValueText(v) = ScalarText(v)
  <2>1. CASE v.kind = "string" /\ v.chars \in Names /\ ScalarText(v) = Quoted(v.chars)
    <3>1. Follows(raw, at, Join(Quoted(v.chars), tail))
      BY <1>4, <2>1
    <3> HIDE DEF tail
    <3> QED  BY <1>1, <1>3, <2>1, <3>1, StringAt
  <2>2. CASE v.kind = "number" /\ v.chars \in Numbers /\ ScalarText(v) = v.chars
    <3>1. /\ at \in Nat \ {0} /\ at <= Len(raw) /\ raw[at] # "q"
          /\ IsInteger(at) <=> \A k \in DOMAIN v.chars : v.chars[k] \in Digits
          /\ IsInteger(at) => Token(at) = v.chars
      BY <1>4, <2>2, NumberAt
    <3> QED  BY <1>3, <2>2, <3>1 DEF Usable
  <2> QED  BY <1>4, <2>1, <2>2, ScalarIs
<1>5. CASE v.kind \in {"array", "object"}
  <2>1. \E d \in {"lbrace", "lbracket"}, rest \in Texts : Join(ValueText(v), tail) = Then(d, rest)
    <3>1. CASE /\ v.kind = "array" /\ v.of \in Scalars
               /\ Join(ValueText(v), tail) = Then("lbracket", Join(ScalarText(v.of), Then("rbracket", tail)))
      <4>1. Then("rbracket", tail) \in Texts /\ ScalarText(v.of) \in Texts
        BY <1>1, <3>1, OneOf, ThenIs, ScalarIs
      <4>2. Join(ScalarText(v.of), Then("rbracket", tail)) \in Texts
        BY <4>1, Joined
      <4> QED  BY <3>1, <4>2
    <3>2. CASE /\ v.kind = "object" /\ v.key \in Names /\ v.of \in Scalars
               /\ Join(ValueText(v), tail)
                  = Then("lbrace", Join(Quoted(v.key), Then("colon", Join(ScalarText(v.of), Then("rbrace", tail)))))
      <4>1. Then("rbrace", tail) \in Texts /\ ScalarText(v.of) \in Texts
        BY <1>1, <3>2, OneOf, ThenIs, ScalarIs
      <4>2. Join(ScalarText(v.of), Then("rbrace", tail)) \in Texts
        BY <4>1, Joined
      <4>3. Then("colon", Join(ScalarText(v.of), Then("rbrace", tail))) \in Texts /\ Quoted(v.key) \in Texts
        BY <3>2, <4>2, OneOf, ThenIs, NamesAreTexts, QuotedIs
      <4>4. Join(Quoted(v.key), Then("colon", Join(ScalarText(v.of), Then("rbrace", tail)))) \in Texts
        BY <4>3, Joined
      <4> QED  BY <3>2, <4>4
    <3>3. ~(v \in Scalars)
      BY <1>5, ScalarIs
    <3> HIDE DEF tail
    <3> QED  BY <1>1, <3>1, <3>2, <3>3, ValueIs
  <2>2. PICK d \in {"lbrace", "lbracket"}, rest \in Texts : Join(ValueText(v), tail) = Then(d, rest)
    BY <2>1
  <2>3. Follows(raw, at, Then(d, rest))
    BY <2>2
  <2>4. raw[at] = d /\ at <= Len(raw) /\ at \in Nat \ {0}
    BY <2>3, OneOf, PassedOne
  <2>5. Character(at) # "q"
    BY <1>3, <2>4
  <2>6. ~IsInteger(at)
    BY <2>3, NotANumber
  <2> QED  BY <1>5, <2>5, <2>6 DEF Usable
<1>6. v.kind \in {"array", "object"} \/ (v \in Scalars /\ ValueText(v) = ScalarText(v))
  BY <1>1, ValueIs
<1> QED  BY <1>4, <1>5, <1>6

-----------------------------------------------------------------------------
(* Where the scanner can be in the text of a document: what is still to come  *)
(* when the keys of so many members are read, and the depths there.           *)
Moved(depth, c, opens, closes) ==
  CASE c = opens -> depth + 1 [] c = closes -> depth - 1 [] OTHER -> depth

\* The end of a scalar: of a member's value, of an array or of an object within.
Ends(doc, m, rest, objects, arrays) ==
  /\ m > 0 \/ Len(doc) = 0
  /\ \/ rest = After(doc, m) /\ objects = 1 /\ arrays = 0
     \/ rest = Then("rbracket", After(doc, m)) /\ objects = 1 /\ arrays = 1
     \/ rest = Then("rbrace", After(doc, m)) /\ objects = 2 /\ arrays = 0

Plain == {s \in Texts : \A k \in DOMAIN s : s[k] \notin Structural}

InScalar(doc, m, rest, objects, arrays) ==
  \E t \in Texts :
    /\ Ends(doc, m, t, objects, arrays)
    /\ (\E s \in Scalars : rest = Join(ScalarText(s), t)) \/ (\E s \in Plain : rest = Join(s, t))

Within(v, t) == Join(Quoted(v.key), Then("colon", Join(ScalarText(v.of), Then("rbrace", t))))
Colon(v, t) == Then("colon", Join(ScalarText(v.of), Then("rbrace", t)))
ToValue(doc, m) == Join(ValueText(doc[m].value), After(doc, m))

InValue(doc, m, rest, objects, arrays) ==
  /\ m > 0
  /\ \/ rest = Then("colon", ToValue(doc, m)) /\ objects = 1 /\ arrays = 0
     \/ rest = ToValue(doc, m) /\ objects = 1 /\ arrays = 0
     \/ /\ doc[m].value.kind = "object" /\ objects = 2 /\ arrays = 0
        /\ rest \in {Within(doc[m].value, After(doc, m)), Colon(doc[m].value, After(doc, m))}

ToKey(doc, m) == Join(MemberText(doc[m]), After(doc, m))

Place(doc, m, rest, objects, arrays) ==
  \/ m = 0 /\ rest = Text(doc) /\ objects = 0 /\ arrays = 0
  \/ m < Len(doc) /\ rest = ToKey(doc, m + 1) /\ objects = 1 /\ arrays = 0
  \/ InValue(doc, m, rest, objects, arrays)
  \/ InScalar(doc, m, rest, objects, arrays)
  \/ m = Len(doc) /\ rest = <<>> /\ objects = 0 /\ arrays = 0

\* What can happen at a place: a character is passed, a string is passed, a key is read.
Passes(doc, m, rest, objects, arrays) ==
  \E c \in Chars, t \in Texts :
    /\ c # "q" /\ rest = Then(c, t)
    /\ Place(doc, m, t, Moved(objects, c, "lbrace", "rbrace"), Moved(arrays, c, "lbracket", "rbracket"))

Skips(doc, m, rest, objects, arrays) ==
  \E chars \in Names, c \in Chars, t \in Texts :
    /\ rest = Join(Quoted(chars), Then(c, t)) /\ (c # "colon" \/ objects # 1)
    /\ Place(doc, m, Then(c, t), objects, arrays)

Takes(doc, m, rest, objects, arrays) ==
  /\ m < Len(doc) /\ objects = 1 /\ arrays = 0
  /\ rest = Join(Quoted(doc[m + 1].key), Then("colon", ToValue(doc, m + 1)))
  /\ Place(doc, m + 1, Then("colon", ToValue(doc, m + 1)), 1, 0)

LEMMA SplitText ==
  ASSUME NEW s \in Texts, s # <<>>
  PROVE  \E c \in Chars, t \in Texts :
           /\ s = Then(c, t) /\ c = s[1] /\ 1 \in DOMAIN s
           /\ \A k \in DOMAIN t : k + 1 \in DOMAIN s /\ t[k] = s[k + 1]
<1> DEFINE c == Head(s)
           t == Tail(s)
<1>1. s \in Seq(Chars) /\ Len(s) \in Nat
  BY LenProperties DEF Texts
<1>2. /\ c \in Chars /\ t \in Seq(Chars) /\ s = <<c>> \o t
      /\ Len(t) = Len(s) - 1 /\ Len(s) # 0 /\ \A k \in 1..Len(t) : t[k] = s[k + 1]
  BY <1>1, HeadTailProperties, EmptySeq
<1>3. c = s[1]
  OBVIOUS
<1> HIDE DEF c, t
<1>4. DOMAIN s = 1..Len(s) /\ DOMAIN t = 1..Len(t) /\ t \in Texts
  BY <1>1, <1>2, LenProperties DEF Texts
<1>5. 1 \in DOMAIN s /\ \A k \in DOMAIN t : k + 1 \in DOMAIN s /\ t[k] = s[k + 1]
  BY <1>1, <1>2, <1>4
<1> QED  BY <1>2, <1>3, <1>4, <1>5 DEF Then

LEMMA EmptyIsPlain == <<>> \in Plain /\ \A t \in Texts : Join(<<>>, t) = t
<1>1. <<>> \in Texts /\ \A k \in DOMAIN <<>> : <<>>[k] \notin Structural
  BY EmptySeq, LenProperties DEF Texts
<1> QED  BY <1>1, JoinIs DEF Plain


(* What follows the end of a scalar.                                          *)
LEMMA EndsRead ==
  ASSUME NEW doc \in Documents, NEW m \in 0..Len(doc), NEW t \in Texts, NEW objects, NEW arrays,
         Ends(doc, m, t, objects, arrays)
  PROVE  \E c \in {"comma", "rbrace", "rbracket"}, u \in Texts :
           /\ t = Then(c, u)
           /\ Place(doc, m, u, Moved(objects, c, "lbrace", "rbrace"), Moved(arrays, c, "lbracket", "rbracket"))
<1> DEFINE Goal(c, u) ==
             /\ t = Then(c, u)
             /\ Place(doc, m, u, Moved(objects, c, "lbrace", "rbrace"), Moved(arrays, c, "lbracket", "rbracket"))
<1>1. Len(doc) \in Nat /\ (m > 0 \/ Len(doc) = 0)
  BY DocumentIs DEF Ends
<1>2. After(doc, m) \in Texts
  BY AfterIs
<1>3. CASE t = After(doc, m) /\ objects = 1 /\ arrays = 0 /\ m = Len(doc)
  <2>1. t = Then("rbrace", <<>>) /\ <<>> \in Texts
    <3>1. After(doc, Len(doc)) = <<"rbrace">>
      BY AfterIs
    <3>2. <<"rbrace">> \in Texts /\ <<>> \in Texts
      BY OneOf, EmptySeq DEF Texts
    <3>3. <<"rbrace">> = <<"rbrace">> \o <<>>
      BY <3>2, ConcatEmptySeq DEF Texts
    <3> QED  BY <1>3, <3>1, <3>2, <3>3 DEF Then
  <2>2. Moved(objects, "rbrace", "lbrace", "rbrace") = 0 /\ Moved(arrays, "rbrace", "lbracket", "rbracket") = 0
    BY <1>3 DEF Moved
  <2>3. Place(doc, m, <<>>, 0, 0)
    BY <1>3 DEF Place
  <2>4. Goal("rbrace", <<>>)
    BY <2>1, <2>2, <2>3
  <2> QED  BY <2>1, <2>4
<1>4. CASE t = After(doc, m) /\ objects = 1 /\ arrays = 0 /\ m # Len(doc)
  <2>1. m + 1 \in 1..Len(doc) /\ (m + 1) - 1 = m /\ m + 1 # 1 /\ m < Len(doc)
    BY <1>1, <1>4
  <2>2. t = Then("comma", ToKey(doc, m + 1))
    BY <1>4, <2>1, AfterIs DEF ToKey
  <2>3. ToKey(doc, m + 1) \in Texts
    <3>1. doc[m + 1] \in Members /\ After(doc, m + 1) \in Texts
      BY <2>1, DocumentIs, AfterIs
    <3> QED  BY <3>1, MemberIs DEF ToKey
  <2>4. Moved(objects, "comma", "lbrace", "rbrace") = 1 /\ Moved(arrays, "comma", "lbracket", "rbracket") = 0
    BY <1>4 DEF Moved
  <2>5. Place(doc, m, ToKey(doc, m + 1), 1, 0)
    BY <2>1 DEF Place
  <2>6. Goal("comma", ToKey(doc, m + 1))
    BY <2>2, <2>4, <2>5
  <2> QED  BY <2>3, <2>6
<1>5. Place(doc, m, After(doc, m), 1, 0)
  <2>1. Ends(doc, m, After(doc, m), 1, 0)
    BY <1>1 DEF Ends
  <2>2. InScalar(doc, m, After(doc, m), 1, 0)
    BY <1>2, <2>1, EmptyIsPlain DEF InScalar
  <2> QED  BY <2>2 DEF Place
<1>6. CASE t = Then("rbracket", After(doc, m)) /\ objects = 1 /\ arrays = 1
  <2>1. Moved(objects, "rbracket", "lbrace", "rbrace") = 1 /\ Moved(arrays, "rbracket", "lbracket", "rbracket") = 0
    BY <1>6 DEF Moved
  <2>2. Goal("rbracket", After(doc, m))
    BY <1>5, <1>6, <2>1
  <2> QED  BY <1>2, <2>2
<1>7. CASE t = Then("rbrace", After(doc, m)) /\ objects = 2 /\ arrays = 0
  <2>1. Moved(objects, "rbrace", "lbrace", "rbrace") = 1 /\ Moved(arrays, "rbrace", "lbracket", "rbracket") = 0
    BY <1>7 DEF Moved
  <2>2. Goal("rbrace", After(doc, m))
    BY <1>5, <1>7, <2>1
  <2> QED  BY <1>2, <2>2
<1> QED  BY <1>3, <1>4, <1>6, <1>7 DEF Ends

LEMMA PlainReads ==
  ASSUME NEW doc \in Documents, NEW m \in 0..Len(doc), NEW s \in Plain, NEW t \in Texts,
         NEW objects \in Nat, NEW arrays \in Nat, Ends(doc, m, t, objects, arrays)
  PROVE  Passes(doc, m, Join(s, t), objects, arrays)
<1>1. CASE s = <<>>
  <2>1. PICK c \in {"comma", "rbrace", "rbracket"}, u \in Texts :
          /\ t = Then(c, u)
          /\ Place(doc, m, u, Moved(objects, c, "lbrace", "rbrace"), Moved(arrays, c, "lbracket", "rbracket"))
    BY EndsRead
  <2>2. c \in Chars /\ c # "q" /\ Join(s, t) = t
    BY <1>1, OneOf, EmptyIsPlain
  <2> QED  BY <2>1, <2>2 DEF Passes
<1>2. CASE s # <<>>
  <2>1. s \in Texts /\ \A k \in DOMAIN s : s[k] \notin Structural
    BY DEF Plain
  <2>2. PICK c \in Chars, u \in Texts :
          /\ s = Then(c, u) /\ c = s[1] /\ 1 \in DOMAIN s
          /\ \A k \in DOMAIN u : k + 1 \in DOMAIN s /\ u[k] = s[k + 1]
    BY <1>2, <2>1, SplitText
  <2>3. c \notin Structural /\ u \in Plain
    <3>1. \A k \in DOMAIN u : u[k] \notin Structural
      BY <2>1, <2>2
    <3> QED  BY <2>1, <2>2, <3>1 DEF Plain
  <2>4. Join(s, t) = Then(c, Join(u, t)) /\ Join(u, t) \in Texts
    BY <2>2, ThenIs, JoinIs
  <2>5. Moved(objects, c, "lbrace", "rbrace") = objects /\ Moved(arrays, c, "lbracket", "rbracket") = arrays /\ c # "q"
    BY <2>3 DEF Moved, Structural
  <2>6. Place(doc, m, Join(u, t), objects, arrays)
    BY <2>3 DEF Place, InScalar
  <2> QED  BY <2>4, <2>5, <2>6 DEF Passes
<1> QED  BY <1>1, <1>2

LEMMA ScalarReads ==
  ASSUME NEW doc \in Documents, NEW m \in 0..Len(doc), NEW rest \in Texts,
         NEW objects \in Nat, NEW arrays \in Nat, InScalar(doc, m, rest, objects, arrays)
  PROVE  Passes(doc, m, rest, objects, arrays) \/ Skips(doc, m, rest, objects, arrays)
<1>1. PICK t \in Texts :
        /\ Ends(doc, m, t, objects, arrays)
        /\ (\E s \in Scalars : rest = Join(ScalarText(s), t)) \/ (\E s \in Plain : rest = Join(s, t))
  BY DEF InScalar
<1>2. ASSUME NEW s \in Plain, rest = Join(s, t)
      PROVE  Passes(doc, m, rest, objects, arrays)
  BY <1>1, <1>2, PlainReads
<1>3. ASSUME NEW s \in Scalars, rest = Join(ScalarText(s), t)
      PROVE  Passes(doc, m, rest, objects, arrays) \/ Skips(doc, m, rest, objects, arrays)
  <2>1. CASE s.kind = "string" /\ s.chars \in Names /\ ScalarText(s) = Quoted(s.chars)
    <3>1. PICK c \in {"comma", "rbrace", "rbracket"}, u \in Texts : t = Then(c, u)
      BY <1>1, EndsRead
    <3>2. c \in Chars /\ c # "colon"
      BY OneOf
    <3>3. Place(doc, m, t, objects, arrays)
      <4>1. InScalar(doc, m, t, objects, arrays)
        BY <1>1, EmptyIsPlain DEF InScalar
      <4> QED  BY <4>1 DEF Place
    <3> QED  BY <1>3, <2>1, <3>1, <3>2, <3>3 DEF Skips
  <2>2. CASE s.kind = "number" /\ s.chars \in Numbers /\ ScalarText(s) = s.chars
    <3>1. s.chars \in Plain
      BY <2>2, NumbersAreTexts, NumbersArePlain DEF Plain
    <3> QED  BY <1>2, <1>3, <2>2, <3>1
  <2> QED  BY <2>1, <2>2, ScalarIs
<1> QED  BY <1>1, <1>2, <1>3


LEMMA MemberStands ==
  ASSUME NEW doc \in Documents, NEW m \in 1..Len(doc)
  PROVE  /\ doc[m].key \in Names /\ doc[m].value \in Values /\ After(doc, m) \in Texts
         /\ ToValue(doc, m) \in Texts /\ Then("colon", ToValue(doc, m)) \in Texts
         /\ ToKey(doc, m) = Join(Quoted(doc[m].key), Then("colon", ToValue(doc, m)))
<1>1. doc[m] \in Members /\ m \in 0..Len(doc) /\ After(doc, m) \in Texts
  <2>1. doc[m] \in Members /\ m \in 0..Len(doc)
    BY DocumentIs
  <2> QED  BY <2>1, AfterIs
<1>2. doc[m].key \in Names /\ doc[m].value \in Values
  BY <1>1, MemberIs
<1>3. ToValue(doc, m) \in Texts
  BY <1>1, <1>2, ValueIs, JoinIs DEF ToValue
<1>4. Then("colon", ToValue(doc, m)) \in Texts
  BY <1>3, OneOf, ThenIs
<1>5. ToKey(doc, m) = Join(Quoted(doc[m].key), Then("colon", ToValue(doc, m)))
  BY <1>1, MemberIs DEF ToKey, ToValue
<1> QED  BY <1>1, <1>2, <1>3, <1>4, <1>5

LEMMA ValueReads ==
  ASSUME NEW doc \in Documents, NEW m \in 0..Len(doc), NEW rest \in Texts,
         NEW objects \in Nat, NEW arrays \in Nat, InValue(doc, m, rest, objects, arrays)
  PROVE  Passes(doc, m, rest, objects, arrays) \/ Skips(doc, m, rest, objects, arrays)
<1> DEFINE v == doc[m].value
           t == After(doc, m)
<1>1. m > 0 /\ m \in 1..Len(doc)
  BY DocumentIs DEF InValue
<1>2. v \in Values /\ t \in Texts /\ ToValue(doc, m) \in Texts /\ ToValue(doc, m) = Join(ValueText(v), t)
  BY <1>1, MemberStands DEF ToValue
<1>3. \A c \in {"colon", "lbrace", "rbrace", "lbracket", "rbracket"} : c \in Chars /\ \A u \in Texts : Then(c, u) \in Texts
  BY OneOf, ThenIs
<1>4. ASSUME NEW s \in Scalars, NEW u \in Texts, NEW o, NEW a, Ends(doc, m, u, o, a)
      PROVE  Place(doc, m, Join(ScalarText(s), u), o, a) /\ Join(ScalarText(s), u) \in Texts
  <2>1. InScalar(doc, m, Join(ScalarText(s), u), o, a)
    BY <1>4 DEF InScalar
  <2>2. Join(ScalarText(s), u) \in Texts
    BY ScalarIs, JoinIs
  <2> QED  BY <2>1, <2>2 DEF Place
<1>5. Moved(1, "colon", "lbrace", "rbrace") = 1 /\ Moved(0, "colon", "lbracket", "rbracket") = 0
      /\ Moved(2, "colon", "lbrace", "rbrace") = 2
      /\ Moved(1, "lbracket", "lbrace", "rbrace") = 1 /\ Moved(0, "lbracket", "lbracket", "rbracket") = 1
      /\ Moved(1, "lbrace", "lbrace", "rbrace") = 2 /\ Moved(0, "lbrace", "lbracket", "rbracket") = 0
  BY DEF Moved
<1>6. CASE rest = Then("colon", ToValue(doc, m)) /\ objects = 1 /\ arrays = 0
  <2>1. Place(doc, m, ToValue(doc, m), 1, 0)
    BY <1>1 DEF Place, InValue
  <2> QED  BY <1>2, <1>3, <1>5, <1>6, <2>1 DEF Passes
<1>7. CASE rest = ToValue(doc, m) /\ objects = 1 /\ arrays = 0
  <2>1. CASE v \in Scalars /\ ValueText(v) = ScalarText(v)
    <3>1. Ends(doc, m, t, 1, 0)
      BY <1>1 DEF Ends
    <3>2. InScalar(doc, m, rest, objects, arrays)
      BY <1>2, <1>7, <2>1, <3>1 DEF InScalar
    <3> QED  BY <3>2, ScalarReads
  <2>2. CASE /\ v.kind = "array" /\ v.of \in Scalars
             /\ Join(ValueText(v), t) = Then("lbracket", Join(ScalarText(v.of), Then("rbracket", t)))
    <3> DEFINE u == Then("rbracket", t)
    <3>1. Ends(doc, m, u, 1, 1) /\ u \in Texts
      BY <1>1, <1>2, <1>3 DEF Ends
    <3>2. rest = Then("lbracket", Join(ScalarText(v.of), u))
      BY <1>2, <1>7, <2>2
    <3> HIDE DEF u
    <3>3. Place(doc, m, Join(ScalarText(v.of), u), 1, 1) /\ Join(ScalarText(v.of), u) \in Texts
      BY <1>4, <2>2, <3>1
    <3>4. "lbracket" \in Chars /\ "lbracket" # "q"
      BY <1>3
    <3> QED  BY <1>5, <1>7, <3>2, <3>3, <3>4 DEF Passes
  <2>3. CASE /\ v.kind = "object" /\ v.key \in Names /\ v.of \in Scalars
             /\ Join(ValueText(v), t)
                = Then("lbrace", Join(Quoted(v.key), Then("colon", Join(ScalarText(v.of), Then("rbrace", t)))))
    <3>1. rest = Then("lbrace", Within(v, t))
      BY <1>2, <1>7, <2>3 DEF Within
    <3>2. Then("rbrace", t) \in Texts /\ ScalarText(v.of) \in Texts
      BY <1>2, <1>3, <2>3, ScalarIs
    <3>3. Then("colon", Join(ScalarText(v.of), Then("rbrace", t))) \in Texts /\ Quoted(v.key) \in Texts
      <4>1. Join(ScalarText(v.of), Then("rbrace", t)) \in Texts
        BY <3>2, JoinIs
      <4>2. v.key \in Texts
        BY <2>3, NamesAreTexts
      <4> QED  BY <1>2, <1>3, <4>1, <4>2, QuotedIs
    <3>4. Within(v, t) \in Texts
      BY <3>3, JoinIs DEF Within
    <3>5. Place(doc, m, Within(v, t), 2, 0)
      BY <1>1, <2>3 DEF Place, InValue
    <3>6. "lbrace" \in Chars /\ "lbrace" # "q"
      BY <1>3
    <3> QED  BY <1>5, <1>7, <3>1, <3>4, <3>5, <3>6 DEF Passes
  <2> QED  BY <1>2, <2>1, <2>2, <2>3, ValueIs
<1>8. CASE v.kind = "object" /\ objects = 2 /\ arrays = 0
  <2>1. v.key \in Names /\ v.of \in Scalars
    <3>1. ~(v \in Scalars)
      BY <1>8, ScalarIs
    <3> QED  BY <1>2, <1>8, <3>1, ValueIs
  <2> DEFINE u == Then("rbrace", t)
             inner == Join(ScalarText(v.of), u)
  <2>2. u \in Texts /\ Ends(doc, m, u, 2, 0)
    BY <1>1, <1>2, <1>3 DEF Ends
  <2>3. Place(doc, m, inner, 2, 0) /\ inner \in Texts
    <3> HIDE DEF u
    <3> QED  BY <1>4, <2>1, <2>2
  <2>4. Within(v, t) = Join(Quoted(v.key), Then("colon", inner)) /\ Colon(v, t) = Then("colon", inner)
    BY DEF Within, Colon
  <2>5. "colon" \in Chars /\ "colon" # "q"
    BY <1>3
  <2>6. Place(doc, m, Colon(v, t), 2, 0)
    BY <1>1, <1>8 DEF Place, InValue
  <2> HIDE DEF inner
  <2>7. CASE rest = Within(v, t)
    BY <1>8, <2>1, <2>3, <2>4, <2>5, <2>6, <2>7 DEF Skips
  <2>8. CASE rest = Colon(v, t)
    BY <1>5, <1>8, <2>3, <2>4, <2>5, <2>8 DEF Passes
  <2>9. rest \in {Within(v, t), Colon(v, t)}
    BY <1>8 DEF InValue
  <2> QED  BY <2>7, <2>8, <2>9
<1> QED  BY <1>6, <1>7, <1>8 DEF InValue

LEMMA PlaceReads ==
  ASSUME NEW doc \in Documents, NEW m \in 0..Len(doc), NEW rest \in Texts,
         NEW objects \in Nat, NEW arrays \in Nat, Place(doc, m, rest, objects, arrays)
  PROVE  \/ Passes(doc, m, rest, objects, arrays)
         \/ Skips(doc, m, rest, objects, arrays)
         \/ Takes(doc, m, rest, objects, arrays)
         \/ m = Len(doc) /\ rest = <<>> /\ objects = 0 /\ arrays = 0
<1>1. Len(doc) \in Nat
  BY DocumentIs
<1>2. CASE m = 0 /\ rest = Text(doc) /\ objects = 0 /\ arrays = 0
  <2>1. rest = Then("lbrace", After(doc, 0)) /\ After(doc, 0) \in Texts
    <3>1. 0 \in 0..Len(doc)
      BY <1>1
    <3> QED  BY <1>2, <3>1, AfterIs
  <2>2. Moved(0, "lbrace", "lbrace", "rbrace") = 1 /\ Moved(0, "lbrace", "lbracket", "rbracket") = 0
    BY DEF Moved
  <2>3. Place(doc, 0, After(doc, 0), 1, 0)
    <3>1. CASE Len(doc) = 0
      <4>1. Ends(doc, 0, After(doc, 0), 1, 0)
        BY <3>1 DEF Ends
      <4>2. InScalar(doc, 0, After(doc, 0), 1, 0)
        BY <2>1, <4>1, EmptyIsPlain DEF InScalar
      <4> QED  BY <4>2 DEF Place
    <3>2. CASE Len(doc) # 0
      <4>1. 1 \in 1..Len(doc) /\ 1 - 1 = 0 /\ 0 + 1 = 1 /\ 0 < Len(doc)
        BY <1>1, <3>2
      <4>2. After(doc, 0) = ToKey(doc, 1)
        <5>1. After(doc, 1 - 1) = IF 1 = 1 THEN Join(MemberText(doc[1]), After(doc, 1))
                                  ELSE Then("comma", Join(MemberText(doc[1]), After(doc, 1)))
          BY <4>1, AfterIs
        <5> QED  BY <4>1, <5>1 DEF ToKey
      <4> QED  BY <4>1, <4>2 DEF Place
    <3> QED  BY <3>1, <3>2
  <2>4. "lbrace" \in Chars /\ "lbrace" # "q"
    BY OneOf
  <2> QED  BY <1>2, <2>1, <2>2, <2>3, <2>4 DEF Passes
<1>3. CASE m < Len(doc) /\ rest = ToKey(doc, m + 1) /\ objects = 1 /\ arrays = 0
  <2>1. m + 1 \in 1..Len(doc) /\ m + 1 > 0
    BY <1>1, <1>3
  <2>2. ToKey(doc, m + 1) = Join(Quoted(doc[m + 1].key), Then("colon", ToValue(doc, m + 1)))
    BY <2>1, MemberStands
  <2>3. Place(doc, m + 1, Then("colon", ToValue(doc, m + 1)), 1, 0)
    BY <2>1 DEF Place, InValue
  <2> QED  BY <1>3, <2>2, <2>3 DEF Takes
<1> QED  BY <1>2, <1>3, ValueReads, ScalarReads DEF Place

LEMMA Depths ==
  ASSUME NEW doc, NEW m, NEW rest, NEW objects, NEW arrays, Place(doc, m, rest, objects, arrays)
  PROVE  objects \in 0..2 /\ arrays \in 0..1
BY DEF Place, InValue, InScalar, Ends


-----------------------------------------------------------------------------
(* What is found among so many members.                                       *)
Taken(doc, value, m) ==
  \/ value = <<>> /\ \A n \in 1..m : ~IsCustomerId(doc[n].key)
  \/ \E n \in 1..m : /\ \A k \in 1..m : IsCustomerId(doc[k].key) <=> k = n
                     /\ Usable(doc[n].value) /\ value = <<doc[n].value.chars>>

LEMMA OnlyPrincipal ==
  ASSUME document \in Documents, NEW p \in 1..Len(document),
         \A k \in 1..Len(document) : IsCustomerId(document[k].key) <=> k = p
  PROVE  /\ Principals = {p} /\ Cardinality(Principals) = 1 /\ Principal = document[p].value
         /\ Payload(IsCustomerId)
            = IF document[p].value.kind = "number" /\ IsIdentity(document[p].value.chars)
              THEN <<Rounded[document[p].value.chars[1]]>>
              ELSE IF document[p].value.kind \in {"number", "string"} THEN document[p].value.chars ELSE <<>>
<1>1. DOMAIN document = 1..Len(document) /\ Len(document) \in Nat
  BY DocumentIs
<1>2. Principals = {p} /\ Holders(IsCustomerId) = {p}
  BY <1>1 DEF Principals, Holders
<1>3. Cardinality(Principals) = 1
  BY <1>2, FS_Singleton
<1>4. Principal = document[p].value
  BY <1>2 DEF Principal
<1>5. Max({p}) = p
  BY <1>1 DEF Max
<1> QED  BY <1>2, <1>3, <1>4, <1>5 DEF Payload

LEMMA NamedIs ==
  ASSUME document \in Documents, Named
  PROVE  \E p \in 1..Len(document) :
           /\ \A k \in 1..Len(document) : IsCustomerId(document[k].key) <=> k = p
           /\ Principal = document[p].value /\ Usable(document[p].value)
           /\ document[p].value.kind \in {"number", "string"} /\ IsIdentity(document[p].value.chars)
<1>1. DOMAIN document = 1..Len(document) /\ Len(document) \in Nat
  BY DocumentIs
<1>2. IsFiniteSet(Principals)
  <2>1. IsFiniteSet(1..Len(document))
    BY <1>1, FS_Interval
  <2>2. Principals \subseteq 1..Len(document)
    BY <1>1 DEF Principals
  <2> QED  BY <2>1, <2>2, FS_Subset
<1>3. PICK p : Principals = {p}
  BY <1>2, FS_Singleton DEF Named
<1>4. p \in 1..Len(document) /\ \A k \in 1..Len(document) : IsCustomerId(document[k].key) <=> k = p
  BY <1>1, <1>3 DEF Principals
<1>5. Principal = document[p].value
  BY <1>3 DEF Principal
<1>6. document[p].value.kind \in {"number", "string"} /\ IsIdentity(document[p].value.chars)
  BY <1>5 DEF Named
<1>7. Usable(document[p].value)
  <2>1. CASE document[p].value.kind = "number"
    <3>1. document[p].value \in Values
      BY <1>4, MemberStands
    <3>2. document[p].value \in Scalars
      BY <2>1, <3>1 DEF Values
    <3>3. document[p].value.chars \in Numbers
      BY <2>1, <3>2, ScalarIs
    <3>4. document[p].value.chars \in Texts
      BY <3>3, NumbersAreTexts
    <3>5. DOMAIN document[p].value.chars = 1..1
      BY <1>6, <3>4, TextIs DEF IsIdentity
    <3> QED  BY <1>6, <2>1, <3>5 DEF Usable, IsIdentity
  <2>2. CASE document[p].value.kind = "string"
    BY <2>2 DEF Usable
  <2> QED  BY <1>6, <2>1, <2>2
<1> QED  BY <1>4, <1>5, <1>6, <1>7

LEMMA Skipped ==
  ASSUME NEW chars \in Names, NEW c \in Chars, NEW t \in Texts,
         Follows(raw, i, Join(Quoted(chars), Then(c, t))),
         c # "colon" \/ objectDepth # 1, ScanString
  PROVE  /\ Follows(raw, i', Then(c, t))
         /\ UNCHANGED <<document, raw, objectDepth, arrayDepth, found, result, id>>
<1> DEFINE close == Close(i + 1)
           u == Then(c, t)
<1>1. u \in Texts
  BY ThenIs
<1>2. close \in Nat /\ close <= Len(raw) /\ Follows(raw, close + 1, u)
  <2>1. Follows(raw, i, Join(Quoted(chars), u))
    OBVIOUS
  <2> HIDE DEF u
  <2> QED  BY <1>1, <2>1, StringAt
<1> DEFINE next == close + 1
<1>3. next \in Nat \ {0} /\ Follows(raw, next, Then(c, t))
  BY <1>2
<1> HIDE DEF next
<1>4. next <= Len(raw) /\ raw[next] = c /\ Len(raw) \in Nat
  BY <1>3, PassedOne
<1>5. raw \in Texts
  BY DEF Follows
<1>6. Character(next) = c
  <2>1. DOMAIN raw = 1..Len(raw)
    BY <1>5, TextIs
  <2>2. next \in 1..Len(raw)
    BY <1>3, <1>4
  <2> QED  BY <1>4, <2>1, <2>2 DEF Character
<1>7. ~(TopLevel /\ Character(close + 1) = "colon" /\ IsCustomerId(SubSeq(raw, i + 1, close - 1)))
  BY <1>6 DEF TopLevel, next
<1>8. ~(close > Len(raw))
  BY <1>2, <1>4
<1> HIDE DEF close
<1>9. i' = close + 1 /\ UNCHANGED <<document, raw, objectDepth, arrayDepth, found, result, id>>
  BY <1>7, <1>8 DEF ScanString, close
<1> QED  BY <1>3, <1>9 DEF next


LEMMA KeyRead ==
  ASSUME document \in Documents, NEW m \in 1..Len(document), NEW t \in Texts, NEW c \in {"comma", "rbrace"},
         After(document, m) = Then(c, t),
         Follows(raw, i, Join(Quoted(document[m].key), Then("colon", ToValue(document, m)))),
         TopLevel, Taken(document, found, m - 1), ScanString
  PROVE  /\ \/ /\ Follows(raw, i', Then("colon", ToValue(document, m)))
               /\ Taken(document, found', m) /\ result' = result
            \/ i' = i /\ found' = found /\ result' = "rejected" /\ ~Named
         /\ UNCHANGED <<document, raw, objectDepth, arrayDepth, id>>
<1> DEFINE close == Close(i + 1)
           value == close + 2
           last == Close(value + 1)
           key == document[m].key
           v == document[m].value
           u == Then("colon", ToValue(document, m))
<1>1. /\ key \in Names /\ v \in Values /\ u \in Texts /\ ToValue(document, m) \in Texts
      /\ ToValue(document, m) = Join(ValueText(v), Then(c, t)) /\ "colon" \in Chars
  BY MemberStands, OneOf DEF ToValue
<1>2. close \in Nat /\ close <= Len(raw) /\ Follows(raw, close + 1, u) /\ SubSeq(raw, i + 1, close - 1) = key
  <2>1. Follows(raw, i, Join(Quoted(key), u))
    OBVIOUS
  <2> HIDE DEF u, key
  <2> QED  BY <1>1, <2>1, StringAt
<1> DEFINE next == close + 1
<1>3. next \in Nat \ {0} /\ Follows(raw, next, Then("colon", ToValue(document, m))) /\ next + 1 = value
  BY <1>2
<1> HIDE DEF next
<1>4. next <= Len(raw) /\ raw[next] = "colon" /\ Len(raw) \in Nat /\ Follows(raw, value, Join(ValueText(v), Then(c, t)))
  <2> HIDE DEF value
  <2>1. Follows(raw, next + 1, ToValue(document, m)) /\ next <= Len(raw) /\ raw[next] = "colon" /\ Len(raw) \in Nat
    BY <1>1, <1>3, PassedOne
  <2> QED  BY <1>1, <1>3, <2>1
<1>5. raw \in Texts
  BY DEF Follows
<1>6. Character(next) = "colon"
  <2>1. DOMAIN raw = 1..Len(raw)
    BY <1>5, TextIs
  <2>2. next \in 1..Len(raw)
    BY <1>3, <1>4
  <2> QED  BY <1>4, <2>1, <2>2 DEF Character
<1>7. /\ Character(value) = "q" <=> v.kind = "string"
      /\ v.kind = "string" => last \in Nat /\ last <= Len(raw) /\ SubSeq(raw, value + 1, last - 1) = v.chars
      /\ v.kind # "string" => (IsInteger(value) <=> Usable(v)) /\ (IsInteger(value) => Token(value) = v.chars)
  <2> HIDE DEF v, value
  <2> QED  BY <1>1, <1>4, ValueAt
<1> DEFINE names == TopLevel /\ Character(next) = "colon" /\ IsCustomerId(SubSeq(raw, i + 1, close - 1))
           isString == Character(value) = "q"
           usable == isString \/ IsInteger(value)
           token == IF isString THEN SubSeq(raw, value + 1, last - 1) ELSE Token(value)
<1>10. /\ UNCHANGED <<document, raw, objectDepth, arrayDepth, id>>
       /\ \/ ~names /\ i' = next /\ UNCHANGED <<found, result>>
          \/ names /\ found = <<>> /\ usable /\ found' = <<token>> /\ i' = next /\ UNCHANGED result
          \/ names /\ (found # <<>> \/ ~usable) /\ result' = "rejected" /\ UNCHANGED <<i, found>>
  <2>1. ~(close > Len(raw)) /\ (isString => last <= Len(raw) /\ ~(last > Len(raw)))
    BY <1>2, <1>4, <1>7
  <2>2. UNCHANGED <<document, raw, objectDepth, arrayDepth, id>>
    BY DEF ScanString
  <2>3. ~names => i' = next /\ UNCHANGED <<found, result>>
    BY <2>1 DEF ScanString, next
  <2>4. names /\ found = <<>> /\ usable => found' = <<token>> /\ i' = next /\ UNCHANGED result
    BY <2>1 DEF ScanString, Repeated, next
  <2>5. names /\ (found # <<>> \/ ~usable) => result' = "rejected" /\ UNCHANGED <<i, found>>
    BY <2>1 DEF ScanString, Repeated, next
  <2> QED  BY <2>2, <2>3, <2>4, <2>5
<1>8. names <=> IsCustomerId(key)
  BY <1>2, <1>6
<1>9. (usable <=> Usable(v)) /\ (usable => token = v.chars)
  BY <1>7 DEF Usable
<1> HIDE DEF names, usable, token, close, last
<1>11. m \in Nat /\ m - 1 \in Nat /\ m \in 1..m /\ \A k \in 1..m : k \in 1..(m - 1) \/ k = m
  BY DocumentIs
<1>12. CASE ~names /\ i' = next /\ UNCHANGED <<found, result>>
  <2>1. ~IsCustomerId(key)
    BY <1>8, <1>12
  <2>3. ASSUME NEW n \in 1..(m - 1), \A k \in 1..(m - 1) : IsCustomerId(document[k].key) <=> k = n,
               Usable(document[n].value), found = <<document[n].value.chars>>
        PROVE  Taken(document, found', m)
    <3>1. n \in 1..m /\ n # m
      BY <1>11
    <3>2. \A k \in 1..m : IsCustomerId(document[k].key) <=> k = n
      BY <1>11, <2>1, <2>3, <3>1
    <3> QED  BY <1>12, <2>3, <3>1, <3>2 DEF Taken
  <2>4. Taken(document, found', m)
    <3>1. CASE \E n \in 1..(m - 1) : /\ \A k \in 1..(m - 1) : IsCustomerId(document[k].key) <=> k = n
                                     /\ Usable(document[n].value) /\ found = <<document[n].value.chars>>
      BY <2>3, <3>1
    <3>2. CASE found = <<>> /\ \A n \in 1..(m - 1) : ~IsCustomerId(document[n].key)
      <4>1. \A n \in 1..m : ~IsCustomerId(document[n].key)
        BY <1>11, <2>1, <3>2
      <4> QED  BY <1>12, <3>2, <4>1 DEF Taken
    <3> QED  BY <3>1, <3>2 DEF Taken
  <2> QED  BY <1>3, <1>10, <1>12, <2>4
<1>13. CASE names /\ found = <<>> /\ usable /\ found' = <<token>> /\ i' = next /\ UNCHANGED result
  <2>1. IsCustomerId(key) /\ Usable(v) /\ found' = <<v.chars>>
    BY <1>8, <1>9, <1>13
  <2>2. \A n \in 1..(m - 1) : ~IsCustomerId(document[n].key)
    BY <1>13 DEF Taken
  <2>3. \A k \in 1..m : IsCustomerId(document[k].key) <=> k = m
    <3>1. m \notin 1..(m - 1)
      BY <1>11
    <3> QED  BY <1>11, <2>1, <2>2, <3>1
  <2>4. Taken(document, found', m)
    BY <1>11, <2>1, <2>3 DEF Taken
  <2> QED  BY <1>3, <1>10, <1>13, <2>4
<1>14. CASE names /\ (found # <<>> \/ ~usable) /\ result' = "rejected" /\ UNCHANGED <<i, found>>
  <2>1. ASSUME Named PROVE FALSE
    <3>1. PICK p \in 1..Len(document) :
            /\ \A k \in 1..Len(document) : IsCustomerId(document[k].key) <=> k = p
            /\ Usable(document[p].value)
      BY <2>1, NamedIs
    <3>2. m = p
      BY <1>8, <1>14, <3>1
    <3>3. found # <<>>
      BY <1>9, <1>14, <3>1, <3>2
    <3>4. PICK n \in 1..(m - 1) : \A k \in 1..(m - 1) : IsCustomerId(document[k].key) <=> k = n
      BY <3>3 DEF Taken
    <3>5. n \in 1..Len(document) /\ n # m
      BY <1>11, DocumentIs
    <3> QED  BY <3>1, <3>2, <3>4, <3>5
  <2> QED  BY <1>10, <1>14, <2>1
<1> QED  BY <1>10, <1>12, <1>13, <1>14


LEMMA AfterBegins ==
  ASSUME NEW doc \in Documents, NEW m \in 1..Len(doc)
  PROVE  \E c \in {"comma", "rbrace"}, t \in Texts : After(doc, m) = Then(c, t)
<1>1. Len(doc) \in Nat /\ m \in 0..Len(doc) /\ m > 0
  BY DocumentIs
<1>2. After(doc, m) \in Texts
  BY <1>1, AfterIs
<1>3. Ends(doc, m, After(doc, m), 1, 0)
  BY <1>1 DEF Ends
<1>4. PICK c \in {"comma", "rbrace", "rbracket"}, t \in Texts :
        /\ After(doc, m) = Then(c, t)
        /\ Place(doc, m, t, Moved(1, c, "lbrace", "rbrace"), Moved(0, c, "lbracket", "rbracket"))
  BY <1>1, <1>2, <1>3, EndsRead
<1>5. c # "rbracket"
  <2>1. Moved(0, "rbracket", "lbracket", "rbracket") = 0 - 1
    BY DEF Moved
  <2>2. Moved(0, c, "lbracket", "rbracket") \in 0..1
    BY <1>4, Depths
  <2> QED  BY <2>1, <2>2
<1> QED  BY <1>4, <1>5

(* The invariant: the scanner is at a place of the text with what the keys    *)
(* that it read so far give.                                                  *)
Somewhere ==
  \E m \in 0..Len(document), rest \in Texts :
    /\ Follows(raw, i, rest)
    /\ Place(document, m, rest, objectDepth, arrayDepth)
    /\ Taken(document, found, m)

ScanIInv ==
  /\ document \in Documents
  /\ result \in {"scanning", "rejected", "accepted"}
  /\ Somewhere
  /\ IdentityIsExact
  /\ NamedIsAccepted

LEMMA FollowsIs ==
  ASSUME NEW text, NEW at, NEW rest, Follows(text, at, rest)
  PROVE  /\ text \in Texts /\ rest \in Texts /\ at \in Nat \ {0} /\ Len(text) \in Nat
         /\ at \in 1..Len(text) + 1
         /\ rest = <<>> <=> at > Len(text)
<1>1. text \in Texts /\ rest \in Texts /\ at \in Nat \ {0} /\ Len(text) = at - 1 + Len(rest)
  BY DEF Follows
<1>2. Len(text) \in Nat /\ Len(rest) \in Nat
  BY <1>1, TextIs
<1>3. rest = <<>> <=> Len(rest) = 0
  BY <1>1, EmptySeq DEF Texts
<1> QED  BY <1>1, <1>2, <1>3

LEMMA ScanStarts ==
  ASSUME ScanInit
  PROVE  ScanIInv
<1>1. document \in Documents /\ raw = Text(document) /\ i = 1 /\ objectDepth = 0 /\ arrayDepth = 0
      /\ found = <<>> /\ result = "scanning"
  BY DEF ScanInit
<1>2. Len(document) \in Nat /\ 0 \in 0..Len(document)
  BY <1>1, DocumentIs
<1>3. raw \in Texts
  <2>1. raw = Then("lbrace", After(document, 0)) /\ After(document, 0) \in Texts
    BY <1>1, <1>2, AfterIs
  <2> QED  BY <2>1, OneOf, ThenIs
<1>4. Follows(raw, 1, raw)
  <2>1. Len(raw) \in Nat
    BY <1>3, TextIs
  <2>2. Len(raw) = 1 - 1 + Len(raw) /\ 1 \in Nat \ {0} /\ \A k \in 1..Len(raw) : 1 - 1 + k = k
    BY <2>1
  <2> QED  BY <1>3, <2>2 DEF Follows
<1>5. Place(document, 0, raw, objectDepth, arrayDepth)
  BY <1>1 DEF Place
<1>6. Taken(document, found, 0)
  BY <1>1 DEF Taken
<1>7. Somewhere
  BY <1>1, <1>2, <1>3, <1>4, <1>5, <1>6 DEF Somewhere
<1> QED  BY <1>1, <1>7 DEF ScanIInv, IdentityIsExact, NamedIsAccepted

\* What a step that leaves the body and the verdict as they are has to show.
LEMMA StillScanning ==
  ASSUME ScanIInv, result = "scanning", document' = document, result' = result,
         NEW m \in 0..Len(document), NEW rest \in Texts,
         Follows(raw', i', rest), Place(document, m, rest, objectDepth', arrayDepth'),
         Taken(document, found', m)
  PROVE  ScanIInv'
<1>1. Somewhere'
  BY DEF Somewhere
<1> QED  BY <1>1 DEF ScanIInv, IdentityIsExact, NamedIsAccepted

LEMMA StringKeeps ==
  ASSUME ScanIInv, ScanString
  PROVE  ScanIInv'
<1>1. document \in Documents /\ result = "scanning" /\ raw[i] = "q" /\ i <= Len(raw)
  BY DEF ScanIInv, ScanString, Scanning
<1>2. PICK m \in 0..Len(document), rest \in Texts :
        /\ Follows(raw, i, rest) /\ Place(document, m, rest, objectDepth, arrayDepth)
        /\ Taken(document, found, m)
  BY DEF ScanIInv, Somewhere
<1>3. objectDepth \in Nat /\ arrayDepth \in Nat
  BY <1>2, Depths
<1>4. CASE Passes(document, m, rest, objectDepth, arrayDepth)
  <2>1. PICK c \in Chars, t \in Texts : c # "q" /\ rest = Then(c, t)
    BY <1>4 DEF Passes
  <2>2. raw[i] = c
    BY <1>2, <2>1, PassedOne
  <2> QED  BY <1>1, <2>1, <2>2
<1>5. CASE Skips(document, m, rest, objectDepth, arrayDepth)
  <2>1. PICK chars \in Names, c \in Chars, t \in Texts :
          /\ rest = Join(Quoted(chars), Then(c, t)) /\ (c # "colon" \/ objectDepth # 1)
          /\ Place(document, m, Then(c, t), objectDepth, arrayDepth)
    BY <1>5 DEF Skips
  <2>2. /\ Follows(raw, i', Then(c, t))
        /\ UNCHANGED <<document, raw, objectDepth, arrayDepth, found, result, id>>
    BY <1>2, <2>1, Skipped
  <2>3. Then(c, t) \in Texts
    BY ThenIs
  <2> QED  BY <1>1, <1>2, <2>1, <2>2, <2>3, StillScanning
<1>6. CASE Takes(document, m, rest, objectDepth, arrayDepth)
  <2> DEFINE n == m + 1
             t == Then("colon", ToValue(document, n))
  <2>1. n \in 1..Len(document) /\ n \in 0..Len(document) /\ n - 1 = m /\ TopLevel
        /\ rest = Join(Quoted(document[n].key), t) /\ Place(document, n, t, 1, 0)
        /\ objectDepth = 1 /\ arrayDepth = 0
    BY <1>1, <1>6, DocumentIs DEF Takes, TopLevel
  <2>2. t \in Texts
    BY <1>1, <2>1, MemberStands
  <2>3. PICK c \in {"comma", "rbrace"}, u \in Texts : After(document, n) = Then(c, u)
    BY <1>1, <2>1, AfterBegins
  <2>4. Follows(raw, i, Join(Quoted(document[n].key), Then("colon", ToValue(document, n))))
        /\ Taken(document, found, n - 1)
    BY <1>2, <2>1
  <2> HIDE DEF n
  <2>5. /\ \/ /\ Follows(raw, i', Then("colon", ToValue(document, n)))
              /\ Taken(document, found', n) /\ result' = result
           \/ i' = i /\ found' = found /\ result' = "rejected" /\ ~Named
        /\ UNCHANGED <<document, raw, objectDepth, arrayDepth, id>>
    BY <1>1, <2>1, <2>3, <2>4, KeyRead
  <2>6. CASE Follows(raw, i', t) /\ Taken(document, found', n) /\ result' = result
    <3> HIDE DEF t
    <3> QED  BY <1>1, <2>1, <2>2, <2>5, <2>6, StillScanning
  <2>7. CASE i' = i /\ found' = found /\ result' = "rejected" /\ ~Named
    <3>1. Somewhere'
      BY <1>2, <2>5, <2>7 DEF Somewhere
    <3>2. ~Named'
      BY <2>5, <2>7 DEF Named, Principal, Principals
    <3> QED  BY <1>1, <2>5, <2>7, <3>1, <3>2 DEF ScanIInv, IdentityIsExact, NamedIsAccepted
  <2> QED  BY <2>5, <2>6, <2>7
<1>7. rest # <<>>
  BY <1>1, <1>2, FollowsIs
<1> QED  BY <1>1, <1>2, <1>3, <1>4, <1>5, <1>6, <1>7, PlaceReads

LEMMA OtherKeeps ==
  ASSUME ScanIInv, ScanOther
  PROVE  ScanIInv'
<1>1. document \in Documents /\ result = "scanning" /\ raw[i] # "q" /\ i <= Len(raw)
  BY DEF ScanIInv, ScanOther, Scanning
<1>2. PICK m \in 0..Len(document), rest \in Texts :
        /\ Follows(raw, i, rest) /\ Place(document, m, rest, objectDepth, arrayDepth)
        /\ Taken(document, found, m)
  BY DEF ScanIInv, Somewhere
<1>3. objectDepth \in Nat /\ arrayDepth \in Nat
  BY <1>2, Depths
<1>4. CASE Passes(document, m, rest, objectDepth, arrayDepth)
  <2>1. PICK c \in Chars, t \in Texts :
          /\ rest = Then(c, t)
          /\ Place(document, m, t, Moved(objectDepth, c, "lbrace", "rbrace"),
                                   Moved(arrayDepth, c, "lbracket", "rbracket"))
    BY <1>4 DEF Passes
  <2>2. raw[i] = c /\ Follows(raw, i + 1, t)
    BY <1>2, <2>1, PassedOne
  <2>3. /\ objectDepth' = Moved(objectDepth, c, "lbrace", "rbrace")
        /\ arrayDepth' = Moved(arrayDepth, c, "lbracket", "rbracket")
        /\ i' = i + 1 /\ UNCHANGED <<document, raw, found, result, id>>
    BY <2>2 DEF ScanOther, Depth, Moved
  <2>4. Follows(raw', i', t) /\ Place(document, m, t, objectDepth', arrayDepth') /\ Taken(document, found', m)
    BY <1>2, <2>1, <2>2, <2>3
  <2> QED  BY <1>1, <2>3, <2>4, StillScanning
<1>5. CASE Skips(document, m, rest, objectDepth, arrayDepth)
  <2>1. PICK chars \in Names, c \in Chars, t \in Texts : rest = Join(Quoted(chars), Then(c, t))
    BY <1>5 DEF Skips
  <2>2. Then(c, t) \in Texts
    BY ThenIs
  <2>3. raw[i] = "q"
    BY <1>2, <2>1, <2>2, StringAt
  <2> QED  BY <1>1, <2>3
<1>6. CASE Takes(document, m, rest, objectDepth, arrayDepth)
  <2> DEFINE n == m + 1
             t == Then("colon", ToValue(document, n))
  <2>1. n \in 1..Len(document) /\ rest = Join(Quoted(document[n].key), t)
    BY <1>1, <1>6, DocumentIs DEF Takes
  <2>2. t \in Texts /\ document[n].key \in Names
    BY <1>1, <2>1, MemberStands
  <2> HIDE DEF t, n
  <2>3. raw[i] = "q"
    BY <1>2, <2>1, <2>2, StringAt
  <2> QED  BY <1>1, <2>3
<1>7. rest # <<>>
  BY <1>1, <1>2, FollowsIs
<1> QED  BY <1>1, <1>2, <1>3, <1>4, <1>5, <1>6, <1>7, PlaceReads

LEMMA TextEnds ==
  ASSUME document \in Documents, NEW m \in 0..Len(document), NEW rest \in Texts,
         Follows(raw, i, rest), Place(document, m, rest, objectDepth, arrayDepth), i > Len(raw)
  PROVE  m = Len(document) /\ objectDepth = 0 /\ arrayDepth = 0
<1>1. objectDepth \in Nat /\ arrayDepth \in Nat
  BY Depths
<1>2. ASSUME NEW c \in Chars, NEW t \in Texts, Follows(raw, i, Then(c, t)) PROVE FALSE
  <2>1. i <= Len(raw) /\ i \in Nat \ {0} /\ Len(raw) \in Nat
    BY <1>2, PassedOne
  <2> QED  BY <2>1
<1>3. ASSUME NEW chars \in Names, NEW t \in Texts, Follows(raw, i, Join(Quoted(chars), t)) PROVE FALSE
  <2>1. i <= Len(raw) /\ i \in Nat \ {0} /\ Len(raw) \in Nat
    BY <1>3, StringAt
  <2> QED  BY <2>1
<1>4. ~Passes(document, m, rest, objectDepth, arrayDepth)
  BY <1>2 DEF Passes
<1>5. ~Skips(document, m, rest, objectDepth, arrayDepth)
  BY <1>3, ThenIs DEF Skips
<1>6. ~Takes(document, m, rest, objectDepth, arrayDepth)
  <2> SUFFICES ASSUME Takes(document, m, rest, objectDepth, arrayDepth) PROVE FALSE
    OBVIOUS
  <2> DEFINE n == m + 1
             t == Then("colon", ToValue(document, n))
  <2>1. n \in 1..Len(document) /\ rest = Join(Quoted(document[n].key), t)
    BY DocumentIs DEF Takes
  <2>2. t \in Texts /\ document[n].key \in Names
    BY <2>1, MemberStands
  <2>3. Follows(raw, i, Join(Quoted(document[n].key), t))
    BY <2>1
  <2> HIDE DEF t, n
  <2> QED  BY <1>3, <2>2, <2>3
<1> QED  BY <1>1, <1>4, <1>5, <1>6, PlaceReads

LEMMA DecideKeeps ==
  ASSUME ScanIInv, Decide
  PROVE  ScanIInv'
<1>1. document \in Documents /\ result = "scanning" /\ i > Len(raw)
      /\ UNCHANGED <<document, raw, i, objectDepth, arrayDepth, found>>
  BY DEF ScanIInv, Decide
<1>2. PICK m \in 0..Len(document), rest \in Texts :
        /\ Follows(raw, i, rest) /\ Place(document, m, rest, objectDepth, arrayDepth)
        /\ Taken(document, found, m)
  BY DEF ScanIInv, Somewhere
<1>3. m = Len(document)
  BY <1>1, <1>2, TextEnds
<1>4. Somewhere'
  BY <1>1, <1>2 DEF Somewhere
<1>5. Named' = Named /\ Principal' = Principal
  BY <1>1 DEF Named, Principal, Principals
<1>6. /\ Holders(IsAlias)' = Holders(IsAlias)
      /\ NamesAnother' = NamesAnother /\ NumberIsRounded' = NumberIsRounded
  BY <1>1, <1>5 DEF Holders, Alias, NamesAnother, NumberIsRounded
<1>7. CASE found # <<>> /\ IsIdentity(found[1]) /\ Agrees
  <2>1. result' = "accepted" /\ id' = found[1]
    BY <1>7 DEF Decide, Accepted
  <2>2. PICK p \in 1..Len(document) :
          /\ \A k \in 1..Len(document) : IsCustomerId(document[k].key) <=> k = p
          /\ Usable(document[p].value) /\ found = <<document[p].value.chars>>
    BY <1>2, <1>3, <1>7 DEF Taken
  <2>3. Cardinality(Principals) = 1 /\ Principal = document[p].value
    BY <1>1, <2>2, OnlyPrincipal
  <2>4. found[1] = document[p].value.chars /\ document[p].value.kind \in {"number", "string"}
    BY <2>2 DEF Usable
  <2>5. Named /\ id' = Principal.chars
    BY <1>7, <2>1, <2>3, <2>4 DEF Named
  <2>6. IdentityIsExact' /\ NamedIsAccepted'
    BY <1>5, <2>1, <2>5 DEF IdentityIsExact, NamedIsAccepted
  <2> QED  BY <1>1, <1>4, <2>1, <2>6 DEF ScanIInv
<1>8. CASE ~(found # <<>> /\ IsIdentity(found[1]) /\ Agrees)
  <2>1. result' = "rejected"
    BY <1>8 DEF Decide
  <2>2. ASSUME Named PROVE Holders(IsAlias) # {} /\ (NamesAnother \/ NumberIsRounded)
    <3>1. PICK p \in 1..Len(document) :
            /\ \A k \in 1..Len(document) : IsCustomerId(document[k].key) <=> k = p
            /\ Principal = document[p].value
            /\ document[p].value.kind \in {"number", "string"} /\ IsIdentity(document[p].value.chars)
      BY <1>1, <2>2, NamedIs
    <3>2. found = <<document[p].value.chars>>
      <4>1. ~(\A n \in 1..Len(document) : ~IsCustomerId(document[n].key))
        BY <3>1
      <4>2. PICK n \in 1..Len(document) :
              /\ \A k \in 1..Len(document) : IsCustomerId(document[k].key) <=> k = n
              /\ found = <<document[n].value.chars>>
        BY <1>2, <1>3, <4>1 DEF Taken
      <4>3. n = p
        BY <3>1, <4>2
      <4> QED  BY <4>2, <4>3
    <3>3. found[1] = document[p].value.chars /\ found # <<>> /\ IsIdentity(found[1])
      BY <3>1, <3>2
    <3>4. Payload(IsCustomerId) \in {found[1], <<Rounded[found[1][1]]>>}
      <4>1. Payload(IsCustomerId)
            = IF document[p].value.kind = "number" /\ IsIdentity(document[p].value.chars)
              THEN <<Rounded[document[p].value.chars[1]]>>
              ELSE IF document[p].value.kind \in {"number", "string"} THEN document[p].value.chars ELSE <<>>
        BY <1>1, <3>1, OnlyPrincipal
      <4> QED  BY <3>1, <3>3, <4>1
    <3>5. Holders(IsAlias) # {} /\ Payload(IsAlias) # Principal.chars
      BY <1>8, <3>1, <3>3, <3>4 DEF Agrees
    <3>6. Payload(IsAlias)
          = IF Alias.kind = "number" /\ IsIdentity(Alias.chars) THEN <<Rounded[Alias.chars[1]]>>
            ELSE IF Alias.kind \in {"number", "string"} THEN Alias.chars ELSE <<>>
      BY DEF Payload, Alias
    <3> QED  BY <3>5, <3>6 DEF NamesAnother, NumberIsRounded
  <2>3. IdentityIsExact'
    BY <2>1 DEF IdentityIsExact
  <2>4. NamedIsAccepted'
    BY <1>1, <1>5, <1>6, <2>2 DEF NamedIsAccepted
  <2> QED  BY <1>1, <1>4, <2>1, <2>3, <2>4 DEF ScanIInv
<1> QED  BY <1>7, <1>8

LEMMA ScanHolds ==
  ASSUME ScanIInv
  PROVE  ScanInv
<1>1. PICK m \in 0..Len(document), rest \in Texts :
        Follows(raw, i, rest) /\ Place(document, m, rest, objectDepth, arrayDepth)
  BY DEF ScanIInv, Somewhere
<1>2. objectDepth \in 0..2 /\ arrayDepth \in 0..1
  BY <1>1, Depths
<1>3. i \in 1..Len(raw) + 1
  BY <1>1, FollowsIs
<1>4. i > Len(raw) => objectDepth = 0 /\ arrayDepth = 0
  BY <1>1, TextEnds DEF ScanIInv
<1> QED  BY <1>2, <1>3, <1>4 DEF ScanIInv, ScanInv, ScanTypeOK

(* Whatever the body says, the id that is accepted is, digit for digit, its   *)
(* only top-level customer_id, and a body that names one customer is refused  *)
(* only for an alias that names another or is a number the SDK has rounded,   *)
(* for every document of any length over any names and numbers                *)
(* (shopify-whatsapp-consent-normalization.ts).                               *)
THEOREM ScanAlwaysHolds == ScanSpec => []ScanInv
<1>1. ScanInit => ScanIInv
  BY ScanStarts
<1>2. ScanIInv /\ [Scan]_scan => ScanIInv'
  <2> SUFFICES ASSUME ScanIInv, [Scan]_scan PROVE ScanIInv'
    OBVIOUS
  <2>1. CASE ScanString
    BY <2>1, StringKeeps
  <2>2. CASE ScanOther
    BY <2>2, OtherKeeps
  <2>3. CASE Decide
    BY <2>3, DecideKeeps
  <2>4. CASE UNCHANGED scan
    <3>1. UNCHANGED <<document, raw, i, objectDepth, arrayDepth, found, result, id>>
      BY <2>4 DEF scan
    <3>2. Somewhere'
      BY <3>1 DEF ScanIInv, Somewhere
    <3>3. Named' = Named /\ Principal' = Principal
      BY <3>1 DEF Named, Principal, Principals
    <3>4. /\ Holders(IsAlias)' = Holders(IsAlias)
          /\ NamesAnother' = NamesAnother /\ NumberIsRounded' = NumberIsRounded
      BY <3>1, <3>3 DEF Holders, Alias, NamesAnother, NumberIsRounded
    <3> QED  BY <3>1, <3>2, <3>3, <3>4 DEF ScanIInv, IdentityIsExact, NamedIsAccepted
  <2> QED  BY <2>1, <2>2, <2>3, <2>4 DEF Scan
<1>3. ScanIInv => ScanInv
  BY ScanHolds
<1> QED  BY <1>1, <1>2, <1>3, PTL DEF ScanSpec

=============================================================================
