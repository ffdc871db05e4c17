-------------------------- MODULE LeaseHistoryProofs --------------------------
(***************************************************************************)
(* The lease rows a ticket leaves behind, in the order they were handed    *)
(* out and against the attempts it was charged.                            *)
(***************************************************************************)
EXTENDS TicketLeasesProofs

\* The leases of a ticket over its life.

\* Lease ids are handed out in order, so a held lease is the latest of its
\* ticket; this is what makes the lease that wins the last one.
LeaseHistory ==
  /\ \A k, l \in LeaseIds : k < l /\ lstate[l] # "absent" => lstate[k] # "absent"
  /\ \A l \in LeaseIds : lstate[l] = "held" => \A k \in LeasesOf(lticket[l]) : k <= l
  /\ OneSuccessfulLease

LEMMA LeaseHistoryStep ==
  TypeOK /\ LeasedIffHeldOnce /\ LeaseHistory /\ [Next]_vars => LeaseHistory'
<1> SUFFICES ASSUME TypeOK, LeasedIffHeldOnce, LeaseHistory, [Next]_vars PROVE LeaseHistory'
  OBVIOUS
<1>0. LeaseIds \subseteq Nat
  BY TicketAssumption
<1> USE DEF LeaseHistory, OneSuccessfulLease, LeasesOf, TypeOK
<1>1. ASSUME UNCHANGED <<lstate, lticket>>,
             \A t \in Tickets : tstate'[t] = "succeeded" <=> tstate[t] = "succeeded"
      PROVE  LeaseHistory'
  BY <1>1
<1>2. CASE UNCHANGED vars \/ RegistryStep \/ Tick
  BY <1>1, <1>2 DEF vars, RegistryStep, Tick, ticketVars, leaseVars
<1>3. ASSUME NEW now \in Readings, NEW l \in LeaseIds, NEW t \in Tickets, NEW w \in Workers,
             NEW ttl \in TTLs, AcquireLease(l, t, w, ttl, now)
      PROVE  LeaseHistory'
  <2>1. /\ lstate[l] = "absent" /\ tstate[t] = "ready"
        /\ \A k \in LeaseIds : k < l => lstate[k] # "absent"
        /\ lstate' = [lstate EXCEPT ![l] = "held"]
        /\ lticket' = [lticket EXCEPT ![l] = t]
        /\ tstate' = [tstate EXCEPT ![t] = "leased"]
    BY <1>3 DEF AcquireLease, Claimable, IsNextLease
  <2>2. \A k \in LeaseIds : lstate[k] # "absent" => k < l
    BY <2>1, <1>0
  <2>3. \A u \in Tickets : LeasesOf(u)' = IF u = t THEN LeasesOf(u) \cup {l} ELSE LeasesOf(u)
    BY <2>1
  <2>4. l <= l /\ \A u \in Tickets : \A k \in LeasesOf(u) : k <= l
    BY <2>2, <1>0
  <2>5. OneSuccessfulLease'
    <3>1. ASSUME NEW u \in Tickets
          PROVE  {k \in LeasesOf(u)' : lstate'[k] = "released"} = {k \in LeasesOf(u) : lstate[k] = "released"}
      BY <2>1, <2>3
    <3>2. \A u \in Tickets : tstate'[u] = "succeeded" <=> tstate[u] = "succeeded"
      BY <2>1
    <3>3. {k \in LeasesOf(t) : lstate[k] = "released"} = {}
      BY <2>1
    <3> SUFFICES ASSUME NEW u \in Tickets
                 PROVE  /\ tstate'[u] = "succeeded"
                           <=> {k \in LeasesOf(u)' : lstate'[k] = "released"} # {}
                        /\ \A j \in {k \in LeasesOf(u)' : lstate'[k] = "released"} :
                             \A k \in LeasesOf(u)' : k <= j
      BY Zenon
    <3>4. CASE u = t
      BY <3>4, <3>1, <3>3, <2>1
    <3>5. CASE u # t
      <4>1. LeasesOf(u)' = LeasesOf(u)
        BY <3>5, <2>3
      <4> QED BY <4>1, <3>1, <3>2
    <3> QED BY <3>4, <3>5
  <2>6. (\A k \in LeaseIds : lstate[k] = "held" => \A j \in LeasesOf(lticket[k]) : j <= k)'
    <3> SUFFICES ASSUME NEW k \in LeaseIds, lstate'[k] = "held",
                        NEW j \in LeaseIds, lstate'[j] # "absent", lticket'[j] = lticket'[k]
                 PROVE  j <= k
      OBVIOUS
    <3>1. CASE k = l
      BY <3>1, <2>1, <2>2, <1>0
    <3>2. CASE k # l
      <4>1. lstate[k] = "held" /\ lticket[k] # t
        BY <3>2, <2>1 DEF LeasedIffHeldOnce, HeldFor
      <4> QED BY <4>1, <3>2, <2>1
    <3> QED BY <3>1, <3>2
  <2>7. (\A j, k \in LeaseIds : j < k /\ lstate[k] # "absent" => lstate[j] # "absent")'
    BY <2>1, <2>2
  <2> QED BY <2>5, <2>6, <2>7
<1>4. ASSUME NEW now \in Readings, NEW l \in LeaseIds, NEW ttl \in TTLs, HeartbeatLease(l, ttl, now)
      PROVE  LeaseHistory'
  BY <1>1, <1>4 DEF HeartbeatLease, ticketVars
<1>5. ASSUME NEW l \in LeaseIds, ReleaseLease(l) PROVE LeaseHistory'
  <2>1. /\ lticket[l] \in Tickets /\ tstate[lticket[l]] = "leased" /\ lstate[l] = "held"
        /\ lstate' = [lstate EXCEPT ![l] = "released"]
        /\ lticket' = lticket
    BY <1>5 DEF ReleaseLease, Endable
  <2>2. \A u \in Tickets : tstate'[u] = "succeeded" <=> tstate[u] = "succeeded" \/ u = lticket[l]
    BY <1>5 DEF ReleaseLease, Promoted, Unblocked
  <2> QED BY <2>1, <2>2
<1>6. ASSUME NEW l \in LeaseIds, NEW final \in LeaseState \ {"absent", "held", "released"},
             lstate[l] = "held", lstate' = [lstate EXCEPT ![l] = final], lticket' = lticket,
             \A t \in Tickets : tstate'[t] = "succeeded" <=> tstate[t] = "succeeded"
      PROVE  LeaseHistory'
  BY <1>6
<1>7. ASSUME NEW now \in Readings, NEW l \in LeaseIds, NEW r \in BOOLEAN, NEW delay \in 0..BackoffCap,
             FailLease(l, r, now, delay)
      PROVE  LeaseHistory'
  <2>1. \A t \in Tickets : tstate'[t] = "succeeded" <=> tstate[t] = "succeeded"
    BY <1>7 DEF FailLease, Endable, Requeue, FailTicket
  <2> QED BY <1>6, <1>7, <2>1 DEF FailLease, Endable, LeaseState
<1>8. ASSUME NEW j \in Jobs, OpenJob(j) \/ SucceedJob(j) \/ FailJob(j) \/ CancelJob(j)
      PROVE  LeaseHistory'
  BY <1>1, <1>8 DEF OpenJob, SucceedJob, FailJob, CancelJob, CloseJob, ticketVars, leaseVars
<1>9. ASSUME NEW t \in Tickets, NEW d \in Tickets, AddDependency(t, d) PROVE LeaseHistory'
  BY <1>1, <1>9 DEF AddDependency, leaseVars
<1>10. ASSUME NEW t \in Tickets, MarkReadyIfUnblocked(t) PROVE LeaseHistory'
  BY <1>1, <1>10 DEF MarkReadyIfUnblocked, Unblocked, leaseVars
<1>11. ASSUME NEW now \in Readings, NEW t \in Tickets, NEW j \in Jobs \cup {None},
              NEW k \in TicketKinds, NEW m \in MaxAttemptsChoices, CreateTicket(t, j, k, m, now)
       PROVE  LeaseHistory'
  BY <1>1, <1>11 DEF CreateTicket, leaseVars
<1>12. ASSUME NEW now \in Readings, NEW t \in Tickets, NEW a \in BOOLEAN, NEW delay \in 0..BackoffCap,
              RecordPreLeaseFailure(t, a, now, delay)
       PROVE  LeaseHistory'
  <2>1. UNCHANGED <<lstate, lticket>> /\ tstate[t] = "ready"
    BY <1>12 DEF RecordPreLeaseFailure, leaseVars
  <2>2. \E final \in {"ready", "failed"} : tstate' = [tstate EXCEPT ![t] = final]
    BY <1>12 DEF RecordPreLeaseFailure, Requeue, FailTicket
  <2>3. tstate \in [Tickets -> TicketState]
    OBVIOUS
  <2>4. \A u \in Tickets : tstate'[u] = "succeeded" <=> tstate[u] = "succeeded"
    BY ONLY <2>1, <2>2, <2>3
  <2> QED BY <1>1, <2>1, <2>4
<1>13. ASSUME NEW now \in Readings, NEW l \in LeaseIds, NEW q \in BOOLEAN, ForceReleaseLease(l, q, now)
       PROVE  LeaseHistory'
  <2>1. \A t \in Tickets : tstate'[t] = "succeeded" <=> tstate[t] = "succeeded"
    BY <1>13 DEF ForceReleaseLease, Endable, Requeue, FailTicket
  <2> QED BY <1>6, <1>13, <2>1 DEF ForceReleaseLease, Endable, LeaseState
<1>14. ASSUME NEW now \in Readings, ExpireDue(now) PROVE LeaseHistory'
  <2>1. PICK batch \in SUBSET LeaseIds, moved \in SUBSET Tickets :
          \E spent \in SUBSET moved : ExpiryEffect(now, batch, moved, spent)
    BY <1>14, ExpiryFacts, Zenon
  <2>2. PICK spent \in SUBSET moved : ExpiryEffect(now, batch, moved, spent)
    BY <2>1
  <2>3. \A t \in Tickets : tstate'[t] = "succeeded" <=> tstate[t] = "succeeded"
    BY <2>2 DEF ExpiryEffect
  <2>4. \A l \in LeaseIds : /\ lstate'[l] = "absent" <=> lstate[l] = "absent"
                            /\ lstate'[l] = "released" <=> lstate[l] = "released"
                            /\ lstate'[l] = "held" => lstate[l] = "held"
    BY <2>2 DEF ExpiryEffect
  <2>5. lticket' = lticket
    BY <2>2 DEF ExpiryEffect
  <2> QED BY <2>3, <2>4, <2>5
<1> HIDE DEF LeaseHistory, TypeOK
<1> QED
  BY <1>2, <1>3, <1>4, <1>5, <1>7, <1>8, <1>9, <1>10, <1>11, <1>12, <1>13, <1>14
     DEF Next, WorkerNext, ControlNext

\* A ticket succeeds through one lease, and no lease of it was granted later:
\* the completion of a lease that had been reaped and replaced never counts.
THEOREM LastLeaseWins == Spec => []OneSuccessfulLease
<1>1. Init => LeaseHistory
  BY DEF Init, ExecutionInit, LeaseHistory, OneSuccessfulLease, LeasesOf
<1>2. LeaseHistory => OneSuccessfulLease
  BY DEF LeaseHistory
<1> QED BY <1>1, <1>2, LeaseHistoryStep, TypeCorrect, TicketExclusivelyHeld, PTL DEF Spec
\* Leases granted never outrun the attempts charged.
Accounted == \A t \in Tickets : Cardinality(LeasesOf(t)) <= tattempt[t]

LEMMA LeasesFinite ==
  ASSUME NEW t \in Tickets
  PROVE  IsFiniteSet(LeasesOf(t)) /\ Cardinality(LeasesOf(t)) \in Nat
<1>1. LeasesOf(t) \subseteq LeaseIds /\ IsFiniteSet(LeaseIds)
  BY TicketAssumption DEF LeasesOf
<1>2. IsFiniteSet(LeasesOf(t))
  BY <1>1, FS_Subset
<1> QED BY <1>2, FS_CardinalityType

LEMMA AccountedFrame ==
  ASSUME TypeOK, TypeOK', Accounted,
         \A l \in LeaseIds : lstate'[l] = "absent" <=> lstate[l] = "absent",
         lticket' = lticket,
         \A t \in Tickets : tattempt'[t] >= tattempt[t]
  PROVE  Accounted'
<1> SUFFICES ASSUME NEW t \in Tickets PROVE (Cardinality(LeasesOf(t)) <= tattempt[t])'
  BY DEF Accounted
<1>1. LeasesOf(t)' = LeasesOf(t)
  BY DEF LeasesOf
<1>2. Cardinality(LeasesOf(t)) <= tattempt[t] /\ tattempt[t] \in Nat /\ tattempt'[t] \in Nat
  BY DEF Accounted, TypeOK
<1> QED BY <1>1, <1>2, LeasesFinite

LEMMA AccountedStep == TypeOK /\ Accounted /\ [Next]_vars => Accounted'
<1> SUFFICES ASSUME TypeOK, Accounted, [Next]_vars PROVE Accounted'
  OBVIOUS
<1>0. TypeOK'
  BY TypeStep
<1>1. ASSUME NEW now \in Readings, NEW l \in LeaseIds, NEW t \in Tickets, NEW w \in Workers,
             NEW ttl \in TTLs, AcquireLease(l, t, w, ttl, now)
      PROVE  Accounted'
  <2> SUFFICES ASSUME NEW u \in Tickets PROVE (Cardinality(LeasesOf(u)) <= tattempt[u])'
    BY DEF Accounted
  <2>1. tattempt[u] \in Nat /\ Cardinality(LeasesOf(u)) <= tattempt[u]
    BY DEF Accounted, TypeOK
  <2>2. l \notin LeasesOf(u) /\ LeasesOf(u)' = IF u = t THEN LeasesOf(u) \cup {l} ELSE LeasesOf(u)
    BY <1>1 DEF AcquireLease, IsNextLease, LeasesOf, TypeOK
  <2>3. Cardinality(LeasesOf(u) \cup {l}) = Cardinality(LeasesOf(u)) + 1
    BY <2>2, LeasesFinite, FS_AddElement
  <2>4. tattempt'[u] = IF u = t THEN tattempt[u] + 1 ELSE tattempt[u]
    BY <1>1 DEF AcquireLease, Charged, TypeOK
  <2> QED BY <2>1, <2>2, <2>3, <2>4, LeasesFinite
<1>2. ASSUME lticket' = lticket, tattempt' = tattempt,
             \A l \in LeaseIds : lstate'[l] = "absent" <=> lstate[l] = "absent"
      PROVE  Accounted'
  <2>1. \A t \in Tickets : tattempt'[t] >= tattempt[t]
    BY <1>2 DEF TypeOK
  <2> QED BY <1>0, <1>2, <2>1, AccountedFrame
<1>3. CASE UNCHANGED vars \/ RegistryStep \/ Tick
  BY <1>2, <1>3 DEF vars, RegistryStep, Tick, ticketVars, leaseVars
<1>4. ASSUME NEW now \in Readings, NEW l \in LeaseIds,
             \/ \E ttl \in TTLs : HeartbeatLease(l, ttl, now)
             \/ ReleaseLease(l)
             \/ \E r \in BOOLEAN, delay \in 0..BackoffCap : FailLease(l, r, now, delay)
             \/ \E q \in BOOLEAN : ForceReleaseLease(l, q, now)
      PROVE  Accounted'
  <2>1. lticket' = lticket /\ tattempt' = tattempt
    BY <1>4 DEF HeartbeatLease, ReleaseLease, FailLease, ForceReleaseLease, ticketVars
  <2>2. \A k \in LeaseIds : lstate'[k] = "absent" <=> lstate[k] = "absent"
    BY <1>4 DEF HeartbeatLease, ReleaseLease, FailLease, ForceReleaseLease, Endable, TypeOK
  <2> QED BY <1>2, <2>1, <2>2
<1>5. ASSUME NEW j \in Jobs, OpenJob(j) \/ SucceedJob(j) \/ FailJob(j) \/ CancelJob(j)
      PROVE  Accounted'
  BY <1>2, <1>5 DEF OpenJob, SucceedJob, FailJob, CancelJob, CloseJob, ticketVars, leaseVars
<1>6. ASSUME NEW t \in Tickets,
             \/ \E d \in Tickets : AddDependency(t, d)
             \/ MarkReadyIfUnblocked(t)
             \/ \E now \in Readings, j \in Jobs \cup {None}, k \in TicketKinds, m \in MaxAttemptsChoices :
                  CreateTicket(t, j, k, m, now)
      PROVE  Accounted'
  BY <1>2, <1>6 DEF AddDependency, MarkReadyIfUnblocked, CreateTicket, leaseVars
<1>7. ASSUME NEW now \in Readings, NEW t \in Tickets, NEW a \in BOOLEAN, NEW delay \in 0..BackoffCap,
             RecordPreLeaseFailure(t, a, now, delay)
      PROVE  Accounted'
  <2>1. UNCHANGED <<lstate, lticket>> /\ tattempt' = [tattempt EXCEPT ![t] = tattempt[t] + 1]
    BY <1>7 DEF RecordPreLeaseFailure, leaseVars
  <2>2. \A u \in Tickets : tattempt'[u] >= tattempt[u]
    BY <2>1 DEF TypeOK
  <2> QED BY <1>0, <2>1, <2>2, AccountedFrame
<1>8. ASSUME NEW now \in Readings, ExpireDue(now) PROVE Accounted'
  <2>1. PICK batch \in SUBSET LeaseIds, moved \in SUBSET Tickets :
          \E spent \in SUBSET moved : ExpiryEffect(now, batch, moved, spent)
    BY <1>8, ExpiryFacts, Zenon
  <2>2. /\ \A l \in batch : lstate[l] = "held"
        /\ lstate' = [l \in LeaseIds |-> IF l \in batch THEN "expired" ELSE lstate[l]]
        /\ lticket' = lticket /\ tattempt' = tattempt
    BY ONLY <2>1 DEF ExpiryEffect
  <2>3. \A l \in LeaseIds : lstate'[l] = "absent" <=> lstate[l] = "absent"
    BY ONLY <2>2
  <2> QED BY <1>2, <2>2, <2>3
<1> QED
  BY <1>1, <1>3, <1>4, <1>5, <1>6, <1>7, <1>8 DEF Next, WorkerNext, ControlNext

\* However its leases end and however dispatch fails, a ticket is handed to
\* workers at most max_attempts times.
THEOREM BudgetRespected == Spec => []LeasesWithinBudget
<1>1. Init => Accounted
  <2> SUFFICES ASSUME Init, NEW t \in Tickets PROVE Cardinality(LeasesOf(t)) <= tattempt[t]
    BY DEF Accounted
  <2>1. LeasesOf(t) = {} /\ tattempt[t] = 0
    BY DEF Init, ExecutionInit, LeasesOf
  <2> QED BY <2>1, FS_EmptySet
<1>2. TypeOK /\ Accounted /\ TicketInv => LeasesWithinBudget
  <2> SUFFICES ASSUME TypeOK, Accounted, TicketInv, NEW t \in Tickets
               PROVE  Cardinality(LeasesOf(t)) <= tmax[t]
    BY DEF LeasesWithinBudget
  <2>1. Cardinality(LeasesOf(t)) <= tattempt[t] /\ tattempt[t] <= tmax[t]
    BY DEF Accounted, TicketInv, BudgetKept
  <2>2. tattempt[t] \in Nat /\ tmax[t] \in Nat
    BY DEF TypeOK
  <2> QED BY <2>1, <2>2, LeasesFinite
<1> QED BY <1>1, <1>2, AccountedStep, TypeCorrect, TicketInvAlways, PTL DEF Spec
=============================================================================
