-------------------------- MODULE TicketLeasesProofs --------------------------
(***************************************************************************)
(* Theorems about TicketLeases, for any number of jobs, tickets, workers   *)
(* and leases, any retry budgets, any clock lag and any batch limit.       *)
(***************************************************************************)
EXTENDS TicketLeases, FiniteSetTheorems, TLAPS

LEMMA InitTypeOK == Init => TypeOK
BY TicketAssumption, RegistryAssumption
   DEF Init, RegistryInit, ExecutionInit, TypeOK, RegistryTypeOK, JobState, TicketState, LeaseState

LEMMA RegistryTypeStep == RegistryTypeOK /\ RegistryNext => RegistryTypeOK'
<1> SUFFICES ASSUME RegistryTypeOK, RegistryNext PROVE RegistryTypeOK'
  OBVIOUS
<1> USE DEF RegistryTypeOK
<1>1. ASSUME NEW w \in Workers, RegisterWorker(w) PROVE RegistryTypeOK'
  BY <1>1 DEF RegisterWorker
<1>2. ASSUME NEW w \in Workers, NEW row \in CapabilityRows, RecordCapability(w, row)
      PROVE  RegistryTypeOK'
  BY <1>2 DEF RecordCapability
<1>3. ASSUME NEW w \in Workers, NEW g \in GrantRows, RecordGrant(w, g) PROVE RegistryTypeOK'
  BY <1>3, TicketAssumption DEF RecordGrant
<1>4. ASSUME NEW w \in Workers, NEW ready \in BOOLEAN, SetRemoteReadiness(w, ready)
      PROVE  RegistryTypeOK'
  BY <1>4, TicketAssumption DEF SetRemoteReadiness
<1>5. ASSUME NEW w \in Workers, RetireWorker(w) PROVE RegistryTypeOK'
  BY <1>5 DEF RetireWorker
<1> QED BY <1>1, <1>2, <1>3, <1>4, <1>5 DEF RegistryNext

LEMMA RegistryTypeFrame == RegistryTypeOK /\ UNCHANGED registryVars => RegistryTypeOK'
BY DEF RegistryTypeOK, registryVars

\* What an expiry pass does, with its batch, the tickets it moves and those of
\* them that are out of attempts named.
ExpiryEffect(now, batch, moved, spent) ==
  /\ \A l \in batch : lstate[l] = "held" /\ lticket[l] \in moved
  /\ \A t \in moved : tstate[t] = "leased" /\ \E l \in batch : lticket[l] = t
  /\ \A t \in moved : t \in spent <=> ~MayRetry(t)
  /\ lstate' = [l \in LeaseIds |-> IF l \in batch THEN "expired" ELSE lstate[l]]
  /\ tstate' = [t \in Tickets |-> IF t \in spent THEN "failed"
                                  ELSE IF t \in moved THEN "ready" ELSE tstate[t]]
  /\ teligible' = [t \in Tickets |-> IF t \in moved \ spent THEN now ELSE teligible[t]]
  /\ issues' = issues \cup spent
  /\ UNCHANGED <<jstate, tjob, tkind, tattempt, tmax, deps,
                 lticket, lworker, lexpires, clock, registryVars>>

LEMMA ExpiryFacts ==
  ASSUME TypeOK, NEW now, ExpireDue(now)
  PROVE  \E batch \in SUBSET LeaseIds, moved \in SUBSET Tickets :
           \E spent \in SUBSET moved : ExpiryEffect(now, batch, moved, spent)
<1> DEFINE batch == ExpiryBatch(now)
           moved == {lticket[l] : l \in batch}
           spent == {t \in moved : ~MayRetry(t)}
<1>1. \A l \in batch : l \in LeaseIds /\ lstate[l] = "held"
  BY DEF ExpiryBatch, Due
<1>2. \A l \in batch : lticket[l] \in Tickets
  BY <1>1 DEF TypeOK
<1>3. batch \in SUBSET LeaseIds /\ moved \in SUBSET Tickets /\ spent \in SUBSET moved
  BY <1>1, <1>2
<1>4. /\ \A l \in batch : lticket[l] \in moved
      /\ \A t \in moved : \E l \in batch : lticket[l] = t
      /\ \A t \in moved : t \in spent <=> ~MayRetry(t)
  OBVIOUS
<1>5. /\ \A l \in batch : tstate[lticket[l]] = "leased"
      /\ lstate' = [l \in LeaseIds |-> IF l \in batch THEN "expired" ELSE lstate[l]]
      /\ tstate' = [t \in Tickets |-> IF t \in spent THEN "failed"
                                      ELSE IF t \in moved THEN "ready" ELSE tstate[t]]
      /\ teligible' = [t \in Tickets |-> IF t \in moved \ spent THEN now ELSE teligible[t]]
      /\ issues' = issues \cup spent
      /\ UNCHANGED <<jstate, tjob, tkind, tattempt, tmax, deps,
                     lticket, lworker, lexpires, clock, registryVars>>
  BY Zenon DEF ExpireDue
<1> HIDE DEF batch, moved, spent
<1>6. \A t \in moved : tstate[t] = "leased"
  BY <1>4, <1>5
<1>7. ExpiryEffect(now, batch, moved, spent)
  BY ONLY <1>1, <1>4, <1>5, <1>6, Zenon DEF ExpiryEffect
<1> QED BY <1>3, <1>7

LEMMA TypeStep == TypeOK /\ [Next]_vars => TypeOK'
<1> SUFFICES ASSUME TypeOK, [Next]_vars PROVE TypeOK'
  OBVIOUS
<1> USE DEF TypeOK, JobState, TicketState, LeaseState
<1>1. CASE UNCHANGED vars
  BY <1>1, RegistryTypeFrame DEF vars, ticketVars, leaseVars
<1>2. CASE RegistryStep
  BY <1>2, RegistryTypeStep DEF RegistryStep, ticketVars, leaseVars
<1> USE RegistryTypeFrame DEF ticketVars, leaseVars
<1>3. ASSUME NEW now \in Readings, NEW l \in LeaseIds, NEW t \in Tickets, NEW w \in Workers,
             NEW ttl \in TTLs, AcquireLease(l, t, w, ttl, now)
      PROVE  TypeOK'
  BY <1>3, TicketAssumption DEF AcquireLease, Claimable, Charged, Readings
<1>4. ASSUME NEW now \in Readings, NEW l \in LeaseIds, NEW ttl \in TTLs, HeartbeatLease(l, ttl, now)
      PROVE  TypeOK'
  BY <1>4, TicketAssumption DEF HeartbeatLease, Renewed, Readings
<1>5. ASSUME NEW l \in LeaseIds, ReleaseLease(l) PROVE TypeOK'
  BY <1>5 DEF ReleaseLease, Endable, Promoted, Unblocked
<1>6. ASSUME NEW now \in Readings, NEW l \in LeaseIds, NEW r \in BOOLEAN, NEW delay \in 0..BackoffCap,
             FailLease(l, r, now, delay)
      PROVE  TypeOK'
  BY <1>6, TicketAssumption DEF FailLease, Endable, Requeue, FailTicket, Readings
<1>7. ASSUME NEW j \in Jobs, OpenJob(j) \/ SucceedJob(j) \/ FailJob(j) \/ CancelJob(j)
      PROVE  TypeOK'
  BY <1>7 DEF OpenJob, SucceedJob, FailJob, CancelJob, CloseJob
<1>8. ASSUME NEW t \in Tickets, NEW d \in Tickets, AddDependency(t, d) PROVE TypeOK'
  BY <1>8 DEF AddDependency
<1>9. ASSUME NEW t \in Tickets, MarkReadyIfUnblocked(t) PROVE TypeOK'
  BY <1>9 DEF MarkReadyIfUnblocked, Unblocked
<1>10. ASSUME NEW now \in Readings, NEW t \in Tickets, NEW j \in Jobs \cup {None},
              NEW k \in TicketKinds, NEW m \in MaxAttemptsChoices, CreateTicket(t, j, k, m, now)
       PROVE  TypeOK'
  BY <1>10, TicketAssumption DEF CreateTicket, Readings
<1>11. ASSUME NEW now \in Readings, NEW t \in Tickets, NEW a \in BOOLEAN, NEW delay \in 0..BackoffCap,
              RecordPreLeaseFailure(t, a, now, delay)
       PROVE  TypeOK'
  BY <1>11, TicketAssumption DEF RecordPreLeaseFailure, Requeue, FailTicket, Readings
<1>12. ASSUME NEW now \in Readings, NEW l \in LeaseIds, NEW q \in BOOLEAN, ForceReleaseLease(l, q, now)
       PROVE  TypeOK'
  BY <1>12, TicketAssumption DEF ForceReleaseLease, Endable, Requeue, FailTicket, Readings
<1>13. ASSUME NEW now \in Readings, ExpireDue(now) PROVE TypeOK'
  <2>1. PICK batch \in SUBSET LeaseIds, moved \in SUBSET Tickets :
          \E spent \in SUBSET moved : ExpiryEffect(now, batch, moved, spent)
    BY <1>13, ExpiryFacts, Zenon
  <2>2. PICK spent \in SUBSET moved : ExpiryEffect(now, batch, moved, spent)
    BY <2>1
  <2>3. now \in Nat
    BY DEF Readings
  <2> QED BY <2>2, <2>3 DEF ExpiryEffect
<1>14. CASE Tick
  BY <1>14 DEF Tick
<1> QED
  BY <1>1, <1>2, <1>3, <1>4, <1>5, <1>6, <1>7, <1>8, <1>9, <1>10, <1>11, <1>12, <1>13, <1>14
     DEF Next, WorkerNext, ControlNext

\* Every job, ticket, lease and worker row keeps values its columns allow,
\* after any sequence of use cases.
THEOREM TypeCorrect == Spec => []TypeOK
BY InitTypeOK, TypeStep, PTL DEF Spec

-----------------------------------------------------------------------------
\* A lease and its ticket.

LEMMA ExclusiveStep == TypeOK /\ LeasedIffHeldOnce /\ [Next]_vars => LeasedIffHeldOnce'
<1> SUFFICES ASSUME TypeOK, LeasedIffHeldOnce, [Next]_vars PROVE LeasedIffHeldOnce'
  OBVIOUS
<1> USE DEF LeasedIffHeldOnce, HeldFor, TypeOK
<1>1. ASSUME UNCHANGED <<tstate, lstate, lticket>> PROVE LeasedIffHeldOnce'
  BY <1>1
<1>2. CASE UNCHANGED vars
  BY <1>1, <1>2 DEF vars, ticketVars, leaseVars
<1>3. CASE RegistryStep
  BY <1>1, <1>3 DEF RegistryStep, ticketVars, leaseVars
<1>4. ASSUME NEW now \in Readings, NEW l \in LeaseIds, NEW t \in Tickets, NEW w \in Workers,
             NEW ttl \in TTLs, AcquireLease(l, t, w, ttl, now)
      PROVE  LeasedIffHeldOnce'
  BY <1>4 DEF AcquireLease, Claimable, IsNextLease
<1>5. ASSUME NEW now \in Readings, NEW l \in LeaseIds, NEW ttl \in TTLs, HeartbeatLease(l, ttl, now)
      PROVE  LeasedIffHeldOnce'
  BY <1>1, <1>5 DEF HeartbeatLease, ticketVars
<1>6. ASSUME NEW l \in LeaseIds, ReleaseLease(l) PROVE LeasedIffHeldOnce'
  BY <1>6 DEF ReleaseLease, Endable, Promoted, Unblocked
<1>7. ASSUME NEW now \in Readings, NEW l \in LeaseIds, NEW r \in BOOLEAN, NEW delay \in 0..BackoffCap,
             FailLease(l, r, now, delay)
      PROVE  LeasedIffHeldOnce'
  BY <1>7 DEF FailLease, Endable, Requeue, FailTicket
<1>8. ASSUME NEW j \in Jobs, OpenJob(j) \/ SucceedJob(j) \/ FailJob(j) \/ CancelJob(j)
      PROVE  LeasedIffHeldOnce'
  BY <1>1, <1>8 DEF OpenJob, SucceedJob, FailJob, CancelJob, CloseJob, ticketVars, leaseVars
<1>9. ASSUME NEW t \in Tickets, NEW d \in Tickets, AddDependency(t, d) PROVE LeasedIffHeldOnce'
  BY <1>1, <1>9 DEF AddDependency, leaseVars
<1>10. ASSUME NEW t \in Tickets, MarkReadyIfUnblocked(t) PROVE LeasedIffHeldOnce'
  BY <1>10 DEF MarkReadyIfUnblocked, Unblocked, leaseVars
<1>11. ASSUME NEW now \in Readings, NEW t \in Tickets, NEW j \in Jobs \cup {None},
              NEW k \in TicketKinds, NEW m \in MaxAttemptsChoices, CreateTicket(t, j, k, m, now)
       PROVE  LeasedIffHeldOnce'
  BY <1>11 DEF CreateTicket, leaseVars
<1>12. ASSUME NEW now \in Readings, NEW t \in Tickets, NEW a \in BOOLEAN, NEW delay \in 0..BackoffCap,
              RecordPreLeaseFailure(t, a, now, delay)
       PROVE  LeasedIffHeldOnce'
  BY <1>12 DEF RecordPreLeaseFailure, Requeue, FailTicket, leaseVars
<1>13. ASSUME NEW now \in Readings, NEW l \in LeaseIds, NEW q \in BOOLEAN, ForceReleaseLease(l, q, now)
       PROVE  LeasedIffHeldOnce'
  BY <1>13 DEF ForceReleaseLease, Endable, Requeue, FailTicket
<1>14. ASSUME NEW now \in Readings, ExpireDue(now) PROVE LeasedIffHeldOnce'
  <2>1. PICK batch \in SUBSET LeaseIds, moved \in SUBSET Tickets :
          \E spent \in SUBSET moved : ExpiryEffect(now, batch, moved, spent)
    BY <1>14, ExpiryFacts, Zenon
  <2>2. PICK spent \in SUBSET moved : ExpiryEffect(now, batch, moved, spent)
    BY <2>1
  <2> QED BY <2>2 DEF ExpiryEffect
<1>15. CASE Tick
  BY <1>1, <1>15 DEF Tick, ticketVars, leaseVars
<1> HIDE DEF LeasedIffHeldOnce, HeldFor, TypeOK
<1> QED
  BY <1>2, <1>3, <1>4, <1>5, <1>6, <1>7, <1>8, <1>9, <1>10, <1>11, <1>12, <1>13, <1>14, <1>15
     DEF Next, WorkerNext, ControlNext

\* A ticket is leased exactly while one lease of it is held: no interleaving of
\* completions, failures, expiry passes and operators gives it a second holder
\* or leaves it leased with none.
THEOREM TicketExclusivelyHeld == Spec => []LeasedIffHeldOnce
<1>1. Init => LeasedIffHeldOnce
  BY DEF Init, ExecutionInit, LeasedIffHeldOnce, HeldFor
<1> QED BY <1>1, ExclusiveStep, TypeCorrect, PTL DEF Spec
-----------------------------------------------------------------------------
\* Attempts, dependencies and issues.

\* ReadyNotStranded is not inductive by itself: a lease that is retried returns
\* its ticket to ready, so the budget must be known in every state a ticket can
\* be in before that.
BudgetKept ==
  \A t \in Tickets :
    /\ tstate[t] = "absent" => tattempt[t] = 0
    /\ tstate[t] \in {"pending", "ready"} => tattempt[t] < tmax[t]
    /\ tattempt[t] <= tmax[t]

TicketInv == BudgetKept /\ DependenciesFirst /\ IssueIffFailed

LEMMA TicketInvStep == TypeOK /\ TicketInv /\ [Next]_vars => TicketInv'
<1> SUFFICES ASSUME TypeOK, TicketInv, [Next]_vars PROVE TicketInv'
  OBVIOUS
<1> USE DEF TicketInv, BudgetKept, DependenciesFirst, IssueIffFailed, TypeOK
<1>1. ASSUME UNCHANGED <<tstate, tattempt, tmax, deps, issues>> PROVE TicketInv'
  BY <1>1
<1>2. CASE UNCHANGED vars
  BY <1>1, <1>2 DEF vars, ticketVars
<1>3. CASE RegistryStep
  BY <1>1, <1>3 DEF RegistryStep, ticketVars
<1>4. ASSUME NEW now \in Readings, NEW l \in LeaseIds, NEW t \in Tickets, NEW w \in Workers,
             NEW ttl \in TTLs, AcquireLease(l, t, w, ttl, now)
      PROVE  TicketInv'
  BY <1>4 DEF AcquireLease, Claimable, Charged, TicketState
<1>5. ASSUME NEW now \in Readings, NEW l \in LeaseIds, NEW ttl \in TTLs, HeartbeatLease(l, ttl, now)
      PROVE  TicketInv'
  BY <1>1, <1>5 DEF HeartbeatLease, ticketVars
<1>6. ASSUME NEW l \in LeaseIds, ReleaseLease(l) PROVE TicketInv'
  <2>1. lticket[l] \in Tickets /\ tstate[lticket[l]] = "leased"
    BY <1>6 DEF ReleaseLease, Endable
  <2>2. BudgetKept' /\ IssueIffFailed'
    BY <1>6, <2>1 DEF ReleaseLease, Promoted, Unblocked, TicketState
  <2>3. DependenciesFirst'
    BY <1>6, <2>1 DEF ReleaseLease, Promoted, Unblocked, TicketState
  <2> QED BY <2>2, <2>3
<1>7. ASSUME NEW now \in Readings, NEW l \in LeaseIds, NEW r \in BOOLEAN, NEW delay \in 0..BackoffCap,
             FailLease(l, r, now, delay)
      PROVE  TicketInv'
  BY <1>7 DEF FailLease, Endable, Requeue, FailTicket, MayRetry
<1>8. ASSUME NEW j \in Jobs, OpenJob(j) \/ SucceedJob(j) \/ FailJob(j) \/ CancelJob(j)
      PROVE  TicketInv'
  BY <1>1, <1>8 DEF OpenJob, SucceedJob, FailJob, CancelJob, CloseJob, ticketVars
<1>9. ASSUME NEW t \in Tickets, NEW d \in Tickets, AddDependency(t, d) PROVE TicketInv'
  BY <1>9 DEF AddDependency, TakesBlockers
<1>10. ASSUME NEW t \in Tickets, MarkReadyIfUnblocked(t) PROVE TicketInv'
  BY <1>10 DEF MarkReadyIfUnblocked, Unblocked
<1>11. ASSUME NEW now \in Readings, NEW t \in Tickets, NEW j \in Jobs \cup {None},
              NEW k \in TicketKinds, NEW m \in MaxAttemptsChoices, CreateTicket(t, j, k, m, now)
       PROVE  TicketInv'
  BY <1>11, TicketAssumption DEF CreateTicket
<1>12. ASSUME NEW now \in Readings, NEW t \in Tickets, NEW a \in BOOLEAN, NEW delay \in 0..BackoffCap,
              RecordPreLeaseFailure(t, a, now, delay)
       PROVE  TicketInv'
  BY <1>12 DEF RecordPreLeaseFailure, Requeue, FailTicket
<1>13. ASSUME NEW now \in Readings, NEW l \in LeaseIds, NEW q \in BOOLEAN, ForceReleaseLease(l, q, now)
       PROVE  TicketInv'
  BY <1>13 DEF ForceReleaseLease, Endable, Requeue, FailTicket, MayRetry
<1>14. ASSUME NEW now \in Readings, ExpireDue(now) PROVE TicketInv'
  <2>1. PICK batch \in SUBSET LeaseIds, moved \in SUBSET Tickets :
          \E spent \in SUBSET moved : ExpiryEffect(now, batch, moved, spent)
    BY <1>14, ExpiryFacts, Zenon
  <2>2. PICK spent \in SUBSET moved : ExpiryEffect(now, batch, moved, spent)
    BY <2>1
  <2> QED BY <2>2 DEF ExpiryEffect, MayRetry
<1>15. CASE Tick
  BY <1>1, <1>15 DEF Tick, ticketVars
<1> HIDE DEF TicketInv, TypeOK
<1> QED
  BY <1>2, <1>3, <1>4, <1>5, <1>6, <1>7, <1>8, <1>9, <1>10, <1>11, <1>12, <1>13, <1>14, <1>15
     DEF Next, WorkerNext, ControlNext

LEMMA TicketInvAlways == Spec => []TicketInv
<1>1. Init => TicketInv
  BY DEF Init, ExecutionInit, TicketInv, BudgetKept, DependenciesFirst, IssueIffFailed
<1> QED BY <1>1, TicketInvStep, TypeCorrect, PTL DEF Spec

\* However the leases of a ticket end, a ticket waiting to be tried again has an
\* attempt left, so the acquire query can match it.
THEOREM NoTicketStranded == Spec => []ReadyNotStranded
<1>1. TicketInv => ReadyNotStranded
  BY DEF TicketInv, BudgetKept, ReadyNotStranded
<1> QED BY <1>1, TicketInvAlways, PTL

\* Work never runs ahead of a blocker, whichever dependency graph was built and
\* whenever its edges were added.
THEOREM BlockersFirst == Spec => []DependenciesFirst
<1>1. TicketInv => DependenciesFirst
  BY DEF TicketInv
<1> QED BY <1>1, TicketInvAlways, PTL

\* Every failed ticket has its terminal-failure issue and no other ticket does.
THEOREM FailuresReported == Spec => []IssueIffFailed
<1>1. TicketInv => IssueIffFailed
  BY DEF TicketInv
<1> QED BY <1>1, TicketInvAlways, PTL
-----------------------------------------------------------------------------
\* The dependency graph.

LEMMA DepsStep ==
  [Next]_vars => deps' = deps \/ \E t, d \in Tickets : AddDependency(t, d)
<1> SUFFICES ASSUME [Next]_vars PROVE deps' = deps \/ \E t, d \in Tickets : AddDependency(t, d)
  OBVIOUS
<1> USE DEF ticketVars
<1>1. CASE UNCHANGED vars \/ RegistryStep \/ Tick
  BY <1>1 DEF vars, RegistryStep, Tick
<1>2. CASE WorkerNext
  BY <1>2 DEF WorkerNext, AcquireLease, HeartbeatLease, ReleaseLease, FailLease
<1>3. CASE ControlNext
  <2>1. ASSUME NEW j \in Jobs, OpenJob(j) \/ SucceedJob(j) \/ FailJob(j) \/ CancelJob(j)
        PROVE  deps' = deps
    BY ONLY <2>1 DEF OpenJob, SucceedJob, FailJob, CancelJob, CloseJob, ticketVars
  <2>2. ASSUME NEW t \in Tickets, MarkReadyIfUnblocked(t) PROVE deps' = deps
    BY ONLY <2>2 DEF MarkReadyIfUnblocked
  <2>3. ASSUME NEW now, NEW t, NEW j, NEW k, NEW m, CreateTicket(t, j, k, m, now)
        PROVE  deps' = deps
    BY ONLY <2>3 DEF CreateTicket
  <2>4. ASSUME NEW now, NEW t, NEW a, NEW delay, RecordPreLeaseFailure(t, a, now, delay)
        PROVE  deps' = deps
    BY ONLY <2>4 DEF RecordPreLeaseFailure
  <2>5. ASSUME NEW now, NEW l, NEW q, ForceReleaseLease(l, q, now) PROVE deps' = deps
    BY ONLY <2>5 DEF ForceReleaseLease
  <2>6. ASSUME NEW now, ExpireDue(now) PROVE deps' = deps
    BY ONLY <2>6 DEF ExpireDue
  <2> QED BY <1>1, <1>3, <2>1, <2>2, <2>3, <2>4, <2>5, <2>6 DEF ControlNext
<1> QED BY <1>1, <1>2, <1>3 DEF Next

\* The edge that is added leaves a closed set R that holds d but not t.  A group
\* that meets R has its free member there, where the new edge does not start; a
\* group outside R does not contain d, where the new edge ends.
LEMMA AcyclicStep == TypeOK /\ NoDependencyCycle /\ [Next]_vars => NoDependencyCycle'
<1> SUFFICES ASSUME TypeOK, NoDependencyCycle, [Next]_vars PROVE NoDependencyCycle'
  OBVIOUS
<1>1. CASE deps' = deps
  BY <1>1 DEF NoDependencyCycle
<1>2. ASSUME NEW t \in Tickets, NEW d \in Tickets, AddDependency(t, d)
      PROVE  NoDependencyCycle'
  <2>1. PICK R \in SUBSET Tickets : d \in R /\ Closed(R) /\ t \notin R
    BY <1>2 DEF AddDependency, Reaches
  <2>2. deps' = deps \cup {<<t, d>>} /\ deps \subseteq Tickets \X Tickets
    BY <1>2 DEF AddDependency, TypeOK
  <2> SUFFICES ASSUME NEW S \in SUBSET Tickets, S # {}
               PROVE  \E u \in S : \A v \in S : <<u, v>> \notin deps'
    BY DEF NoDependencyCycle
  <2>3. CASE S \cap R # {}
    <3>1. PICK u \in S \cap R : \A v \in S \cap R : <<u, v>> \notin deps
      BY <2>3 DEF NoDependencyCycle
    <3>2. \A v \in S : <<u, v>> \in deps => v \in R
      BY <3>1, <2>1 DEF Closed
    <3>3. \A v \in S : <<u, v>> # <<t, d>>
      BY <3>1, <2>1
    <3> QED BY <3>1, <3>2, <3>3, <2>2
  <2>4. CASE S \cap R = {}
    <3>1. PICK u \in S : \A v \in S : <<u, v>> \notin deps
      BY DEF NoDependencyCycle
    <3>2. \A v \in S : <<u, v>> # <<t, d>>
      BY <2>1, <2>4
    <3> QED BY <3>1, <3>2, <2>2
  <2> QED BY <2>3, <2>4
<1> QED BY <1>1, <1>2, DepsStep

\* No sequence of edges, added while tickets run, closes a cycle of tickets that
\* wait for each other.
THEOREM DependenciesAcyclic == Spec => []NoDependencyCycle
<1>1. Init => NoDependencyCycle
  BY DEF Init, ExecutionInit, NoDependencyCycle
<1> QED BY <1>1, AcyclicStep, TypeCorrect, PTL DEF Spec
=============================================================================
