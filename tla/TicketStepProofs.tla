--------------------------- MODULE TicketStepProofs ---------------------------
(***************************************************************************)
(* What a step of TicketLeases may never do.                               *)
(***************************************************************************)
EXTENDS TicketLeasesProofs

\* A step, in the words the next lemmas need: which rows it finishes, which it
\* ends, and whether it is the completion of a lease.
Settled ==
  /\ \A t \in Tickets : tstate[t] \in {"succeeded", "failed"} => tstate'[t] = tstate[t]
  /\ \A l \in LeaseIds : lstate[l] \notin {"absent", "held"} => lstate'[l] = lstate[l]
  /\ \A j \in Jobs : jstate[j] \notin {"absent", "open"} => jstate'[j] = jstate[j]

NoSuccess == \A t \in Tickets : tstate'[t] = "succeeded" => tstate[t] = "succeeded"

LEMMA StepKinds ==
  ASSUME TypeOK, [Next]_vars
  PROVE  Settled /\ (NoSuccess \/ \E l \in LeaseIds : ReleaseLease(l))
<1> DEFINE Goal == Settled /\ (NoSuccess \/ \E l \in LeaseIds : ReleaseLease(l))
<1> USE DEF Settled, NoSuccess, TypeOK
<1>1. ASSUME UNCHANGED vars \/ RegistryStep \/ Tick PROVE Goal
  BY <1>1 DEF vars, RegistryStep, Tick, ticketVars, leaseVars
<1>2. ASSUME NEW now \in Readings, NEW l \in LeaseIds, NEW t \in Tickets, NEW w \in Workers,
             NEW ttl \in TTLs, AcquireLease(l, t, w, ttl, now)
      PROVE  Goal
  BY <1>2 DEF AcquireLease, Claimable, IsNextLease
<1>3. ASSUME NEW now \in Readings, NEW l \in LeaseIds, NEW ttl \in TTLs, HeartbeatLease(l, ttl, now)
      PROVE  Goal
  BY <1>3 DEF HeartbeatLease, ticketVars
<1>4. ASSUME NEW l \in LeaseIds, ReleaseLease(l) PROVE Goal
  BY <1>4 DEF ReleaseLease, Endable, Promoted, Unblocked
<1>5. ASSUME NEW now \in Readings, NEW l \in LeaseIds,
             \/ \E r \in BOOLEAN, delay \in 0..BackoffCap : FailLease(l, r, now, delay)
             \/ \E q \in BOOLEAN : ForceReleaseLease(l, q, now)
      PROVE  Goal
  <2>1. lstate[l] = "held" /\ tstate[lticket[l]] = "leased" /\ jstate' = jstate
    BY <1>5 DEF FailLease, ForceReleaseLease, Endable
  <2>2. \E final \in LeaseState : lstate' = [lstate EXCEPT ![l] = final]
    BY <1>5 DEF FailLease, ForceReleaseLease, LeaseState
  <2>3. \E final \in {"ready", "failed"} : tstate' = [tstate EXCEPT ![lticket[l]] = final]
    BY <1>5 DEF FailLease, ForceReleaseLease, Requeue, FailTicket
  <2>4. tstate \in [Tickets -> TicketState] /\ lstate \in [LeaseIds -> LeaseState]
    OBVIOUS
  <2>5. Settled
    BY ONLY <2>1, <2>2, <2>3, <2>4 DEF Settled
  <2>6. NoSuccess
    BY ONLY <2>1, <2>3, <2>4 DEF NoSuccess
  <2> QED BY <2>5, <2>6
<1>6. ASSUME NEW j \in Jobs, OpenJob(j) \/ SucceedJob(j) \/ FailJob(j) \/ CancelJob(j)
      PROVE  Goal
  BY <1>6 DEF OpenJob, SucceedJob, FailJob, CancelJob, CloseJob, Closable, ticketVars, leaseVars
<1>7. ASSUME NEW t \in Tickets, \E d \in Tickets : AddDependency(t, d) PROVE Goal
  BY <1>7 DEF AddDependency, leaseVars
<1>8. ASSUME NEW t \in Tickets,
             \/ MarkReadyIfUnblocked(t)
             \/ \E now \in Readings, j \in Jobs \cup {None}, k \in TicketKinds, m \in MaxAttemptsChoices :
                  CreateTicket(t, j, k, m, now)
      PROVE  Goal
  BY <1>8 DEF MarkReadyIfUnblocked, Unblocked, CreateTicket, leaseVars
<1>9. ASSUME NEW now \in Readings, NEW t \in Tickets, NEW a \in BOOLEAN, NEW delay \in 0..BackoffCap,
             RecordPreLeaseFailure(t, a, now, delay)
      PROVE  Goal
  BY <1>9 DEF RecordPreLeaseFailure, Requeue, FailTicket, leaseVars
<1>10. ASSUME NEW now \in Readings, ExpireDue(now) PROVE Goal
  <2>1. PICK batch \in SUBSET LeaseIds, moved \in SUBSET Tickets :
          \E spent \in SUBSET moved : ExpiryEffect(now, batch, moved, spent)
    BY <1>10, ExpiryFacts, Zenon
  <2>2. PICK spent \in SUBSET moved : ExpiryEffect(now, batch, moved, spent)
    BY <2>1
  <2>3. /\ \A t \in moved : tstate[t] = "leased"
        /\ tstate' = [t \in Tickets |-> IF t \in spent THEN "failed"
                                        ELSE IF t \in moved THEN "ready" ELSE tstate[t]]
        /\ \A l \in batch : lstate[l] = "held"
        /\ lstate' = [l \in LeaseIds |-> IF l \in batch THEN "expired" ELSE lstate[l]]
        /\ jstate' = jstate
    BY ONLY <2>2 DEF ExpiryEffect
  <2>4. \A t \in Tickets : \/ tstate'[t] = tstate[t]
                           \/ tstate[t] = "leased" /\ tstate'[t] \in {"failed", "ready"}
    BY ONLY <2>3, spent \in SUBSET moved
  <2>5. \A l \in LeaseIds : lstate'[l] = lstate[l] \/ lstate[l] = "held"
    BY ONLY <2>3
  <2>6. Settled
    BY ONLY <2>3, <2>4, <2>5 DEF Settled
  <2>7. NoSuccess
    BY ONLY <2>4 DEF NoSuccess
  <2> QED BY <2>6, <2>7
<1> HIDE DEF Settled, NoSuccess, TypeOK
<1> HIDE DEF Goal
<1>11. ASSUME WorkerNext PROVE Goal
  BY ONLY <1>2, <1>3, <1>4, <1>5, <1>11 DEF WorkerNext
<1>12. ASSUME ControlNext PROVE Goal
  BY ONLY <1>1, <1>5, <1>6, <1>7, <1>8, <1>9, <1>10, <1>12 DEF ControlNext
<1>13. Goal
  BY <1>1, <1>11, <1>12 DEF Next
<1> QED BY <1>13 DEF Goal

\* Finished tickets, ended leases and closed jobs stay as they are under every
\* use case.
THEOREM OutcomesFinal == Spec => TerminalIsFinal
<1>1. TypeOK /\ [Next]_vars => Settled
  BY StepKinds
<1> QED BY <1>1, TypeCorrect, PTL DEF Spec, TerminalIsFinal, Settled

\* The completion of the last blocker is itself the promotion: no crash between
\* two transactions can lose the wake-up of a dependent.
THEOREM WakeupNotLost == Spec => LastBlockerPromotes
<1> DEFINE Woken == \A t \in Tickets :
                      (/\ tstate[t] = "pending"
                       /\ ~Unblocked(t, tstate)
                       /\ \A d \in Tickets : <<t, d>> \in deps' => tstate'[d] = "succeeded")
                      => tstate'[t] = "ready"
<1>1. TypeOK /\ [Next]_vars => Woken
  <2> SUFFICES ASSUME TypeOK, [Next]_vars, NEW t \in Tickets,
                      tstate[t] = "pending", ~Unblocked(t, tstate),
                      \A d \in Tickets : <<t, d>> \in deps' => tstate'[d] = "succeeded"
               PROVE  tstate'[t] = "ready"
    OBVIOUS
  <2>1. deps \subseteq deps'
    BY DepsStep DEF AddDependency
  <2>2. PICK d \in Tickets : <<t, d>> \in deps /\ tstate[d] # "succeeded"
    BY DEF Unblocked
  <2>3. tstate'[d] = "succeeded" /\ ~NoSuccess
    BY <2>1, <2>2 DEF NoSuccess
  <2>4. PICK l \in LeaseIds : ReleaseLease(l)
    BY <2>3, StepKinds
  <2>5. deps' = deps /\ tstate' = [u \in Tickets |-> IF u = lticket[l] THEN "succeeded"
                                  ELSE IF u \in Promoted(lticket[l]) THEN "ready" ELSE tstate[u]]
    BY <2>4 DEF ReleaseLease
  <2>6. d = lticket[l] /\ t # d /\ tstate[d] = "leased"
    BY <2>2, <2>3, <2>4, <2>5 DEF ReleaseLease, Endable
  <2>7. \A v \in Tickets : <<t, v>> \in deps => v = d \/ tstate[v] = "succeeded"
    BY <2>5, <2>6
  <2>8. t \in Promoted(d)
    BY <2>2, <2>6, <2>7 DEF Promoted, Unblocked, TypeOK
  <2> QED BY <2>5, <2>6, <2>8
<1> QED BY <1>1, TypeCorrect, PTL DEF Spec, LastBlockerPromotes

\* A lease that is held keeps its deadline or has it extended, and an expiry pass
\* only takes a lease whose deadline lies before the present.
THEOREM DeadlinesKept == Spec => DeadlineHonoured
<1> DEFINE Kept == \A l \in LeaseIds :
                     lstate[l] = "held" =>
                       /\ lexpires'[l] >= lexpires[l]
                       /\ lstate'[l] = "expired" => lexpires[l] < clock
<1>1. TypeOK /\ [Next]_vars => Kept
  <2> SUFFICES ASSUME TypeOK, [Next]_vars PROVE Kept
    OBVIOUS
  <2> USE DEF TypeOK
  <2>1. CASE UNCHANGED <<lstate, lexpires>>
    BY <2>1
  <2>2. ASSUME NEW now \in Readings, NEW k \in LeaseIds, NEW t \in Tickets, NEW w \in Workers,
               NEW ttl \in TTLs, AcquireLease(k, t, w, ttl, now)
        PROVE  Kept
    <3>1. /\ lstate[k] = "absent"
          /\ lstate' = [lstate EXCEPT ![k] = "held"]
          /\ lexpires' = [lexpires EXCEPT ![k] = now + ttl]
      BY <2>2 DEF AcquireLease, IsNextLease
    <3>2. lstate \in [LeaseIds -> LeaseState] /\ lexpires \in [LeaseIds -> Nat]
      OBVIOUS
    <3> QED BY ONLY <3>1, <3>2
  <2>3. ASSUME NEW now \in Readings, NEW k \in LeaseIds, NEW ttl \in TTLs, HeartbeatLease(k, ttl, now)
        PROVE  Kept
    <3>1. lexpires \in [LeaseIds -> Nat] /\ clock \in Nat /\ now \in 0..clock /\ ttl \in Nat
      BY TicketAssumption DEF Readings
    <3>2. Renewed(k, ttl, now) >= lexpires[k]
      BY ONLY <3>1, k \in LeaseIds DEF Renewed
    <3>3. lstate' = lstate /\ lexpires' = [lexpires EXCEPT ![k] = Renewed(k, ttl, now)]
      BY <2>3 DEF HeartbeatLease
    <3>4. \A l \in LeaseIds : lexpires'[l] >= lexpires[l]
      BY ONLY <3>1, <3>2, <3>3
    <3>5. \A l \in LeaseIds : lstate[l] = "held" => lstate'[l] # "expired"
      BY ONLY <3>3
    <3> QED BY <3>4, <3>5
  <2>4. ASSUME NEW k \in LeaseIds, NEW final \in LeaseState \ {"expired"},
               lstate' = [lstate EXCEPT ![k] = final], lexpires' = lexpires
        PROVE  Kept
    BY <2>4
  <2>5. ASSUME NEW now \in Readings, NEW k \in LeaseIds,
               \/ ReleaseLease(k)
               \/ \E r \in BOOLEAN, delay \in 0..BackoffCap : FailLease(k, r, now, delay)
               \/ \E q \in BOOLEAN : ForceReleaseLease(k, q, now)
        PROVE  Kept
    BY <2>4, <2>5 DEF ReleaseLease, FailLease, ForceReleaseLease, LeaseState
  <2>6. ASSUME NEW now \in Readings, ExpireDue(now) PROVE Kept
    <3>1. /\ lexpires' = lexpires
          /\ lstate' = [l \in LeaseIds |-> IF l \in ExpiryBatch(now) THEN "expired" ELSE lstate[l]]
      BY <2>6 DEF ExpireDue
    <3>2. \A l \in ExpiryBatch(now) : lexpires[l] < now
      BY DEF ExpiryBatch, Due
    <3> QED BY <3>1, <3>2 DEF Readings
  <2>7. CASE UNCHANGED vars \/ RegistryStep \/ Tick
    BY <2>1, <2>7 DEF vars, RegistryStep, Tick, leaseVars
  <2>8. ASSUME NEW j \in Jobs, OpenJob(j) \/ SucceedJob(j) \/ FailJob(j) \/ CancelJob(j)
        PROVE  Kept
    BY <2>1, <2>8 DEF OpenJob, SucceedJob, FailJob, CancelJob, CloseJob, leaseVars
  <2>9. ASSUME NEW t \in Tickets,
               \/ \E d \in Tickets : AddDependency(t, d)
               \/ MarkReadyIfUnblocked(t)
               \/ \E now \in Readings, j \in Jobs \cup {None}, k \in TicketKinds, m \in MaxAttemptsChoices :
                    CreateTicket(t, j, k, m, now)
               \/ \E now \in Readings, a \in BOOLEAN, delay \in 0..BackoffCap :
                    RecordPreLeaseFailure(t, a, now, delay)
        PROVE  Kept
    BY <2>1, <2>9 DEF AddDependency, MarkReadyIfUnblocked, CreateTicket, RecordPreLeaseFailure, leaseVars
  <2> HIDE DEF Kept, TypeOK
  <2> QED BY <2>2, <2>3, <2>5, <2>6, <2>7, <2>8, <2>9 DEF Next, WorkerNext, ControlNext
<1> QED BY <1>1, TypeCorrect, PTL DEF Spec, DeadlineHonoured
=============================================================================
