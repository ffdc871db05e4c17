----------------------------- MODULE TicketLeases -----------------------------
(***************************************************************************)
(* Durable execution in the control plane: jobs, the tickets of a job with *)
(* their dependencies, retry budget and eligibility time, and the leases   *)
(* under which workers run them.                                           *)
(*                                                                         *)
(* Each action is one use case of cases/execution/{jobs,tickets,leases}.rs *)
(* and so one SQLite write transaction: the writes of the repositories it  *)
(* calls (store repo/execution) commit together or not at all.  A use case *)
(* that ends in an error changes nothing and is a stuttering step.         *)
(***************************************************************************)
EXTENDS WorkerRegistry, ControlClock

CONSTANTS
  Jobs,             \* job row ids
  Tickets,          \* ticket row ids
  TicketKinds,      \* operation tokens tickets carry
  MaxAttemptsChoices,  \* max_attempts a creator may ask for
  LeaseIds,         \* lease row ids, handed out in increasing order
  TTLs,             \* lease durations a caller may ask for
  BackoffBase,      \* DEFAULT_BACKOFF_BASE_SECS
  BackoffCap,       \* DEFAULT_BACKOFF_CAP_SECS
  LeaseBatchLimit   \* rows one expiry pass takes

ASSUME TicketAssumption ==
  /\ None \notin Jobs \cup Tickets \cup Workers \cup TicketKinds
  /\ TicketKinds \subseteq Token
  /\ MaxAttemptsChoices \subseteq Nat \ {0}
  /\ LeaseIds \subseteq Nat
  /\ IsFiniteSet(LeaseIds)
  /\ TTLs \subseteq Nat \ {0}
  /\ BackoffBase \in Nat
  /\ BackoffCap \in Nat
  /\ LeaseBatchLimit \in Nat \ {0}

JobState == {"absent", "open", "succeeded", "failed", "cancelled"}
TicketState == {"absent", "pending", "ready", "leased", "succeeded", "failed"}

\* A lease row's state with its release reason: the reason follows from the
\* state except under 'released', which is split three ways.
LeaseState == {"absent", "held", "released", "failed_retriable",
               "failed_terminal", "expired", "force_released"}

VARIABLES
  jstate,     \* [Jobs -> JobState]
  tstate,     \* [Tickets -> TicketState]
  tjob,       \* [Tickets -> Jobs \cup {None}]
  tkind,      \* [Tickets -> Token]
  tattempt,   \* attempts charged so far
  tmax,       \* max_attempts
  teligible,  \* next_eligible_at
  deps,       \* <<t, d>>: ticket t depends on ticket d
  lstate,     \* [LeaseIds -> LeaseState]
  lticket,    \* the ticket of a lease
  lworker,    \* the worker holding it
  lexpires,   \* expires_at
  issues      \* tickets with a terminal_failure issue

ticketVars == <<tstate, tjob, tkind, tattempt, tmax, teligible, deps>>
leaseVars == <<lstate, lticket, lworker, lexpires>>
vars == <<jstate, ticketVars, leaseVars, issues, clock, registryVars>>

\* One type invariant: every row holds values its columns allow.
TypeOK ==
  /\ RegistryTypeOK
  /\ jstate \in [Jobs -> JobState]
  /\ tstate \in [Tickets -> TicketState]
  /\ tjob \in [Tickets -> Jobs \cup {None}]
  /\ tkind \in [Tickets -> TicketKinds \cup {None}]
  /\ tattempt \in [Tickets -> Nat]
  /\ tmax \in [Tickets -> Nat]
  /\ teligible \in [Tickets -> Nat]
  /\ deps \subseteq Tickets \X Tickets
  /\ lstate \in [LeaseIds -> LeaseState]
  /\ lticket \in [LeaseIds -> Tickets \cup {None}]
  /\ lworker \in [LeaseIds -> Workers \cup {None}]
  /\ lexpires \in [LeaseIds -> Nat]
  /\ issues \subseteq Tickets
  /\ clock \in Nat
  /\ \A t \in Tickets : tstate[t] # "absent" => tkind[t] \in TicketKinds
  /\ \A l \in LeaseIds : lstate[l] # "absent" => lticket[l] \in Tickets /\ lworker[l] \in Workers

\* No job, ticket or lease row exists.
ExecutionInit ==
  /\ jstate = [j \in Jobs |-> "absent"]
  /\ tstate = [t \in Tickets |-> "absent"]
  /\ tjob = [t \in Tickets |-> None]
  /\ tkind = [t \in Tickets |-> None]
  /\ tattempt = [t \in Tickets |-> 0]
  /\ tmax = [t \in Tickets |-> 0]
  /\ teligible = [t \in Tickets |-> 0]
  /\ deps = {}
  /\ lstate = [l \in LeaseIds |-> "absent"]
  /\ lticket = [l \in LeaseIds |-> None]
  /\ lworker = [l \in LeaseIds |-> None]
  /\ lexpires = [l \in LeaseIds |-> 0]
  /\ issues = {}
  /\ clock = 0

Init == RegistryInit /\ ExecutionInit

Tick ==
  /\ clock < MaxClock
  /\ clock' = clock + 1
  /\ UNCHANGED <<jstate, ticketVars, leaseVars, issues, registryVars>>
-----------------------------------------------------------------------------
\* Jobs.  Closing a job is a plain transition out of 'open': neither its
\* tickets nor their leases are touched.

OpenJob(j) ==
  /\ jstate[j] = "absent"
  /\ jstate' = [jstate EXCEPT ![j] = "open"]
  /\ UNCHANGED <<ticketVars, leaseVars, issues, clock, registryVars>>

MutClosable(j) == jstate[j] # "absent"

Closable(j) == jstate[j] = "open"

CloseJob(j, final) ==
  /\ Closable(j)
  /\ jstate' = [jstate EXCEPT ![j] = final]
  /\ UNCHANGED <<ticketVars, leaseVars, issues, clock, registryVars>>

SucceedJob(j) == CloseJob(j, "succeeded")
FailJob(j) == CloseJob(j, "failed")
CancelJob(j) == CloseJob(j, "cancelled")

JobOpen(t) == tjob[t] # None => jstate[tjob[t]] = "open"

-----------------------------------------------------------------------------
\* Tickets.

CreateTicket(t, j, kind, max, now) ==
  /\ tstate[t] = "absent"
  /\ j # None => jstate[j] # "absent"
  /\ tstate' = [tstate EXCEPT ![t] = "pending"]
  /\ tjob' = [tjob EXCEPT ![t] = j]
  /\ tkind' = [tkind EXCEPT ![t] = kind]
  /\ tmax' = [tmax EXCEPT ![t] = max]
  /\ teligible' = [teligible EXCEPT ![t] = now]
  /\ UNCHANGED <<jstate, tattempt, deps, leaseVars, issues, clock, registryVars>>

\* S contains the dependencies of its members.
Closed(S) == \A e \in deps : e[1] \in S => e[2] \in S

MutReaches(d, t) == <<d, t>> \in deps

\* t is reached from d along depends-on edges: no closed set separates them.
Reaches(d, t) == \A S \in SUBSET Tickets : d \in S /\ Closed(S) => t \in S

MutTakesBlockers(t) == tstate[t] \in {"pending", "ready"}

\* A ticket that has passed the readiness gate takes no new blocker.
TakesBlockers(t) == tstate[t] = "pending"

\* An edge that would close a cycle is refused.
AddDependency(t, d) ==
  /\ t # d
  /\ TakesBlockers(t)
  /\ tstate[d] # "absent"
  /\ ~Reaches(d, t)
  /\ <<t, d>> \notin deps
  /\ deps' = deps \cup {<<t, d>>}
  /\ UNCHANGED <<jstate, tstate, tjob, tkind, tattempt, tmax, teligible,
                 leaseVars, issues, clock, registryVars>>

\* mark_ready_if_unblocked promotes t in ticket states st.
Unblocked(t, st) ==
  /\ st[t] = "pending"
  /\ \A d \in Tickets : <<t, d>> \in deps => st[d] = "succeeded"

MarkReadyIfUnblocked(t) ==
  /\ Unblocked(t, tstate)
  /\ tstate' = [tstate EXCEPT ![t] = "ready"]
  /\ UNCHANGED <<jstate, tjob, tkind, tattempt, tmax, teligible, deps,
                 leaseVars, issues, clock, registryVars>>

\* Full jitter: anything up to the capped exponential window.
Backoffs(attempt) == {d \in 0..BackoffCap : d <= BackoffBase * 2 ^ attempt}

HeldFor(t) == {l \in LeaseIds : lstate[l] = "held" /\ lticket[l] = t}

\* A ticket that may be tried again waits until an instant; one that may not
\* fails, and a terminal_failure issue is opened for it.
MutRequeue(t, at) ==
  /\ tstate' = [tstate EXCEPT ![t] = "ready"]
  /\ teligible' = [teligible EXCEPT ![t] = at - 1]
  /\ issues' = issues

Requeue(t, at) ==
  /\ tstate' = [tstate EXCEPT ![t] = "ready"]
  /\ teligible' = [teligible EXCEPT ![t] = at]
  /\ issues' = issues

MutFailTicket(t) ==
  /\ tstate' = [tstate EXCEPT ![t] = "failed"]
  /\ teligible' = teligible
  /\ issues' = issues

FailTicket(t) ==
  /\ tstate' = [tstate EXCEPT ![t] = "failed"]
  /\ teligible' = teligible
  /\ issues' = issues \cup {t}

\* The executor found no worker (retriable) or several (terminal) for a ticket.
\* The attempt is charged without a lease; the job is not consulted.
RecordPreLeaseFailure(t, ambiguous, now, delay) ==
  LET next == tattempt[t] + 1
      terminal == ambiguous \/ next >= tmax[t]
  IN /\ tstate[t] = "ready"
     /\ HeldFor(t) = {}
     /\ teligible[t] <= now
     /\ delay \in Backoffs(next)
     /\ tattempt' = [tattempt EXCEPT ![t] = next]
     /\ IF terminal THEN FailTicket(t) ELSE Requeue(t, now + delay)
     /\ UNCHANGED <<jstate, tjob, tkind, tmax, deps, leaseVars, clock, registryVars>>
-----------------------------------------------------------------------------
\* Leases.

MutActiveLeases(w, op) ==
  {l \in LeaseIds : lstate[l] = "held" /\ lworker[l] = w /\ tkind[lticket[l]] = op}

\* Held leases of a worker for an operation under either encoding.
ActiveLeases(w, op) ==
  {l \in LeaseIds : /\ lstate[l] = "held"
                    /\ lworker[l] = w
                    /\ tkind[lticket[l]] \in MatchingTokens(op)}

MutDeviceLeases(d) ==
  {l \in LeaseIds : /\ lstate[l] = "held"
                    /\ IsTranscode(tkind[lticket[l]])
                    /\ lworker[l] \in DeviceWorkers(d)
                    /\ wstatus[lworker[l]] # "retired"}

\* Held transcodes of every worker that advertises the device, retired ones
\* included.
DeviceLeases(d) ==
  {l \in LeaseIds : /\ lstate[l] = "held"
                    /\ IsTranscode(tkind[lticket[l]])
                    /\ lworker[l] \in DeviceWorkers(d)}

HasCapacity(w, op) ==
  IF AcceleratorBound(w, op)
    THEN LET d == BoundDevice(w)
         IN d # NoDevice /\ Cardinality(DeviceLeases(d)) < Min(DeviceSessions(d))
    ELSE Cardinality(ActiveLeases(w, op)) < MaxParallel(w, op)

IsNextLease(l) ==
  lstate[l] = "absent" /\ \A k \in LeaseIds : k < l => lstate[k] # "absent"

MutClaimable(t, now) ==
  /\ tstate[t] = "ready" \/ \E l \in HeldFor(t) : lexpires[l] < now
  /\ teligible[t] <= now
  /\ tattempt[t] < tmax[t]
  /\ JobOpen(t)

Claimable(t, now) ==
  /\ tstate[t] = "ready"
  /\ teligible[t] <= now
  /\ tattempt[t] < tmax[t]
  /\ JobOpen(t)

MutCharged(t) == tattempt[t]

Charged(t) == tattempt[t] + 1

\* The ticket claim, the worker's eligibility and its capacity are decided in
\* one transaction; a refusal rolls the claim back.
AcquireLease(l, t, w, ttl, now) ==
  /\ IsNextLease(l)
  /\ Claimable(t, now)
  /\ Eligible(w, tkind[t])
  /\ HasCapacity(w, tkind[t])
  /\ tstate' = [tstate EXCEPT ![t] = "leased"]
  /\ tattempt' = [tattempt EXCEPT ![t] = Charged(t)]
  /\ lstate' = [lstate EXCEPT ![l] = "held"]
  /\ lticket' = [lticket EXCEPT ![l] = t]
  /\ lworker' = [lworker EXCEPT ![l] = w]
  /\ lexpires' = [lexpires EXCEPT ![l] = now + ttl]
  /\ UNCHANGED <<jstate, tjob, tkind, tmax, teligible, deps, issues, clock, registryVars>>

MutRenewed(l, ttl, now) == now + ttl

\* A renewal never brings the deadline forward.
Renewed(l, ttl, now) == IF now + ttl > lexpires[l] THEN now + ttl ELSE lexpires[l]

\* Renewal needs a deadline still ahead of the caller's clock.
HeartbeatLease(l, ttl, now) ==
  /\ lstate[l] = "held"
  /\ lexpires[l] > now
  /\ lexpires' = [lexpires EXCEPT ![l] = Renewed(l, ttl, now)]
  /\ UNCHANGED <<jstate, ticketVars, lstate, lticket, lworker, issues, clock, registryVars>>

MutEndable(l) ==
  lstate[l] \in {"held", "expired"} /\ tstate[lticket[l]] = "leased"

\* Ending a lease needs the lease held and its ticket leased, nothing more.
Endable(l) == lstate[l] = "held" /\ tstate[lticket[l]] = "leased"

MutPromoted(t) == {}

\* Dependents of t that its success makes ready.
Promoted(t) ==
  {u \in Tickets : <<u, t>> \in deps /\ Unblocked(u, [tstate EXCEPT ![t] = "succeeded"])}

\* A held lease completes its ticket whether or not its deadline has passed,
\* and the dependents this unblocks become ready in the same transaction.
ReleaseLease(l) ==
  LET t == lticket[l]
  IN /\ Endable(l)
     /\ lstate' = [lstate EXCEPT ![l] = "released"]
     /\ tstate' = [u \in Tickets |-> IF u = t THEN "succeeded"
                                     ELSE IF u \in Promoted(t) THEN "ready" ELSE tstate[u]]
     /\ UNCHANGED <<jstate, tjob, tkind, tattempt, tmax, teligible, deps,
                    lticket, lworker, lexpires, issues, clock, registryVars>>

MutMayRetry(t) == tattempt[t] <= tmax[t]

\* An attempt is left.
MayRetry(t) == tattempt[t] < tmax[t]

FailLease(l, retriable, now, delay) ==
  LET t == lticket[l]
      again == retriable /\ MayRetry(t)
  IN /\ Endable(l)
     /\ delay \in Backoffs(tattempt[t])
     /\ lstate' = [lstate EXCEPT ![l] = IF again THEN "failed_retriable" ELSE "failed_terminal"]
     /\ IF again THEN Requeue(t, now + delay) ELSE FailTicket(t)
     /\ UNCHANGED <<jstate, tjob, tkind, tattempt, tmax, deps,
                    lticket, lworker, lexpires, clock, registryVars>>

ForceReleaseLease(l, requeue, now) ==
  LET t == lticket[l]
  IN /\ Endable(l)
     /\ requeue => MayRetry(t)
     /\ lstate' = [lstate EXCEPT ![l] = "force_released"]
     /\ IF requeue THEN Requeue(t, now) ELSE FailTicket(t)
     /\ UNCHANGED <<jstate, tjob, tkind, tattempt, tmax, deps,
                    lticket, lworker, lexpires, clock, registryVars>>

\* Overdue leases, and the lowest ids of them one pass takes.
Due(now) == {l \in LeaseIds : lstate[l] = "held" /\ lexpires[l] < now}

MutExpiryBatch(now) ==
  {l \in Due(now) : Cardinality({k \in Due(now) : k <= l}) < LeaseBatchLimit}

ExpiryBatch(now) ==
  {l \in Due(now) : Cardinality({k \in Due(now) : k < l}) < LeaseBatchLimit}

\* One pass expires its batch together: a lease whose ticket is not leased, or
\* was already moved by this pass, aborts all of it.
ExpireDue(now) ==
  LET batch == ExpiryBatch(now)
      moved == {lticket[l] : l \in batch}
      spent == {t \in moved : ~MayRetry(t)}
  IN /\ batch # {}
     /\ \A l \in batch : tstate[lticket[l]] = "leased"
     /\ \A k, l \in batch : lticket[k] = lticket[l] => k = l
     /\ lstate' = [l \in LeaseIds |-> IF l \in batch THEN "expired" ELSE lstate[l]]
     /\ tstate' = [t \in Tickets |-> IF t \in spent THEN "failed"
                                     ELSE IF t \in moved THEN "ready" ELSE tstate[t]]
     /\ teligible' = [t \in Tickets |-> IF t \in moved \ spent THEN now ELSE teligible[t]]
     /\ issues' = issues \cup spent
     /\ UNCHANGED <<jstate, tjob, tkind, tattempt, tmax, deps,
                    lticket, lworker, lexpires, clock, registryVars>>

-----------------------------------------------------------------------------
\* Steps of the processes that run tickets under a lease.
WorkerNext ==
  \E now \in Readings :
    \/ \E l \in LeaseIds, t \in Tickets, w \in Workers, ttl \in TTLs : AcquireLease(l, t, w, ttl, now)
    \/ \E l \in LeaseIds, ttl \in TTLs : HeartbeatLease(l, ttl, now)
    \/ \E l \in LeaseIds : ReleaseLease(l)
    \/ \E l \in LeaseIds, r \in BOOLEAN, delay \in 0..BackoffCap : FailLease(l, r, now, delay)

\* Steps of operators, of the workflow executor and of the recovery loop.
ControlNext ==
  \/ \E j \in Jobs : OpenJob(j) \/ SucceedJob(j) \/ FailJob(j) \/ CancelJob(j)
  \/ \E t, d \in Tickets : AddDependency(t, d)
  \/ \E t \in Tickets : MarkReadyIfUnblocked(t)
  \/ \E now \in Readings :
       \/ \E t \in Tickets, j \in Jobs \cup {None}, k \in TicketKinds, m \in MaxAttemptsChoices :
            CreateTicket(t, j, k, m, now)
       \/ \E t \in Tickets, a \in BOOLEAN, delay \in 0..BackoffCap :
            RecordPreLeaseFailure(t, a, now, delay)
       \/ \E l \in LeaseIds, q \in BOOLEAN : ForceReleaseLease(l, q, now)
       \/ ExpireDue(now)
  \/ Tick

\* Provisioning runs beside them.
RegistryStep == RegistryNext /\ UNCHANGED <<jstate, ticketVars, leaseVars, issues, clock>>

Next == WorkerNext \/ ControlNext \/ RegistryStep

Spec == Init /\ [][Next]_vars
-----------------------------------------------------------------------------
\* Properties.

LeasesOf(t) == {l \in LeaseIds : lstate[l] # "absent" /\ lticket[l] = t}

\* A ticket is 'leased' exactly while one lease of it is held, and never while
\* two are.  No unique index enforces this: every use case that ends or grants
\* a lease must move the ticket in the same transaction.
LeasedIffHeldOnce ==
  \A t \in Tickets :
    /\ \A k, l \in HeldFor(t) : k = l
    /\ tstate[t] = "leased" <=> HeldFor(t) # {}

\* A ticket waiting in 'ready' still has an attempt to spend, so no failure,
\* expiry or forced release strands it where acquire refuses it for ever.
ReadyNotStranded ==
  \A t \in Tickets : tstate[t] = "ready" => tattempt[t] < tmax[t]

\* A ticket is handed to workers at most max_attempts times, however its
\* leases end.
LeasesWithinBudget ==
  \A t \in Tickets : Cardinality(LeasesOf(t)) <= tmax[t]

\* Nothing past the readiness gate has a dependency that did not succeed, so
\* work never runs ahead of, or beside, a blocker.
DependenciesFirst ==
  \A e \in deps :
    tstate[e[1]] \in {"ready", "leased", "succeeded", "failed"} => tstate[e[2]] = "succeeded"

\* The dependency graph stays acyclic under edges added one at a time: any
\* group of tickets has a member that waits for none of the group.
NoDependencyCycle ==
  \A S \in SUBSET Tickets : S # {} => \E t \in S : \A d \in S : <<t, d>> \notin deps

\* A ticket succeeds through exactly one lease, and that lease was its last:
\* a late completion of an earlier lease never counts.
OneSuccessfulLease ==
  \A t \in Tickets :
    LET wins == {l \in LeasesOf(t) : lstate[l] = "released"}
    IN /\ tstate[t] = "succeeded" <=> wins # {}
       /\ \A l \in wins, k \in LeasesOf(t) : k <= l

\* The terminal-failure issues are exactly the failed tickets: whichever of
\* the four use cases fails a ticket, an operator gets to see it, and a ticket
\* that recovers leaves no issue behind.
IssueIffFailed == issues = {t \in Tickets : tstate[t] = "failed"}

\* When the last blocker of a pending ticket succeeds, that very step makes
\* the ticket ready: between completion and promotion there is no window in
\* which a crash could lose the wake-up.
LastBlockerPromotes ==
  [][\A t \in Tickets :
       (/\ tstate[t] = "pending"
        /\ ~Unblocked(t, tstate)
        /\ \A d \in Tickets : <<t, d>> \in deps' => tstate'[d] = "succeeded")
       => tstate'[t] = "ready"]_vars

\* While a lease is held its deadline never moves towards the present, and it
\* is only reaped once that deadline is in the past.
DeadlineHonoured ==
  [][\A l \in LeaseIds :
       lstate[l] = "held" =>
         /\ lexpires'[l] >= lexpires[l]
         /\ lstate'[l] = "expired" => lexpires[l] < clock]_vars

\* Terminal states are final: late results, expiries and operators never move
\* a finished ticket, an ended lease or a closed job.
TerminalIsFinal ==
  [][/\ \A t \in Tickets : tstate[t] \in {"succeeded", "failed"} => tstate'[t] = tstate[t]
     /\ \A l \in LeaseIds : lstate[l] \notin {"absent", "held"} => lstate'[l] = lstate[l]
     /\ \A j \in Jobs : jstate[j] \notin {"absent", "open"} => jstate'[j] = jstate[j]]_vars

\* Granting a lease never takes a worker over its limit for an operation,
\* whichever of the two encodings the tickets use, unless the work is bound to
\* a device, whose own limit applies.
HeldKind(w, n) ==
  {l \in LeaseIds : lstate[l] = "held" /\ lworker[l] = w /\ tkind[lticket[l]].name = n}

WorkerLimitRespected ==
  [][\A w \in Workers, n \in KnownKinds :
       LET op == [name |-> n, workflow |-> FALSE]
       IN Cardinality(HeldKind(w, n)') > Cardinality(HeldKind(w, n)) /\ ~AcceleratorBound(w, op)
          => Cardinality(HeldKind(w, n)') <= MaxParallel(w, op)]_vars

\* A device never carries more held transcodes than its workers advertise,
\* even while the leases of a retired predecessor have not yet ended.  Stated
\* for devices on which every advertisement agrees.
DeviceNotOversubscribed ==
  \A d \in Devices :
    LET rows == {r \in CapabilityRows : IsTranscode(r.op) /\ r.device = d /\ r.sessions > 0}
        running == {l \in LeaseIds : /\ lstate[l] = "held"
                                     /\ AcceleratorBound(lworker[l], tkind[lticket[l]])
                                     /\ BoundDevice(lworker[l]) = d}
    IN \A r \in rows :
         (\A q \in rows : q.sessions = r.sessions) => Cardinality(running) <= r.sessions

\* The recovery loop keeps running and time keeps passing.
Recovery == WF_vars(Tick) /\ WF_vars(\E now \in Readings : ExpireDue(now))

\* A held lease ends, whatever its worker does: when the worker stops calling,
\* recovery reaches the lease even though one pass takes a bounded batch.
LeasesSettle ==
  \A l \in LeaseIds : lstate[l] = "held" ~> lstate[l] # "held"

\* Refinement: the rows read as the queue of TicketQueue.
QueuePhase == [absent |-> "new", pending |-> "waiting", ready |-> "open",
               leased |-> "claimed", succeeded |-> "done", failed |-> "dead"]

HolderOf(t) == IF HeldFor(t) = {} THEN None ELSE CHOOSE l \in HeldFor(t) : TRUE

Queue == INSTANCE TicketQueue WITH
  Claims <- LeaseIds,
  phase  <- [t \in Tickets |-> QueuePhase[tstate[t]]],
  holder <- [t \in Tickets |-> HolderOf(t)],
  budget <- [t \in Tickets |-> tmax[t] - tattempt[t]],
  used   <- {l \in LeaseIds : lstate[l] # "absent"}

\* Durable execution implements the ticket queue: whatever the clocks, jobs,
\* dependencies and recoveries do, schedulers see exclusive claims that are
\* never reused, a budget that only claims and failed dispatches spend, and
\* outcomes that stay.
ImplementsQueue == Queue!QSpec
=============================================================================
