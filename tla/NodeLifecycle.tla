---------------------------- MODULE NodeLifecycle -----------------------------
(***************************************************************************)
(* Logical nodes, the process incarnations that act for them, the workers  *)
(* an incarnation declares and the storage roots a node owns.              *)
(*                                                                         *)
(* A node-agent process draws a fresh incarnation id and activates it; the *)
(* node row then points at that incarnation until it is superseded by the  *)
(* next process, deactivated, failed by a missed heartbeat or retired with *)
(* its node.  Each action is one use case of cases/workers/nodes.rs,       *)
(* cases/execution/remote_execution/{activation,heartbeat}.rs or           *)
(* cases/config/libraries.rs and one write transaction; a call that ends   *)
(* in an error rolls back and is a stuttering step.                        *)
(***************************************************************************)
EXTENDS WorkerRegistry, ControlClock

CONSTANTS
  Nodes,               \* remote logical nodes
  NodeTTL,             \* heartbeat_ttl_seconds
  Incarnations,        \* incarnation ids, one per agent process
  Manifest,            \* [Incarnations -> SUBSET Workers]: the rows it declares
  DeclaredRows,        \* [Workers -> Seq(CapabilityRows)]: a declaration's operations
  DeclaredGrant,       \* [Workers -> GrantRows]: and the grant derived from it
  Roots,               \* storage root ids
  Identities,          \* what the owner finds mounted at a root
  Sessions,            \* scan session ids
  ActivationWindow,    \* ACTIVATION_WINDOW
  MaxFreshActivations  \* MAX_FRESH_ACTIVATIONS

ASSUME NodeAssumption ==
  /\ None \notin Nodes \cup Incarnations \cup Identities
  /\ NodeTTL \in Nat \ {0}
  /\ Manifest \in [Incarnations -> SUBSET {w \in Workers : WorkerKind[w] = "remote"}]
  /\ \A i, j \in Incarnations : i # j => Manifest[i] \cap Manifest[j] = {}
  /\ DeclaredRows \in [Workers -> Seq(CapabilityRows)]
  /\ DeclaredGrant \in [Workers -> GrantRows]
  /\ ActivationWindow \in Nat
  /\ MaxFreshActivations \in Nat \ {0}

NodeStatus == {"absent", "registered", "active", "stale", "retired"}
Ended == {"superseded", "retired", "failed"}
IncarnationStatus == {"absent", "active", "pruned"} \cup Ended
\* A root comes with its owner: 'unassigned' is left out.
RootState == {"absent", "configured", "active", "unavailable", "retired"}
SessionStatus == {"absent", "requested", "running", "succeeded", "failed",
                  "cancelled", "stale"}

VARIABLES
  nstatus,    \* [Nodes -> NodeStatus]
  nseen,      \* last_seen_at
  npointer,   \* active_incarnation_id
  ncontact,   \* when the last call that refreshed the node committed
  istate,     \* [Incarnations -> IncarnationStatus]
  inode,      \* the node of an incarnation
  istarted,   \* started_at
  iended,     \* ended_at
  rstate,     \* [Roots -> RootState]
  rowner,     \* owner_node_id
  rident,     \* activation_identity
  repoch,     \* root_epoch
  renabled,   \* the enabled flags of the root and its library
  sstate,     \* scan session status
  sinc        \* the incarnation a session is bound to

nodeRows == <<nstatus, nseen, npointer, ncontact>>
incarnationRows == <<istate, inode, istarted, iended>>
rootRows == <<rstate, rowner, rident, repoch, renabled>>
sessionRows == <<sstate, sinc>>
nodeVars == <<nodeRows, incarnationRows, rootRows, sessionRows>>

\* One type invariant: every row holds values its columns allow.
NodeTypeOK ==
  /\ RegistryTypeOK
  /\ nstatus \in [Nodes -> NodeStatus]
  /\ nseen \in [Nodes -> Nat]
  /\ npointer \in [Nodes -> Incarnations \cup {None}]
  /\ ncontact \in [Nodes -> Nat]
  /\ istate \in [Incarnations -> IncarnationStatus]
  /\ inode \in [Incarnations -> Nodes \cup {None}]
  /\ istarted \in [Incarnations -> Nat]
  /\ iended \in [Incarnations -> Nat]
  /\ rstate \in [Roots -> RootState]
  /\ rowner \in [Roots -> Nodes \cup {None}]
  /\ rident \in [Roots -> Identities \cup {None}]
  /\ repoch \in [Roots -> Nat]
  /\ renabled \in [Roots -> BOOLEAN]
  /\ sstate \in [Sessions -> SessionStatus]
  /\ sinc \in [Sessions -> Incarnations \cup {None}]
  /\ clock \in Nat

NodeInit ==
  /\ nstatus = [n \in Nodes |-> "absent"]
  /\ nseen = [n \in Nodes |-> 0]
  /\ npointer = [n \in Nodes |-> None]
  /\ ncontact = [n \in Nodes |-> 0]
  /\ istate = [i \in Incarnations |-> "absent"]
  /\ inode = [i \in Incarnations |-> None]
  /\ istarted = [i \in Incarnations |-> 0]
  /\ iended = [i \in Incarnations |-> 0]
  /\ rstate = [r \in Roots |-> "absent"]
  /\ rowner = [r \in Roots |-> None]
  /\ rident = [r \in Roots |-> None]
  /\ repoch = [r \in Roots |-> 0]
  /\ renabled = [r \in Roots |-> FALSE]
  /\ sstate = [s \in Sessions |-> "absent"]
  /\ sinc = [s \in Sessions |-> None]
-----------------------------------------------------------------------------
\* Ending incarnations.  end_incarnation_in_tx retires the live workers of the
\* incarnation, stales its running scan sessions and ends its row; the leases
\* its workers hold are left to expire.

MutWorkerKeepsStarting(S, w) ==
  IF wstatus[w] = "active" /\ \E i \in S : w \in Manifest[i]
  THEN "retired" ELSE wstatus[w]

MutWorkerTakesNodeStatus(S, w) ==
  IF wstatus[w] \in {"registered", "active"} /\ \E i \in S : w \in Manifest[i]
  THEN "stale" ELSE wstatus[w]

WorkerAfterEnd(S, w) ==
  IF wstatus[w] \in {"registered", "active"} /\ \E i \in S : w \in Manifest[i]
  THEN "retired" ELSE wstatus[w]

MutSessionAfterEnd(S, s) == IF sinc[s] \in S /\ sstate[s] = "requested" THEN "stale" ELSE sstate[s]

SessionAfterEnd(S, s) ==
  IF sstate[s] = "running" /\ sinc[s] \in S THEN "stale" ELSE sstate[s]

EndIncarnations(S, final, now) ==
  /\ wstatus' = [w \in Workers |-> WorkerAfterEnd(S, w)]
  /\ sstate' = [s \in Sessions |-> SessionAfterEnd(S, s)]
  /\ istate' = [i \in Incarnations |-> IF i \in S THEN final ELSE istate[i]]
  /\ iended' = [i \in Incarnations |-> IF i \in S THEN now ELSE iended[i]]
  /\ UNCHANGED <<caps, grants, sinc, inode, istarted>>

\* The incarnations the nodes of N point at.
Current(N) == {npointer[n] : n \in N} \ {None}
-----------------------------------------------------------------------------
\* Nodes.

RegisterNode(n, now) ==
  /\ nstatus[n] = "absent"
  /\ nstatus' = [nstatus EXCEPT ![n] = "registered"]
  /\ nseen' = [nseen EXCEPT ![n] = now]
  /\ ncontact' = [ncontact EXCEPT ![n] = clock]
  /\ UNCHANGED <<npointer, incarnationRows, rootRows, sessionRows, registryVars, clock>>

\* last_seen_at takes the reading of the call, even one older than the row's.
Refresh(n, now) ==
  /\ nstatus' = [nstatus EXCEPT ![n] = "active"]
  /\ nseen' = [nseen EXCEPT ![n] = now]
  /\ ncontact' = [ncontact EXCEPT ![n] = clock]

\* The operator's heartbeat: authenticated by the node token alone.
HeartbeatNode(n, now) ==
  /\ nstatus[n] \in {"registered", "active", "stale"}
  /\ Refresh(n, now)
  /\ UNCHANGED <<npointer, incarnationRows, rootRows, sessionRows, registryVars, clock>>

\* validate_remote_node_live with freshness required.
Fresh(n, now) == nstatus[n] \notin {"retired", "stale"} /\ nseen[n] + NodeTTL > now

MutFenced(n, i) == istate[i] \in {"active", "superseded"} /\ inode[i] = n

\* require_active_incarnation_in_tx.
Fenced(n, i) == npointer[n] = i

\* The agent's heartbeat: fenced by the incarnation it was activated as.
RemoteNodeHeartbeat(n, i, now) ==
  /\ Fenced(n, i)
  /\ Fresh(n, now)
  /\ Refresh(n, now)
  /\ UNCHANGED <<npointer, incarnationRows, rootRows, sessionRows, registryVars, clock>>

MutOverdue(n, now) == nseen[n] <= now

Overdue(n, now) == nseen[n] + NodeTTL <= now

MutStaleCandidates ==
  {n \in Nodes : nstatus[n] \in {"registered", "active"} /\ npointer[n] = None}

StaleCandidates == {n \in Nodes : nstatus[n] \in {"registered", "active"}}

\* One recovery pass over every registered or active node.
MarkStaleNodes(now) ==
  LET due == {n \in StaleCandidates : Overdue(n, now)}
  IN /\ due # {}
     /\ EndIncarnations(Current(due), "failed", now)
     /\ nstatus' = [n \in Nodes |-> IF n \in due THEN "stale" ELSE nstatus[n]]
     /\ npointer' = [n \in Nodes |-> IF n \in due THEN None ELSE npointer[n]]
     /\ UNCHANGED <<nseen, ncontact, rootRows, clock>>

\* The operator names the row's current epoch.
RetireNode(n, now) ==
  /\ nstatus[n] \in {"registered", "active", "stale"}
  /\ EndIncarnations(Current({n}), "retired", now)
  /\ nstatus' = [nstatus EXCEPT ![n] = "retired"]
  /\ nseen' = [nseen EXCEPT ![n] = now]
  /\ npointer' = [npointer EXCEPT ![n] = None]
  /\ UNCHANGED <<ncontact, rootRows, clock>>
-----------------------------------------------------------------------------
\* Activation.

\* Rows of n that started inside the window ending now, the bound included.
FreshActivations(n) ==
  {i \in Incarnations : /\ inode[i] = n
                        /\ istate[i] \notin {"absent", "pruned"}
                        /\ istarted[i] + ActivationWindow >= clock}

\* A proof is accepted for a root of the node that has not been retired.
ProofAccepted(n, r) == rowner[r] = n /\ rstate[r] \in {"configured", "active", "unavailable"}

\* The proofs are complete: owned active roots they omit become unavailable.
MutActivateRoots(n, proofs) ==
  /\ rstate' = [r \in Roots |-> IF r \in DOMAIN proofs THEN "active" ELSE rstate[r]]
  /\ rident' = [r \in Roots |-> IF r \in DOMAIN proofs THEN proofs[r] ELSE rident[r]]
  /\ UNCHANGED <<rowner, repoch, renabled>>

ActivateRoots(n, proofs) ==
  /\ rstate' = [r \in Roots |->
                  CASE r \in DOMAIN proofs -> "active"
                    [] r \notin DOMAIN proofs /\ rowner[r] = n /\ rstate[r] = "active" ->
                         "unavailable"
                    [] OTHER -> rstate[r]]
  /\ rident' = [r \in Roots |-> IF r \in DOMAIN proofs THEN proofs[r] ELSE rident[r]]
  /\ repoch' = [r \in Roots |->
                  IF r \in DOMAIN proofs /\ rident[r] # proofs[r]
                  THEN repoch[r] + 1 ELSE repoch[r]]
  /\ UNCHANGED <<rowner, renabled>>

\* A new process takes the node over: the current incarnation is superseded,
\* the declared workers are registered with their rows, the proven roots go
\* active.  The time is read inside the transaction.  An id that was activated
\* before is replayed or refused.
Activate(n, i, proofs) ==
  /\ nstatus[n] \in {"registered", "active", "stale"}
  /\ istate[i] = "absent"
  /\ Cardinality(FreshActivations(n)) < MaxFreshActivations
  /\ \A r \in DOMAIN proofs : ProofAccepted(n, r)
  /\ LET old == Current({n})
     IN /\ istate' = [j \in Incarnations |->
                        CASE j = i -> "active"
                          [] j # i /\ j \in old -> "superseded"
                          [] OTHER -> istate[j]]
        /\ iended' = [j \in Incarnations |-> IF j \in old THEN clock ELSE iended[j]]
        /\ wstatus' = [w \in Workers |->
                         IF w \in Manifest[i] THEN "registered" ELSE WorkerAfterEnd(old, w)]
        /\ sstate' = [s \in Sessions |-> SessionAfterEnd(old, s)]
  /\ inode' = [inode EXCEPT ![i] = n]
  /\ istarted' = [istarted EXCEPT ![i] = clock]
  /\ caps' = [w \in Workers |-> IF w \in Manifest[i] THEN DeclaredRows[w] ELSE caps[w]]
  /\ grants' = [w \in Workers |-> IF w \in Manifest[i] THEN {DeclaredGrant[w]} ELSE grants[w]]
  /\ npointer' = [npointer EXCEPT ![n] = i]
  /\ Refresh(n, clock)
  /\ ActivateRoots(n, proofs)
  /\ UNCHANGED <<sinc, clock>>

\* The agent's shutdown.  final follows from the reason it gives.
Deactivate(n, i, final, now) ==
  /\ Fenced(n, i)
  /\ EndIncarnations({i}, final, now)
  /\ nstatus' = [nstatus EXCEPT ![n] = "registered"]
  /\ npointer' = [npointer EXCEPT ![n] = None]
  /\ UNCHANGED <<nseen, ncontact, rootRows, clock>>

MutPrunable(n, i, cutoff) ==
  /\ inode[i] = n
  /\ istate[i] \in Ended
  /\ iended[i] < cutoff

\* terminal_before_in_tx: ended before the cutoff the caller asks for, and both
\* ended and started before the admission window.
Prunable(n, i, cutoff) ==
  /\ inode[i] = n
  /\ istate[i] \in Ended
  /\ iended[i] < cutoff
  /\ iended[i] + ActivationWindow < clock
  /\ istarted[i] + ActivationWindow < clock

\* Retired workers no durable row refers to are deleted with their capabilities
\* and grants, and with the last of its workers an incarnation.  A scan session
\* that names the incarnation makes the delete, and so the whole call, fail.
PruneActivationHistory(n, cutoff, referenced) ==
  LET old   == {i \in Incarnations : Prunable(n, i, cutoff)}
      gone  == {w \in Workers : /\ wstatus[w] = "retired" /\ w \notin referenced
                                /\ \E i \in old : w \in Manifest[i]}
      empty == {i \in old : \A w \in Manifest[i] \ gone : wstatus[w] = "absent"}
  IN /\ gone # {} \/ empty # {}
     /\ \A s \in Sessions : sinc[s] \notin empty
     /\ wstatus' = [w \in Workers |-> IF w \in gone THEN "absent" ELSE wstatus[w]]
     /\ caps' = [w \in Workers |-> IF w \in gone THEN <<>> ELSE caps[w]]
     /\ grants' = [w \in Workers |-> IF w \in gone THEN {} ELSE grants[w]]
     /\ istate' = [i \in Incarnations |-> IF i \in empty THEN "pruned" ELSE istate[i]]
     /\ UNCHANGED <<nodeRows, inode, istarted, iended, rootRows, sessionRows, clock>>
-----------------------------------------------------------------------------
\* Workers of a node.

Declared == UNION {Manifest[i] : i \in Incarnations}

\* An operator may register a worker for a live node outside any incarnation.
RegisterWorkerForNode(w, n, now) ==
  /\ w \notin Declared
  /\ nstatus[n] \in {"registered", "active"}
  /\ Fresh(n, now)
  /\ RegisterWorker(w)
  /\ UNCHANGED <<nodeVars, clock>>

RemoteWorkerReadiness(n, i, w, ready, now) ==
  /\ Fenced(n, i)
  /\ w \in Manifest[i]
  /\ Fresh(n, now)
  /\ SetRemoteReadiness(w, ready)
  /\ UNCHANGED <<nodeVars, clock>>

RetireNodeWorker(w) == RetireWorker(w) /\ UNCHANGED <<nodeVars, clock>>
-----------------------------------------------------------------------------
\* Storage roots.

\* effective availability: the owner's status is overlaid, not its incarnation.
RootAvailable(r) == renabled[r] /\ rstate[r] = "active" /\ nstatus[rowner[r]] = "active"

CreateRoot(r, n, enabled) ==
  /\ rstate[r] = "absent"
  /\ nstatus[n] \notin {"absent", "retired"}
  /\ rstate' = [rstate EXCEPT ![r] = "configured"]
  /\ rowner' = [rowner EXCEPT ![r] = n]
  /\ renabled' = [renabled EXCEPT ![r] = enabled]
  /\ UNCHANGED <<rident, repoch, nodeRows, incarnationRows, sessionRows, registryVars, clock>>

MutNeverActivated(r) == rstate[r] \in {"configured", "unavailable"}

NeverActivated(r) == rstate[r] = "configured" /\ rident[r] = None

\* The owner may be corrected until the first activation.
AssignRootOwner(r, n) ==
  /\ NeverActivated(r)
  /\ nstatus[n] \notin {"absent", "retired"}
  /\ rowner[r] # n
  /\ rowner' = [rowner EXCEPT ![r] = n]
  /\ UNCHANGED <<rstate, rident, repoch, renabled, nodeRows, incarnationRows, sessionRows,
                 registryVars, clock>>

SetRootEnabled(r, enabled) ==
  /\ rstate[r] \notin {"absent", "retired"}
  /\ renabled[r] # enabled
  /\ renabled' = [renabled EXCEPT ![r] = enabled]
  /\ UNCHANGED <<rstate, rowner, rident, repoch, nodeRows, incarnationRows, sessionRows,
                 registryVars, clock>>

\* Also refused while another root or an unplaced result still names the root.
RetireRoot(r) ==
  /\ rstate[r] \notin {"absent", "retired"}
  /\ rstate' = [rstate EXCEPT ![r] = "retired"]
  /\ renabled' = [renabled EXCEPT ![r] = FALSE]
  /\ UNCHANGED <<rowner, rident, repoch, nodeRows, incarnationRows, sessionRows,
                 registryVars, clock>>
-----------------------------------------------------------------------------
Proofs == UNION {[S -> Identities] : S \in SUBSET Roots}

\* Calls of agent processes.
AgentNext ==
  \E n \in Nodes, i \in Incarnations :
    \/ \E proofs \in Proofs : Activate(n, i, proofs)
    \/ \E now \in Readings :
         \/ RemoteNodeHeartbeat(n, i, now)
         \/ \E final \in {"retired", "failed"} : Deactivate(n, i, final, now)
         \/ \E w \in Workers, ready \in BOOLEAN : RemoteWorkerReadiness(n, i, w, ready, now)

\* Calls of the operator.
OperatorNodeNext ==
  \/ \E n \in Nodes, now \in Readings :
       \/ RegisterNode(n, now)
       \/ HeartbeatNode(n, now)
       \/ RetireNode(n, now)
       \/ \E w \in Workers : RegisterWorkerForNode(w, n, now)
  \/ \E n \in Nodes, cutoff \in 0..clock,
        referenced \in SUBSET {w \in Workers : wstatus[w] = "retired"} :
       PruneActivationHistory(n, cutoff, referenced)
  \/ \E w \in Workers : RetireNodeWorker(w)

RootNext ==
  \E r \in Roots :
    \/ \E n \in Nodes : AssignRootOwner(r, n) \/ \E e \in BOOLEAN : CreateRoot(r, n, e)
    \/ \E e \in BOOLEAN : SetRootEnabled(r, e)
    \/ RetireRoot(r)

NodeTick ==
  /\ clock < MaxClock
  /\ clock' = clock + 1
  /\ UNCHANGED <<nodeVars, registryVars>>

RecoverNodes == \E now \in Readings : MarkStaleNodes(now)

NodeNext == AgentNext \/ OperatorNodeNext \/ RootNext \/ RecoverNodes \/ NodeTick
allNodeVars == <<nodeVars, registryVars, clock>>
NodeSpec == RegistryInit /\ NodeInit /\ clock = 0 /\ [][NodeNext]_allNodeVars
-----------------------------------------------------------------------------
\* Properties.

\* The node's pointer and the incarnation rows are two records of one fact: a
\* node points at an incarnation exactly when that row is active, and then the
\* node itself is active.  Stale, retired and deactivated nodes have none.
PointerAgrees ==
  /\ \A n \in Nodes, i \in Incarnations :
       npointer[n] = i <=> istate[i] = "active" /\ inode[i] = n
  /\ \A n \in Nodes : npointer[n] # None => nstatus[n] = "active"

\* A superseded, failed or retired process leaves no worker that could be
\* handed work and no scan session still running: whichever way an incarnation
\* ends, end_incarnation_in_tx has taken them down in the same transaction.
NothingOutlivesItsIncarnation ==
  /\ \A i \in Incarnations : \A w \in Manifest[i] :
       wstatus[w] \in {"registered", "active"} => istate[i] = "active"
  /\ \A s \in Sessions : sstate[s] = "running" => istate[sinc[s]] = "active"

\* In every span of ActivationWindow a node starts at most MaxFreshActivations
\* processes, however activations, endings and pruning interleave.
ActivationQuota ==
  \A n \in Nodes, t \in 0..clock :
    Cardinality({i \in Incarnations : /\ istate[i] # "absent" /\ inode[i] = n
                                      /\ istarted[i] \in t..(t + ActivationWindow)})
      <= MaxFreshActivations

\* A node whose last call committed less than its TTL ago, allowing for calls
\* that waited Lag for the writer lock, is not taken for dead.
NotDeclaredDeadEarly ==
  [][\A n \in Nodes :
       nstatus[n] # "stale" /\ nstatus'[n] = "stale" => ncontact[n] + NodeTTL <= clock + Lag
    ]_allNodeVars

\* Ends are final: neither an ended incarnation, nor a retired node or root
\* comes back, and a root that was ever validated never changes its owner.
EndsAreFinal ==
  [][/\ \A i \in Incarnations : istate[i] \in Ended => istate'[i] \in {istate[i], "pruned"}
     /\ \A n \in Nodes : nstatus[n] = "retired" => nstatus'[n] = "retired"
     /\ \A r \in Roots : /\ rstate[r] = "retired" => rstate'[r] = "retired"
                         /\ rident[r] # None => rowner'[r] = rowner[r]
    ]_allNodeVars

\* ADR 0050: losing the owner's incarnation makes its roots unavailable.
RootsNeedLiveOwner ==
  \A r \in Roots : RootAvailable(r) => npointer[rowner[r]] # None

\* The recovery loop runs and time passes.
NodeRecovery == WF_allNodeVars(RecoverNodes) /\ WF_allNodeVars(NodeTick)

\* A process that falls silent is found out: its incarnation ends.
SilentProcessEnds ==
  \A i \in Incarnations : istate[i] = "active" ~> istate[i] # "active"
=============================================================================
