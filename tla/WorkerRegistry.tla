---------------------------- MODULE WorkerRegistry ----------------------------
(***************************************************************************)
(* The durable worker registry of the control plane: worker rows with      *)
(* their status, the capability rows a worker advertised and the grant     *)
(* rows an operator gave it, and the two questions lease acquisition asks  *)
(* of them, "may this worker run this operation" and "how many leases of   *)
(* it may be held at once".                                                *)
(*                                                                         *)
(* Every action is one SQLite write transaction of a use case in           *)
(* cases/workers/registry.rs.  Calls that end in an error roll back and    *)
(* leave the registry as it was; they are stuttering steps.                *)
(***************************************************************************)
EXTENDS Naturals, Sequences, FiniteSets, FiniteSetsExt

CONSTANTS
  Workers,          \* worker row ids
  WorkerKind,       \* [Workers -> {"local", "synthetic", "remote"}]
  KnownKinds,       \* operation kinds of the wire vocabulary
  CustomKinds,      \* operation names outside it
  TranscodeVideo,   \* the one kind whose capacity may be per device
  Devices,          \* stable hardware tokens
  NoDevice,         \* a capability row without a hardware token
  CapabilityRows,   \* capability rows a worker may advertise
  GrantRows,        \* grant rows an operator may record
  MaxRows           \* bound: capability rows per worker

\* A ticket kind or a registry token: a name, inside or outside the reserved
\* workflow namespace.
Token == [name : KnownKinds \cup CustomKinds, workflow : BOOLEAN]

\* sessions is the descriptor's max_sessions; 0 stands for a row without one.
CapabilityRow ==
  [op : Token, device : Devices \cup {NoDevice}, sessions : Nat]

\* limits are the max_parallel pairs, wildcards the values under "*".
GrantRow ==
  [execute : SUBSET Token, denies : SUBSET Token,
   limits : SUBSET (Token \X (Nat \ {0})), wildcard : SUBSET (Nat \ {0})]

ASSUME RegistryAssumption ==
  /\ WorkerKind \in [Workers -> {"local", "synthetic", "remote"}]
  /\ TranscodeVideo \in KnownKinds
  /\ KnownKinds \cap CustomKinds = {}
  /\ NoDevice \notin Devices
  /\ CapabilityRows \subseteq CapabilityRow
  /\ GrantRows \subseteq GrantRow
  /\ MaxRows \in Nat

VARIABLES
  wstatus,   \* [Workers -> status], "absent" before registration
  caps,      \* [Workers -> Seq(CapabilityRow)], in row id order
  grants     \* [Workers -> SUBSET GrantRow]

registryVars == <<wstatus, caps, grants>>

RegistryTypeOK ==
  /\ wstatus \in [Workers -> {"absent", "registered", "active", "retired"}]
  /\ caps \in [Workers -> Seq(CapabilityRows)]
  /\ grants \in [Workers -> SUBSET GrantRows]

RegistryInit ==
  /\ wstatus = [w \in Workers |-> "absent"]
  /\ caps = [w \in Workers |-> <<>>]
  /\ grants = [w \in Workers |-> {}]

-----------------------------------------------------------------------------
\* The use cases.

\* A worker row is born 'registered', node-less or owned by a node.
RegisterWorker(w) ==
  /\ wstatus[w] = "absent"
  /\ wstatus' = [wstatus EXCEPT ![w] = "registered"]
  /\ UNCHANGED <<caps, grants>>

\* The rows only need the worker row to exist: its status is not consulted.
RecordCapability(w, row) ==
  /\ wstatus[w] # "absent"
  /\ Len(caps[w]) < MaxRows
  /\ caps' = [caps EXCEPT ![w] = Append(@, row)]
  /\ UNCHANGED <<wstatus, grants>>

RecordGrant(w, g) ==
  /\ wstatus[w] # "absent"
  /\ grants' = [grants EXCEPT ![w] = @ \cup {g}]
  /\ UNCHANGED <<wstatus, caps>>

\* A remote worker flips between registered and active; repeating the current
\* readiness changes nothing, a retired worker is refused.
SetRemoteReadiness(w, ready) ==
  /\ WorkerKind[w] = "remote"
  /\ wstatus[w] \in {"registered", "active"}
  /\ wstatus' = [wstatus EXCEPT ![w] = IF ready THEN "active" ELSE "registered"]
  /\ UNCHANGED <<caps, grants>>

\* Retirement is final and leaves the worker's held leases alone.
RetireWorker(w) ==
  /\ wstatus[w] \in {"registered", "active"}
  /\ wstatus' = [wstatus EXCEPT ![w] = "retired"]
  /\ UNCHANGED <<caps, grants>>

RegistryNext ==
  \E w \in Workers :
    \/ RegisterWorker(w)
    \/ \E row \in CapabilityRows : RecordCapability(w, row)
    \/ \E g \in GrantRows : RecordGrant(w, g)
    \/ \E ready \in BOOLEAN : SetRemoteReadiness(w, ready)
    \/ RetireWorker(w)

-----------------------------------------------------------------------------
\* What lease acquisition reads.

\* Both encodings of a known kind match; a custom token matches itself; an
\* unknown name inside the workflow namespace matches nothing.
MatchingTokens(op) ==
  CASE op.name \in KnownKinds ->
         {[name |-> op.name, workflow |-> b] : b \in BOOLEAN}
    [] op.name \notin KnownKinds /\ ~op.workflow -> {op}
    [] OTHER -> {}

CapabilitiesFor(w, op) ==
  {i \in DOMAIN caps[w] : caps[w][i].op \in MatchingTokens(op)}

HasCapability(w, op) == CapabilitiesFor(w, op) # {}

HasGrant(w, op) ==
  \E g \in grants[w] : g.execute \cap MatchingTokens(op) # {}

IsDenied(w, op) ==
  \E g \in grants[w] : g.denies \cap MatchingTokens(op) # {}

\* A remote worker must have reported ready; the others may be dispatched to
\* as soon as they are registered.
AcceptsNewWork(w) ==
  \/ wstatus[w] = "active"
  \/ wstatus[w] = "registered" /\ WorkerKind[w] # "remote"

Eligible(w, op) ==
  /\ AcceptsNewWork(w)
  /\ ~IsDenied(w, op)
  /\ HasCapability(w, op)
  /\ HasGrant(w, op)

\* The largest limit recorded for the operation under either encoding, else
\* the largest wildcard, else one.
MaxParallel(w, op) ==
  LET specific == {p[2] : p \in {q \in UNION {g.limits : g \in grants[w]} :
                                   q[1] \in MatchingTokens(op)}}
      wild     == UNION {g.wildcard : g \in grants[w]}
  IN CASE specific # {} -> Max(specific)
       [] specific = {} /\ wild # {} -> Max(wild)
       [] OTHER -> 1

IsTranscode(op) == op.name = TranscodeVideo

\* The accelerator rows of a worker; the one with the smallest id binds it.
AcceleratorRows(w) ==
  {i \in DOMAIN caps[w] : IsTranscode(caps[w][i].op) /\ caps[w][i].sessions > 0}

AcceleratorBound(w, op) == IsTranscode(op) /\ AcceleratorRows(w) # {}

BoundDevice(w) == caps[w][Min(AcceleratorRows(w))].device

\* Workers advertising transcoding on a device, whatever their status.
DeviceWorkers(d) ==
  {w \in Workers : \E i \in DOMAIN caps[w] :
                     IsTranscode(caps[w][i].op) /\ caps[w][i].device = d}

\* Session counts the non-retired workers of a device advertise for it.
DeviceSessions(d) ==
  UNION {{caps[w][i].sessions : i \in {k \in AcceleratorRows(w) : caps[w][k].device = d}} :
           w \in {v \in DeviceWorkers(d) : wstatus[v] # "retired"}}
=============================================================================
