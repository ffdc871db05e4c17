--------------------------- MODULE MCTicketLeases ----------------------------
(***************************************************************************)
(* TicketLeases on small instances: workers that have been provisioned, so *)
(* that a run spends its states on tickets and leases, or the whole        *)
(* registry in motion beside a few of them.                                *)
(***************************************************************************)
EXTENDS TicketLeases, TLC

CONSTANTS W1, W2, Transcode, Probe, D

Bare(n) == [name |-> n, workflow |-> FALSE]
Workflow(n) == [name |-> n, workflow |-> TRUE]

MCWorkerKind == [w \in Workers |-> IF w = W1 THEN "local" ELSE "remote"]
MCTicketKinds == {Workflow(Transcode), Bare(Probe), Workflow(Probe)}

\* A transcoder bound to device D with one session, and a prober.
Prober == [op |-> Bare(Probe), device |-> NoDevice, sessions |-> 0]
MCCapabilityRows == {[op |-> Bare(Transcode), device |-> D, sessions |-> 1], Prober}

\* Two of anything at a time, or one probe: the specific limit overrides the
\* wildcard once both are recorded.
Wide == [execute |-> {Bare(Transcode), Workflow(Probe)}, denies |-> {}, limits |-> {}, wildcard |-> {2}]
Narrow == [Wide EXCEPT !.limits = {<<Workflow(Probe), 1>>}, !.wildcard = {}]
MCGrantRows == {Wide, Narrow}

\* The workers ws have registered, advertised probing, been granted it and,
\* where remote, reported ready.
Provisioned(ws, g) ==
  /\ ExecutionInit
  /\ wstatus = [w \in Workers |-> IF w \notin ws THEN "absent"
                                  ELSE IF WorkerKind[w] = "remote" THEN "active" ELSE "registered"]
  /\ caps = [w \in Workers |-> IF w \in ws THEN <<Prober>> ELSE <<>>]
  /\ grants = [w \in Workers |-> IF w \in ws THEN {g} ELSE {}]

\* Three scenes: one ticket through its whole retry budget; four tickets with
\* every dependency graph over them, two of them running at once, in no time;
\* two tickets while workers register, advertise, are granted work and retire.
VARIABLE scene

Used(rows) == {x \in DOMAIN rows : rows[x] # "absent"}
OnlyKinds(ks) == \A t \in Used(tstate) : tkind[t] \in ks

WithinScene ==
  CASE scene = "retry" -> /\ Cardinality(Used(tstate)) <= 1 /\ OnlyKinds({Workflow(Probe)})
                          /\ Used(jstate) # {} => \A t \in Tickets : tmax[t] <= 1
    [] scene = "graph" -> /\ clock = 0 /\ Used(jstate) = {} /\ OnlyKinds({Workflow(Probe)})
                          /\ \A t \in Tickets : tmax[t] <= 1
                          /\ \A l \in LeaseIds : lexpires[l] <= 1
    [] scene = "registry" -> /\ clock = 0 /\ Used(jstate) = {} /\ deps = {}
                             /\ Cardinality(Used(tstate)) <= 2 /\ Used(lstate) \subseteq {1, 2}
                             /\ \A t \in Tickets : tmax[t] <= 1
                             /\ \A l \in LeaseIds : lexpires[l] <= 1
                             /\ grants[W2] \subseteq {Narrow}

ScenesInit ==
  \/ scene = "retry" /\ Provisioned({W1}, Narrow)
  \/ scene = "graph" /\ Provisioned({W1}, Wide)
  \/ scene = "registry" /\ Init
ScenesNext ==
  /\ WorkerNext \/ ControlNext \/ (scene = "registry" /\ RegistryStep)
  /\ UNCHANGED scene
  /\ WithinScene'
ScenesSpec == ScenesInit /\ [][ScenesNext]_<<vars, scene>>

\* Two workers contend for tickets until they crash, at instant Horizon, and never
\* call again; control and recovery go on.  The tickets are independent and
\* created first, and no operator intervenes.
CONSTANT Horizon

CrashInit == Provisioned({W1, W2}, Narrow) /\ scene = "crash"
CrashNext ==
  /\ ControlNext \/ (clock < Horizon /\ WorkerNext)
  /\ deps' = {} /\ OnlyKinds({Workflow(Probe)})'
  /\ Used(tstate) # Tickets => Used(tstate') # Used(tstate)
  /\ \A l \in LeaseIds : lstate'[l] # "force_released"
  /\ UNCHANGED scene
CrashSpec == CrashInit /\ [][CrashNext]_<<vars, scene>> /\ Recovery

Symmetry == Permutations(Tickets)
=============================================================================
