---------------------------- MODULE MCNodeLifecycle ---------------------------
(***************************************************************************)
(* NodeLifecycle on small instances: every incarnation declares one worker *)
(* and one more worker is registered outside any incarnation.              *)
(***************************************************************************)
EXTENDS NodeLifecycle, TLC

CONSTANTS W0                          \* the undeclared worker
CONSTANTS I1, I2, I3, W1, W2, W3, Op

MCManifest == [i \in Incarnations |-> CASE i = I1 -> {W1} [] i = I2 -> {W2} [] OTHER -> {W3}]
MCNoManifest == [i \in Incarnations |-> {}]
MCWorkerKind == [w \in Workers |-> IF w = W0 THEN "synthetic" ELSE "remote"]
BareOp == [name |-> Op, workflow |-> FALSE]
MCCapability == [op |-> BareOp, device |-> NoDevice, sessions |-> 0]
MCGrant == [execute |-> {BareOp}, denies |-> {}, limits |-> {}, wildcard |-> {1}]
MCCapabilityRows == {MCCapability}
MCGrantRows == {MCGrant}
MCDeclaredRows == [w \in Workers |-> <<MCCapability>>]
MCDeclaredGrant == [w \in Workers |-> MCGrant]

\* Nodes and mounts may be exchanged, and incarnations with their workers.
OwnWorker(i) == CHOOSE w \in Manifest[i] : TRUE
DeclaredBy(w) == CHOOSE i \in Incarnations : w \in Manifest[i]
Symmetry ==
  Permutations(Nodes) \cup Permutations(Identities) \cup
  {[x \in Incarnations \cup Declared |->
      IF x \in Incarnations THEN p[x] ELSE OwnWorker(p[DeclaredBy(x)])] :
     p \in Permutations(Incarnations)}

\* Three scenes: two nodes and two processes that may serve either of them; three
\* processes of one node; one root that either node may own.
VARIABLE scene

Known(rows) == {x \in DOMAIN rows : rows[x] # "absent"}

WithinScene ==
  CASE scene = "takeover" -> /\ clock <= 2
                             /\ Cardinality(Known(istate)) <= 2
                             /\ Known(rstate) = {} /\ wstatus[W0] = "absent"
    [] scene = "quota"    -> /\ Cardinality(Known(nstatus)) <= 1
                             /\ Known(rstate) = {} /\ wstatus[W0] = "absent"
    [] scene = "roots"    -> /\ clock = 0
                             /\ Cardinality(Known(istate)) <= 2
                             /\ \A w \in Declared : wstatus[w] # "active"

ScenesInit ==
  RegistryInit /\ NodeInit /\ clock = 0 /\ scene \in {"takeover", "quota", "roots"}
ScenesNext == NodeNext /\ UNCHANGED scene /\ WithinScene'
ScenesSpec == ScenesInit /\ [][ScenesNext]_<<allNodeVars, scene>>

\* One process of one node, with nothing left out.
AloneInit == RegistryInit /\ NodeInit /\ clock = 0 /\ scene = "alone"
AloneSpec == AloneInit /\ [][NodeNext /\ UNCHANGED scene]_<<allNodeVars, scene>>
=============================================================================
