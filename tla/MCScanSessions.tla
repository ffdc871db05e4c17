---------------------------- MODULE MCScanSessions ----------------------------
(***************************************************************************)
(* ScanSessions on small instances: one root of one node.                  *)
(***************************************************************************)
EXTENDS ScanSessions

CONSTANTS N1, I1, A, R1, P1, X1, Op, Horizon

MCNone == <<>>
MCManifest == [i \in Incarnations |-> {}]
MCSidecar == [x \in {X1} |-> P1]

\* The process I1 of N1 has been activated and has validated the root.
OwnerReady(identity) ==
  /\ nstatus = [n \in Nodes |-> "active"]
  /\ nseen = [n \in Nodes |-> 0]
  /\ npointer = [n \in Nodes |-> I1]
  /\ ncontact = [n \in Nodes |-> 0]
  /\ istate = [i \in Incarnations |-> IF i = I1 THEN "active" ELSE "absent"]
  /\ inode = [i \in Incarnations |-> IF i = I1 THEN N1 ELSE None]
  /\ istarted = [i \in Incarnations |-> 0]
  /\ iended = [i \in Incarnations |-> 0]
  /\ rstate = [r \in Roots |-> "active"]
  /\ rowner = [r \in Roots |-> N1]
  /\ rident = [r \in Roots |-> identity]
  /\ repoch = [r \in Roots |-> 1]
  /\ renabled = [r \in Roots |-> TRUE]
  /\ sstate = [s \in Sessions |-> "absent"]
  /\ sinc = [s \in Sessions |-> None]
  /\ RegistryInit /\ clock = 0
  /\ files \in [Roots -> [Identities -> [Locators -> Bytes \cup {None}]]]
  /\ locs = <<>>
  /\ scan = [s \in Sessions |-> NoScan]
  /\ pump = [s \in Sessions |-> NoPump]
  /\ lastScan = [r \in Roots |-> None]

ReadyInit == \E d \in Identities : OwnerReady(d)

\* Three scenes: one scan while files, rows and results change; two scans of a
\* root at rest; one scan while processes, mounts and the clock move.
VARIABLE scene

SceneNext ==
  CASE scene = "disk"   -> DiskNext \/ PumpNext \/ OperatorScanNext
    [] scene = "serial" -> PumpNext \/ OperatorScanNext
    [] scene = "fence"  -> PumpNext \/ OperatorScanNext \/ RecoverExpiredScanSessions \/ NodeStep

OnlyAt(L) ==
  \A r \in Roots, d \in Identities, l \in Locators :
    d # A \/ l \notin L => files[r][d][l] = None

WithinScene ==
  CASE scene = "disk"   -> sstate[2] = "absent" /\ OnlyAt(Locators)
    [] scene = "serial" -> OnlyAt(Locators)
    [] scene = "fence"  -> sstate[2] = "absent" /\ OnlyAt({P1})

ScenesInit ==
  /\ scene \in {"disk", "serial", "fence"}
  /\ IF scene = "fence" THEN ReadyInit ELSE OwnerReady(A)
  /\ WithinScene
ScenesNext == SceneNext /\ UNCHANGED scene /\ WithinScene'
ScenesSpec == ScenesInit /\ [][ScenesNext]_<<allScanVars, scene>>

\* Two scans of a root at rest.
RestInit == scene = "serial" /\ OwnerReady(A)
RestSpec == RestInit /\ [][SceneNext /\ UNCHANGED scene]_<<allScanVars, scene>>

\* After instant Horizon nobody calls; recovery goes on.
SilentInit == scene = "silent" /\ ReadyInit
SilentNext ==
  /\ \/ RecoverExpiredScanSessions
     \/ (NodeTick \/ RecoverNodes) /\ UNCHANGED scanVars
     \/ clock < Horizon /\ AgentNext /\ UNCHANGED scanVars
     \/ clock < Horizon /\ (PumpNext \/ OperatorScanNext)
  /\ UNCHANGED scene
SilentSpec ==
  SilentInit /\ [][SilentNext]_<<allScanVars, scene>> /\ ScanRecovery /\ NodeRecovery
=============================================================================
