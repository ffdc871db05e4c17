--------------------------- MODULE MCArtifactCommits ---------------------------
(***************************************************************************)
(* ArtifactCommits on small instances: one node owns the root the targets  *)
(* and the staged files are on; its first process is up.                   *)
(***************************************************************************)
EXTENDS ArtifactCommits, TLC

CONSTANTS N1, I1, A, B, R1, H1, H2, V1, V2, Op

MCNone == <<>>
MCManifest == [i \in Incarnations |-> {}]
MCSourceOf == [h \in Handles |-> IF h = H1 THEN V1 ELSE V2]
MCStagingRoot == [h \in Handles |-> R1]
MCTargetRoot == [t \in Targets |-> R1]

\* The process I1 of N1 has been activated and has validated the root.
OwnerReady ==
  /\ RegistryInit /\ clock = 0 /\ CommitInit
  /\ nstatus = [n \in Nodes |-> "active"]
  /\ nseen = [n \in Nodes |-> 0]
  /\ npointer = [n \in Nodes |-> I1]
  /\ ncontact = [n \in Nodes |-> 0]
  /\ istate = [i \in Incarnations |-> IF i = I1 THEN "active" ELSE "absent"]
  /\ inode = [i \in Incarnations |-> IF i = I1 THEN N1 ELSE None]
  /\ istarted = [i \in Incarnations |-> 0]
  /\ iended = [i \in Incarnations |-> 0]
  /\ rstate = [r \in Roots |-> "active"]
  /\ rowner = [r \in Roots |-> N1]
  /\ rident = [r \in Roots |-> A]
  /\ repoch = [r \in Roots |-> 1]
  /\ renabled = [r \in Roots |-> TRUE]
  /\ sstate = <<>>
  /\ sinc = <<>>

\* Four scenes: a process that stops and its successor; two recoveries, of the
\* commits of two handles that want one target; a commit whose root and
\* publication change under it; a commit while leases come and go.
VARIABLE scene

OnlyOnStaging == \A u \in UseLeases : uses[u] = NoUse \/ uses[u].kind = "staging"
NoLeases == uses = [u \in UseLeases |-> NoUse]
RootAtRest == repoch[R1] = 1 /\ rstate[R1] = "active" /\ renabled[R1] /\ drifted = {}
NodeAtRest == nstatus[N1] = "active" /\ nseen[N1] = 0 /\ npointer[N1] = I1
OnlyOnSource ==
  \A u \in UseLeases : uses[u].of # V2 /\ uses[u].kind \in {"asset", "version", "staging"}
Alive == \A i \in Incarnations : agent[i].at \notin {"dead", "withdrew"}
Unscanned == \A t \in addressed : \E c \in Commits : commit[c].record = "committed" /\ commit[c].target = t
OnlyHandle(h) == \A c \in Commits : commit[c].handle \in {h, None}
OneRecovery == Cardinality({o \in Recoveries : recovery[o] # NoRecovery}) <= 1
Untouched ==
  /\ \A t \in Targets : target[t] # "other"
  /\ Unscanned
  /\ \A c \in Commits : output[c] = "absent"

WithinScene ==
  CASE scene = "restart" -> /\ clock = 0 /\ NoLeases /\ RootAtRest /\ OneRecovery /\ OnlyHandle(H1)
                            /\ nstatus[N1] = "active" /\ aborting = {}
    [] scene = "race"    -> clock = 0 /\ NoLeases /\ RootAtRest /\ NodeAtRest
    [] scene = "drift"   -> /\ clock = 0 /\ OnlyOnStaging /\ OneRecovery /\ OnlyHandle(H1)
                            /\ repoch[R1] <= 2 /\ drifted \subseteq {1} /\ Untouched /\ Alive
                            /\ nstatus[N1] = "active"
    [] scene = "leases"  -> /\ RootAtRest /\ NodeAtRest /\ OneRecovery /\ OnlyHandle(H1)
                            /\ Untouched /\ OnlyOnSource

Symmetry == Permutations(Recoveries)

ScenesInit == scene \in {"restart", "race", "drift", "leases"} /\ OwnerReady
ScenesNext == CommitNext /\ UNCHANGED scene /\ WithinScene'
ScenesSpec == ScenesInit /\ [][ScenesNext]_<<allCommitVars, scene>>

\* The first scene by itself: a process that is superseded while it installs.
RestartInit == scene = "restart" /\ OwnerReady
RestartSpec == RestartInit /\ [][ScenesNext]_<<allCommitVars, scene>>

\* One process and nothing left out.
AloneInit == scene = "alone" /\ OwnerReady
AloneSpec == AloneInit /\ [][CommitNext /\ UNCHANGED scene]_<<allCommitVars, scene>>
=============================================================================
