---------------------------- MODULE ArtifactCommits ----------------------------
(***************************************************************************)
(* Fenced artifact commits (ADR 0074): a verified staged artifact becomes  *)
(* a file of the library through a commit record and its intent, which the *)
(* node that owns the target root drives.  The control plane does not see  *)
(* the bytes; the node-agent process authorizes the intent, journals that  *)
(* it is applying it, promotes the staged bytes without replacing anything,*)
(* reports what it observed and completes.  An operator recovers a commit  *)
(* that got stuck, from the receipts alone.  The workflow may then move a  *)
(* committed result to its output path.                                    *)
(*                                                                         *)
(* Actions of the control plane are one write transaction each             *)
(* (artifact/commit/{prepare,intent,finalize,recovery}.rs); actions of the *)
(* node agent (voom-node-agent/src/commit.rs) are one call or one change   *)
(* of the file system each, and so are the workflow's (promotion.rs).  A   *)
(* call that fails without effect is a stuttering step: the agent treats   *)
(* it as fatal and can only stop.                                          *)
(***************************************************************************)
EXTENDS NodeLifecycle

CONSTANTS
  Handles,      \* artifact handles, each with a verified staged file
  SourceOf,     \* [Handles -> file versions]: the version it was made from
  StagingRoot,  \* [Handles -> Roots]: where its staged bytes are
  Targets,      \* target paths
  TargetRoot,   \* [Targets -> Roots]
  MaxCommits,   \* bound on commit records
  Recoveries,   \* concurrent recover_commit calls
  UseLeases,    \* use lease ids
  UseTTL        \* the TTL of a TTL-bound use lease

ASSUME CommitAssumption ==
  /\ None \notin Handles \cup Targets
  /\ MaxCommits \in Nat
  /\ UseTTL \in Nat
  /\ DOMAIN SourceOf = Handles
  /\ StagingRoot \in [Handles -> Roots]
  /\ TargetRoot \in [Targets -> Roots]

Commits == 1..MaxCommits
Versions == {SourceOf[h] : h \in Handles}
RecordState == {"absent", "pending", "committed", "failed", "recovery_required"}
IntentState == {"absent", "pending", "authorized", "completed", "recovery_required", "aborted"}
OpenState == {"pending", "authorized", "recovery_required"}
\* outcome_unknown is split by its reason: target_absent_no_temp_sibling is the
\* resolved-not-applied evidence, any other reason leaves the outcome open.
Receipt == {"none", "applying", "applied", "mismatched", "not_applied", "unresolved"}
Content == Handles \cup {"absent", "other"}
LeaseKind == {"asset", "bundle", "version", "location", "staging"}
CommitRow ==
  [record : RecordState, intent : IntentState, handle : Handles \cup {None},
   target : Targets \cup {None}, node : Nodes \cup {None}, epoch : Nat,
   fence : Incarnations \cup {None}, receipt : Receipt, supplement : Receipt,
   staging : {"none", "live", "retired"}, placement : {"none", "staged", "placed"}]
AgentRow ==
  [at : {"idle", "authorize", "journal", "promote", "link", "appeared", "sync", "verify",
         "report", "complete", "observe", "siblings", "reobserved", "dead", "withdrew"},
   job : Commits \cup {None}, evidence : Receipt]
RecoveryRow ==
  [at : {"idle", "abort", "mark", "finalize", "refused"}, commit : Commits \cup {None},
   receipt : Receipt, supplement : Receipt, current : BOOLEAN]

VARIABLES
  commit,     \* [Commits -> CommitRow]: a record, its intent and its staging location
  staged,     \* handles with a live staging marker in artifact_locations
  drifted,    \* commits whose publication context no longer holds
  aborting,   \* authorizations refused by a lease whose abort has still to run
  agent,      \* [Incarnations -> AgentRow]: the commit coordinator of a process
  target,     \* [Targets -> the handle whose bytes are there, "absent" or "other"]
  temps,      \* temp siblings on disk: <<incarnation, target>>
  output,     \* [Commits -> what is at the output path of its result]
  addressed,  \* targets a live file location already addresses
  recovery,   \* [Recoveries -> RecoveryRow]: a recover_commit call under way
  uses        \* [UseLeases -> a blocking use lease]

fileVars == <<target, temps, output>>
commitVars == <<commit, staged, drifted, aborting, agent, fileVars, addressed, recovery, uses>>
allCommitVars == <<commitVars, allNodeVars>>

NoCommit ==
  [record |-> "absent", intent |-> "absent", handle |-> None, target |-> None, node |-> None,
   epoch |-> 0, fence |-> None, receipt |-> "none", supplement |-> "none", staging |-> "none",
   placement |-> "none"]
Resting == [at |-> "idle", job |-> None, evidence |-> "none"]
NoRecovery == [at |-> "idle", commit |-> None, receipt |-> "none", supplement |-> "none",
               current |-> FALSE]
NoUse == [state |-> "absent", kind |-> "version", of |-> None, expires |-> None]

\* One type invariant: rows hold values their columns allow.
CommitTypeOK ==
  /\ commit \in [Commits -> CommitRow]
  /\ staged \subseteq Handles
  /\ drifted \subseteq Commits
  /\ aborting \subseteq Commits
  /\ agent \in [Incarnations -> AgentRow]
  /\ target \in [Targets -> Content]
  /\ output \in [Commits -> Content]
  /\ temps \subseteq Incarnations \X Targets
  /\ addressed \subseteq Targets
  /\ recovery \in [Recoveries -> RecoveryRow]
  /\ \A u \in UseLeases :
       /\ uses[u].state \in {"absent", "live", "ended"}
       /\ uses[u].kind \in LeaseKind
       /\ uses[u].of \in Versions \cup Commits \cup {None}
       /\ uses[u].expires \in Nat \cup {None}

CommitInit ==
  /\ commit = [c \in Commits |-> NoCommit]
  /\ staged = Handles
  /\ drifted = {}
  /\ aborting = {}
  /\ agent = [i \in Incarnations |-> Resting]
  /\ target = [t \in Targets |-> "absent"]
  /\ temps = {}
  /\ output = [c \in Commits |-> "absent"]
  /\ addressed = {}
  /\ recovery = [o \in Recoveries |-> NoRecovery]
  /\ uses = [u \in UseLeases |-> NoUse]
-----------------------------------------------------------------------------
\* Guards shared by the use cases.

\* A commit whose intent is not terminal.
Open(c) == commit[c].intent \in OpenState

Source(c) == SourceOf[commit[c].handle]

\* The leases the safety gate finds in the lineage closure of v: on the asset, a
\* bundle of it, the version, and every live location of the version, the
\* staging locations pinned on it included.
Covers(u, v) ==
  \/ uses[u].kind # "staging" /\ uses[u].of = v
  \/ /\ uses[u].kind = "staging"
     /\ commit[uses[u].of].staging = "live"
     /\ Source(uses[u].of) = v

Unexpired(u, now) == uses[u].expires = None \/ uses[u].expires >= now

\* evaluate_commit_safety_gate.
Gate(v, now) ==
  \A u \in UseLeases : uses[u].state = "live" /\ Covers(u, v) => ~Unexpired(u, now)

\* guard_intent_scope_in_tx, for a call of node n.
Scope(c, n) ==
  LET r == TargetRoot[commit[c].target]
  IN /\ c \notin drifted
     /\ rowner[r] = n
     /\ rstate[r] = "active"
     /\ repoch[r] = commit[c].epoch
     /\ commit[c].staging = "live"

\* Every change of an intent bumps intent_epoch, so what a recovery read of c
\* before is out of date from here on; the recovery that made the change ends.
Bump(c, by) ==
  recovery' = [o \in Recoveries |->
                 IF o = by THEN NoRecovery
                 ELSE [recovery[o] EXCEPT !.current = @ /\ recovery[o].commit # c]]
-----------------------------------------------------------------------------
\* Preparing a commit.

\* The records that hold the slot of a handle and of a target path.
Holds(c) == commit[c].record \in {"pending", "committed", "recovery_required"}

MutPreparable(h, t, now, gone) ==
  /\ target[t] = "absent"
  /\ RootAvailable(TargetRoot[t])
  /\ rstate[StagingRoot[h]] = "active"
  /\ rowner[StagingRoot[h]] = rowner[TargetRoot[t]]
  /\ h \in staged
  /\ Gate(SourceOf[h], now)
  /\ \A c \in Commits \ gone :
       /\ Holds(c) => commit[c].handle # h
       /\ commit[c].staging = "live" => Source(c) # SourceOf[h]

\* What prepare_commit_in_tx requires, the commits of gone set aside: the target
\* does not exist, its root is available and has the owner of the staging root,
\* the handle is staged and verified, the gate is open, the slots of handle and
\* target are free and the source version has one live location, its own.
Preparable(h, t, now, gone) ==
  /\ target[t] = "absent"
  /\ RootAvailable(TargetRoot[t])
  /\ rstate[StagingRoot[h]] = "active"
  /\ rowner[StagingRoot[h]] = rowner[TargetRoot[t]]
  /\ h \in staged
  /\ \A u \in UseLeases :
       /\ uses[u].state = "live" /\ Covers(u, SourceOf[h])
       /\ ~(uses[u].kind = "staging" /\ uses[u].of \in gone)
       => ~Unexpired(u, now)
  /\ \A c \in Commits \ gone :
       /\ Holds(c) => commit[c].handle # h /\ commit[c].target # t
       /\ commit[c].staging = "live" => Source(c) # SourceOf[h]

\* Row ids are handed out in order.
NextCommit(c) ==
  commit[c].record = "absent" /\ \A d \in 1..(c - 1) : commit[d].record # "absent"

NewCommit(h, t) ==
  [NoCommit EXCEPT !.record = "pending", !.intent = "pending", !.handle = h, !.target = t,
                   !.node = rowner[TargetRoot[t]], !.epoch = repoch[TargetRoot[t]],
                   !.staging = "live"]

\* commit_artifact up to its wait: record, staging location and intent.
PrepareCommit(c, h, t) ==
  /\ NextCommit(c)
  /\ Preparable(h, t, clock, {})
  /\ commit' = [commit EXCEPT ![c] = NewCommit(h, t)]
  /\ UNCHANGED <<staged, drifted, aborting, agent, fileVars, addressed, recovery, uses, allNodeVars>>
-----------------------------------------------------------------------------
\* The commit coordinator of the process activated as i.

Job(i) == agent[i].job
Owner(i) == inode[i]

\* The process is at a call the control plane lets through.
Calls(i, at) == agent[i].at = at /\ istate[i] = "active" /\ Fenced(Owner(i), i)

Moves(i, at) == agent' = [agent EXCEPT ![i].at = at]
Rests(i) == agent' = [agent EXCEPT ![i] = Resting]

\* remote_open_commit_intents, and what drive_open_intents does with an intent
\* it lists.  A listing is worked off one intent at a time.
TakeUp(i, c) ==
  /\ Calls(i, "idle")
  /\ Open(c)
  /\ rowner[TargetRoot[commit[c].target]] = Owner(i)
  /\ repoch[TargetRoot[commit[c].target]] = commit[c].epoch
  /\ commit[c].staging = "live"
  /\ agent' = [agent EXCEPT ![i] =
                 [at |-> IF commit[c].intent = "recovery_required" THEN "observe" ELSE "authorize",
                  job |-> c, evidence |-> "none"]]
  /\ UNCHANGED <<commit, staged, drifted, aborting, fileVars, addressed, recovery, uses, allNodeVars>>

MutAuthorize(i, now) ==
  LET c == Job(i)
  IN /\ Calls(i, "authorize")
     /\ commit[c].fence = None
     /\ commit[c].intent # "completed"
     /\ Scope(c, Owner(i))
     /\ Gate(Source(c), now)
     /\ commit' = [commit EXCEPT ![c].intent = "authorized", ![c].fence = i]
     /\ Bump(c, None)
     /\ Moves(i, "journal")
     /\ UNCHANGED <<staged, drifted, aborting, fileVars, addressed, uses, allNodeVars>>

\* remote_authorize_commit_intent mints the fence.
Authorize(i, now) ==
  LET c == Job(i)
  IN /\ Calls(i, "authorize")
     /\ commit[c].intent = "pending"
     /\ Scope(c, Owner(i))
     /\ Gate(Source(c), now)
     /\ commit' = [commit EXCEPT ![c].intent = "authorized", ![c].fence = i]
     /\ Bump(c, None)
     /\ Moves(i, "journal")
     /\ UNCHANGED <<staged, drifted, aborting, fileVars, addressed, uses, allNodeVars>>

\* Drift aborts the pending intent in the transaction that found it; the agent
\* lists again, finds the intent gone and goes on.
AuthorizeDrifted(i) ==
  LET c == Job(i)
  IN /\ Calls(i, "authorize")
     /\ commit[c].intent = "pending"
     /\ ~Scope(c, Owner(i))
     /\ commit' = [commit EXCEPT ![c].intent = "aborted"]
     /\ Bump(c, None)
     /\ Rests(i)
     /\ UNCHANGED <<staged, drifted, aborting, fileVars, addressed, uses, allNodeVars>>

\* A blocking lease rolls the transaction back; a second one is to abort the
\* intent.  The answer is a server error, so the client retries the call.
AuthorizeBlocked(i, now) ==
  LET c == Job(i)
  IN /\ Calls(i, "authorize")
     /\ commit[c].intent = "pending"
     /\ Scope(c, Owner(i))
     /\ ~Gate(Source(c), now)
     /\ aborting' = aborting \cup {c}
     /\ UNCHANGED <<commit, staged, drifted, agent, fileVars, addressed, recovery, uses, allNodeVars>>

\* abort_pending_on_drift leaves an intent alone that is no longer pending.
AbortBlocked(c) ==
  /\ c \in aborting
  /\ aborting' = aborting \ {c}
  /\ \/ /\ commit[c].intent = "pending"
        /\ commit' = [commit EXCEPT ![c].intent = "aborted"]
        /\ Bump(c, None)
     \/ commit[c].intent # "pending" /\ UNCHANGED <<commit, recovery>>
  /\ UNCHANGED <<staged, drifted, agent, fileVars, addressed, uses, allNodeVars>>

\* An intent that is not pending any more belongs to someone else: skipped.
AuthorizeSkipped(i) ==
  /\ Calls(i, "authorize")
  /\ commit[Job(i)].intent # "pending"
  /\ Rests(i)
  /\ UNCHANGED <<commit, staged, drifted, aborting, fileVars, addressed, recovery, uses, allNodeVars>>

\* remote_report_commit_applying: the journal entry before any byte is touched.
JournalApplying(i) ==
  LET c == Job(i)
  IN /\ Calls(i, "journal")
     /\ commit[c].intent = "authorized"
     /\ Scope(c, Owner(i))
     /\ commit[c].receipt = "none"
     /\ commit' = [commit EXCEPT ![c].receipt = "applying"]
     /\ Bump(c, None)
     /\ Moves(i, "promote")
     /\ UNCHANGED <<staged, drifted, aborting, fileVars, addressed, uses, allNodeVars>>

Finds(i, evidence, at) == agent' = [agent EXCEPT ![i].evidence = evidence, ![i].at = at]

MutSeen(c) == target[commit[c].target]
MutSeenUnchecked(c) == "applied"

\* What an existing target proves.
Seen(c) == IF target[commit[c].target] = commit[c].handle THEN "applied" ELSE "mismatched"

\* materialize_staging_from_source and promote_staged_bytes up to the copy.
\* intact: the staged bytes, or failing them the source's, still match the pins.
Promote(i, intact) ==
  LET c == Job(i)
      t == commit[c].target
  IN /\ agent[i].at = "promote"
     /\ IF intact /\ target[t] = "absent"
        THEN /\ temps' = temps \cup {<<i, t>>}
             /\ Moves(i, "link")
        ELSE /\ Finds(i, IF intact THEN Seen(c) ELSE "mismatched", "report")
             /\ UNCHANGED temps
     /\ UNCHANGED <<commit, staged, drifted, aborting, target, output, addressed, recovery, uses, allNodeVars>>

\* The staged bytes drifted while they were copied, or the copy or the link
\* failed: the temp sibling is removed.  A failure ends the process.
CopyDrifts(i) ==
  /\ agent[i].at = "link"
  /\ temps' = temps \ {<<i, commit[Job(i)].target>>}
  /\ Finds(i, "mismatched", "report") \/ Moves(i, "dead")
  /\ UNCHANGED <<commit, staged, drifted, aborting, target, output, addressed, recovery, uses, allNodeVars>>


\* The hard link of install_temp_no_replace fails when the target has appeared.
Link(i) ==
  LET c == Job(i)
      t == commit[c].target
  IN /\ agent[i].at = "link"
     /\ IF target[t] = "absent"
        THEN target' = [target EXCEPT ![t] = commit[c].handle] /\ Moves(i, "sync")
        ELSE UNCHANGED target /\ Moves(i, "appeared")
     /\ UNCHANGED <<commit, staged, drifted, aborting, temps, output, addressed, recovery, uses, allNodeVars>>

\* The parent directory is synced, the temp sibling removed and the directory
\* synced again.
SyncInstall(i) ==
  /\ agent[i].at = "sync"
  /\ temps' = temps \ {<<i, commit[Job(i)].target>>}
  /\ Moves(i, "verify")
  /\ UNCHANGED <<commit, staged, drifted, aborting, target, output, addressed, recovery, uses, allNodeVars>>

\* The first sync fails: whatever is at the target path is removed, the temp
\* sibling stays, and the process ends, "withdrew" rather than "dead" only so that
\* the properties can tell.
WithdrawInstall(i) ==
  /\ agent[i].at = "sync"
  /\ target' = [target EXCEPT ![commit[Job(i)].target] = "absent"]
  /\ Moves(i, "withdrew")
  /\ UNCHANGED <<commit, staged, drifted, aborting, temps, output, addressed, recovery, uses, allNodeVars>>

\* The target is looked at again: one that is gone ends the process, and so does
\* one that was just installed and differs.
VerifyInstall(i) ==
  /\ agent[i].at = "verify"
  /\ IF Seen(Job(i)) = "applied" THEN Finds(i, "applied", "report") ELSE Moves(i, "dead")
  /\ UNCHANGED <<commit, staged, drifted, aborting, fileVars, addressed, recovery, uses, allNodeVars>>

\* The target appeared under the link: the temp sibling is removed, if that
\* works, and the evidence is what is there.
SettleAppeared(i, removed) ==
  LET t == commit[Job(i)].target
  IN /\ agent[i].at = "appeared"
     /\ temps' = IF removed THEN temps \ {<<i, t>>} ELSE temps
     /\ IF target[t] = "absent" THEN Moves(i, "dead") ELSE Finds(i, Seen(Job(i)), "report")
     /\ UNCHANGED <<commit, staged, drifted, aborting, target, output, addressed, recovery, uses, allNodeVars>>

\* drive_recovery_intent: a read-only look at the target ...
Observe(i) ==
  /\ agent[i].at = "observe"
  /\ IF target[commit[Job(i)].target] = "absent" THEN Moves(i, "siblings")
     ELSE Finds(i, Seen(Job(i)), "reobserved")
  /\ UNCHANGED <<commit, staged, drifted, aborting, fileVars, addressed, recovery, uses, allNodeVars>>

\* ... and, when it is absent, a second one at its temp siblings.
ObserveSiblings(i) ==
  LET t == commit[Job(i)].target
  IN /\ agent[i].at = "siblings"
     /\ Finds(i, IF \E j \in Incarnations : <<j, t>> \in temps THEN "unresolved" ELSE "not_applied",
              "reobserved")
     /\ UNCHANGED <<commit, staged, drifted, aborting, fileVars, addressed, recovery, uses, allNodeVars>>

\* remote_report_commit_outcome: evidence follows the applying entry of an
\* authorized intent, drift moves record and intent to recovery_required; on an
\* intent already there it is supplemental.
ReportOutcome(i) ==
  LET c == Job(i)
      evidence == agent[i].evidence
  IN /\ Calls(i, "report") \/ Calls(i, "reobserved")
     /\ Scope(c, Owner(i))
     /\ \/ /\ commit[c].intent = "recovery_required"
           /\ commit' = [commit EXCEPT ![c].supplement = evidence]
        \/ /\ commit[c].intent = "authorized"
           /\ commit[c].receipt = "applying"
           /\ IF evidence = "applied"
              THEN commit' = [commit EXCEPT ![c].receipt = evidence]
              ELSE commit' = [commit EXCEPT ![c].receipt = evidence,
                                            ![c].intent = "recovery_required",
                                            ![c].record = "recovery_required"]
     /\ Bump(c, None)
     /\ IF agent[i].at = "report" /\ evidence = "applied" THEN Moves(i, "complete") ELSE Rests(i)
     /\ UNCHANGED <<staged, drifted, aborting, fileVars, addressed, uses, allNodeVars>>

\* finalize_commit_in_tx and mark_completed_in_tx: the result version and its
\* location appear, the staged addresses are retired, record and intent settle.
Converges(c) ==
  /\ commit[c].record \in {"pending", "recovery_required"}
  /\ commit[c].handle \in staged
  /\ commit[c].target \notin addressed
  /\ commit' = [commit EXCEPT ![c].record = "committed", ![c].intent = "completed",
                              ![c].fence = None, ![c].staging = "retired",
                              ![c].placement = "staged"]
  /\ staged' = staged \ {commit[c].handle}
  /\ addressed' = addressed \cup {commit[c].target}

\* remote_complete_commit_intent, by the holder of the fence.
Complete(i) ==
  LET c == Job(i)
  IN /\ Calls(i, "complete")
     /\ commit[c].intent = "authorized"
     /\ Scope(c, Owner(i))
     /\ commit[c].fence = i
     /\ commit[c].receipt = "applied"
     /\ Converges(c)
     /\ Bump(c, None)
     /\ Rests(i)
     /\ UNCHANGED <<drifted, aborting, fileVars, uses, allNodeVars>>

\* The process stops, at any point; its temp siblings stay on disk.
Crash(i) ==
  /\ istate[i] # "absent"
  /\ agent[i].at \notin {"dead", "withdrew"}
  /\ Moves(i, "dead")
  /\ UNCHANGED <<commit, staged, drifted, aborting, fileVars, addressed, recovery, uses, allNodeVars>>
-----------------------------------------------------------------------------
\* recover_commit, run by an operator: a read of the rows, then transactions.

\* classify_recovery_required, on the receipts read; anything else is left to
\* the operator.
Classified(receipt, supplement) ==
  IF "applied" \in {receipt, supplement} THEN "finalize"
  ELSE IF supplement = "not_applied" THEN "abort" ELSE "idle"

\* The read-only transaction and the choice of the way to go.
RecoverRead(o, c) ==
  LET row == commit[c]
      way == IF row.intent \in {"pending", "authorized"} /\ row.receipt = "none" THEN "abort"
             ELSE IF row.intent = "authorized" THEN "mark"
             ELSE Classified(row.receipt, row.supplement)
  IN /\ recovery[o].at \in {"idle", "refused"}
     /\ row.record \in {"pending", "recovery_required"}
     /\ Open(c)
     /\ recovery' = [recovery EXCEPT ![o] =
          IF way = "idle" THEN NoRecovery
          ELSE [at |-> way, commit |-> c, receipt |-> row.receipt,
                supplement |-> row.supplement, current |-> TRUE]]
     /\ UNCHANGED <<commit, staged, drifted, aborting, agent, fileVars, addressed, uses, allNodeVars>>

\* A receipt-bearing authorized intent enters recovery_required before it is
\* classified, on the receipts read before.
RecoverMark(o) ==
  LET c == recovery[o].commit
      way == Classified(recovery[o].receipt, recovery[o].supplement)
      stale == [p \in Recoveries |->
                  [recovery[p] EXCEPT !.current = @ /\ recovery[p].commit # c]]
  IN /\ recovery[o].at = "mark"
     /\ \/ /\ commit[c].intent = "authorized"
           /\ commit' = [commit EXCEPT ![c].intent = "recovery_required"]
           /\ recovery' = [stale EXCEPT ![o] = IF way = "idle" THEN NoRecovery
                                               ELSE [@ EXCEPT !.at = way]]
        \/ /\ commit[c].intent # "authorized"
           /\ recovery' = [recovery EXCEPT ![o] = NoRecovery]
           /\ UNCHANGED commit
     /\ UNCHANGED <<staged, drifted, aborting, agent, fileVars, addressed, uses, allNodeVars>>

\* finalize_recovered: the scope is that of the node the intent was prepared
\* for, the receipt is the one read.
FinalizeRecovered(o) ==
  LET c == recovery[o].commit
      scoped == Scope(c, commit[c].node) /\ Gate(Source(c), clock)
      proven == recovery[o].receipt = "applied"
  IN /\ recovery[o].at = "finalize"
     /\ \/ /\ scoped /\ proven
           /\ commit[c].intent \in {"authorized", "recovery_required"}
           /\ Converges(c)
           /\ Bump(c, o)
        \/ /\ scoped /\ ~proven
           /\ recovery' = [recovery EXCEPT ![o].at = "refused"]
           /\ UNCHANGED <<commit, staged, addressed>>
     /\ UNCHANGED <<drifted, aborting, agent, fileVars, uses, allNodeVars>>

MutAbortAndReprepare(o, now) ==
  LET c == recovery[o].commit
      h == commit[c].handle
      t == commit[c].target
  IN /\ recovery[o].at = "abort"
     /\ Open(c)
     /\ Preparable(h, t, now, {c})
     /\ \E d \in Commits :
          /\ NextCommit(d)
          /\ commit' = [commit EXCEPT
               ![c].intent = "aborted", ![c].fence = None, ![c].record = "failed",
               ![c].staging = "retired", ![d] = NewCommit(h, t)]
     /\ Bump(c, o)
     /\ UNCHANGED <<staged, drifted, aborting, agent, fileVars, addressed, uses, allNodeVars>>

\* abort_and_reprepare_report: the intent must be as it was classified, and the
\* successor is prepared in the same transaction.
AbortAndReprepare(o, now) ==
  LET c == recovery[o].commit
      h == commit[c].handle
      t == commit[c].target
  IN /\ recovery[o].at = "abort"
     /\ recovery[o].current
     /\ Preparable(h, t, now, {c})
     /\ \E d \in Commits :
          /\ NextCommit(d)
          /\ commit' = [commit EXCEPT
               ![c].intent = "aborted", ![c].fence = None, ![c].record = "failed",
               ![c].staging = "retired", ![d] = NewCommit(h, t)]
     /\ Bump(c, o)
     /\ UNCHANGED <<staged, drifted, aborting, agent, fileVars, addressed, uses, allNodeVars>>

\* A call that fails in one of these transactions ends.
RecoverGivesUp(o) ==
  /\ recovery[o].at \in {"abort", "finalize"}
  /\ recovery' = [recovery EXCEPT ![o] = NoRecovery]
  /\ UNCHANGED <<commit, staged, drifted, aborting, agent, fileVars, addressed, uses, allNodeVars>>
-----------------------------------------------------------------------------
\* Blocking use leases.

\* consult_artifact_intent_lock_in_tx: the open intents that refuse a lease.
Refused(kind, x) ==
  \/ kind = "version" /\ \E c \in Commits : Open(c) /\ Source(c) = x
  \/ kind = "staging" /\ Open(x)

\* acquire_in_tx on a live scope; a manual lease has no expiry.
AcquireUse(u, kind, x, manual, now) ==
  /\ uses[u].state = "absent"
  /\ kind = "staging" => commit[x].staging = "live"
  /\ ~Refused(kind, x)
  /\ uses' = [uses EXCEPT ![u] = [state |-> "live", kind |-> kind, of |-> x,
                                  expires |-> IF manual THEN None ELSE now + UseTTL]]
  /\ UNCHANGED <<commit, staged, drifted, aborting, agent, fileVars, addressed, recovery, allNodeVars>>

\* A heartbeat renews any lease that was not released, an expired one included.
HeartbeatUse(u, now) ==
  /\ uses[u].state = "live"
  /\ uses[u].expires # None
  /\ uses' = [uses EXCEPT ![u].expires = now + UseTTL]
  /\ UNCHANGED <<commit, staged, drifted, aborting, agent, fileVars, addressed, recovery, allNodeVars>>

\* release and force_release; recover_stale_issuer does the same to a manual one.
ReleaseUse(u) ==
  /\ uses[u].state = "live"
  /\ uses' = [uses EXCEPT ![u].state = "ended"]
  /\ UNCHANGED <<commit, staged, drifted, aborting, agent, fileVars, addressed, recovery, allNodeVars>>

\* expire_due releases every lease that is past its expiry.
ExpireUses(now) ==
  LET due == {u \in UseLeases : uses[u].state = "live" /\ ~Unexpired(u, now)}
  IN /\ due # {}
     /\ uses' = [u \in UseLeases |-> IF u \in due THEN [uses[u] EXCEPT !.state = "ended"] ELSE uses[u]]
     /\ UNCHANGED <<commit, staged, drifted, aborting, agent, fileVars, addressed, recovery, allNodeVars>>
-----------------------------------------------------------------------------
\* What happens around the commits.

\* Another program puts a file where a target is to go.
ForeignFile(t) ==
  /\ target[t] = "absent"
  /\ target' = [target EXCEPT ![t] = "other"]
  /\ UNCHANGED <<commit, staged, drifted, aborting, agent, temps, output, addressed, recovery, uses, allNodeVars>>

\* The publication the commit belongs to is voided, so guard_context rejects it.
PublicationDrifts(c) ==
  /\ Open(c)
  /\ c \notin drifted
  /\ drifted' = drifted \cup {c}
  /\ UNCHANGED <<commit, staged, aborting, agent, fileVars, addressed, recovery, uses, allNodeVars>>

\* A scan that does not find the staged file retires its location, but not while
\* an open intent pins it.
ScanRetiresStaging(c) ==
  /\ commit[c].staging = "live"
  /\ ~Open(c)
  /\ commit' = [commit EXCEPT ![c].staging = "retired"]
  /\ UNCHANGED <<staged, drifted, aborting, agent, fileVars, addressed, recovery, uses, allNodeVars>>

\* A scan meets the installed file before the commit completes and ingests it.
ScanIngests(t) ==
  /\ target[t] # "absent"
  /\ t \notin addressed
  /\ addressed' = addressed \cup {t}
  /\ UNCHANGED <<commit, staged, drifted, aborting, agent, fileVars, recovery, uses, allNodeVars>>
-----------------------------------------------------------------------------
\* Workflow promotion of a committed result (promote_artifact), which runs in the
\* control plane and may stop, and be resumed, after any of these steps.  A result
\* to be retained is one that never moves.

Placeable(c) == commit[c].record = "committed" /\ commit[c].placement = "staged"

\* move_terminal_artifact links the file to the output path, or copies it there.
LinkResult(c) ==
  /\ Placeable(c)
  /\ output[c] = "absent"
  /\ target[commit[c].target] # "absent"
  /\ output' = [output EXCEPT ![c] = target[commit[c].target]]
  /\ UNCHANGED <<commit, staged, drifted, aborting, agent, target, temps, addressed, recovery, uses, allNodeVars>>

\* remove_promoted_source, also for an output that a stopped promotion left.
RemoveSource(c) ==
  /\ Placeable(c)
  /\ output[c] # "absent"
  /\ target[commit[c].target] = output[c]
  /\ target' = [target EXCEPT ![commit[c].target] = "absent"]
  /\ UNCHANGED <<commit, staged, drifted, aborting, agent, temps, output, addressed, recovery, uses, allNodeVars>>

\* The location of the result is repointed and the record marked placed.  A source
\* whose removal failed stays.
PlaceResult(c) ==
  /\ Placeable(c)
  /\ output[c] # "absent"
  /\ target[commit[c].target] \in {"absent", output[c]}
  /\ commit' = [commit EXCEPT ![c].placement = "placed"]
  /\ addressed' = addressed \ {commit[c].target}
  /\ UNCHANGED <<staged, drifted, aborting, agent, fileVars, recovery, uses, allNodeVars>>
-----------------------------------------------------------------------------
AgentStep ==
  \E i \in Incarnations :
    \/ \E c \in Commits : TakeUp(i, c)
    \/ \E now \in Readings : Authorize(i, now) \/ AuthorizeBlocked(i, now)
    \/ AuthorizeDrifted(i)
    \/ AuthorizeSkipped(i)
    \/ JournalApplying(i)
    \/ \E intact \in BOOLEAN : Promote(i, intact)
    \/ CopyDrifts(i)
    \/ Link(i)
    \/ SyncInstall(i)
    \/ WithdrawInstall(i)
    \/ VerifyInstall(i)
    \/ \E removed \in BOOLEAN : SettleAppeared(i, removed)
    \/ Observe(i)
    \/ ObserveSiblings(i)
    \/ ReportOutcome(i)
    \/ Complete(i)
    \/ Crash(i)

OperatorStep ==
  \/ \E c \in Commits, h \in Handles, t \in Targets : PrepareCommit(c, h, t)
  \/ \E o \in Recoveries :
       \/ \E c \in Commits : RecoverRead(o, c)
       \/ RecoverMark(o)
       \/ FinalizeRecovered(o)
       \/ \E now \in Readings : AbortAndReprepare(o, now)
       \/ RecoverGivesUp(o)

LeaseStep ==
  \/ \E u \in UseLeases, manual \in BOOLEAN, now \in Readings :
       \/ \E kind \in LeaseKind \ {"staging"}, v \in Versions : AcquireUse(u, kind, v, manual, now)
       \/ \E c \in Commits : AcquireUse(u, "staging", c, manual, now)
  \/ \E u \in UseLeases : ReleaseUse(u) \/ \E now \in Readings : HeartbeatUse(u, now)
  \/ \E now \in Readings : ExpireUses(now)

SurroundingStep ==
  \/ \E t \in Targets : ForeignFile(t) \/ ScanIngests(t)
  \/ \E c \in Commits : PublicationDrifts(c) \/ ScanRetiresStaging(c) \/ AbortBlocked(c)

PlacementStep ==
  \E c \in Commits : LinkResult(c) \/ RemoveSource(c) \/ PlaceResult(c)

CommitNext ==
  \/ AgentStep
  \/ OperatorStep
  \/ LeaseStep
  \/ SurroundingStep
  \/ PlacementStep
  \/ NodeNext /\ UNCHANGED commitVars

CommitSpec ==
  RegistryInit /\ NodeInit /\ clock = 0 /\ CommitInit /\ [][CommitNext]_allCommitVars
-----------------------------------------------------------------------------
\* The process has journalled c as applying and may still touch its target.
Applying(i, c) ==
  /\ Job(i) = c
  /\ agent[i].at \in {"promote", "link", "appeared", "sync", "verify", "report", "complete"}

\* The two rows of a commit settle together, a commit that is under way keeps
\* its staged bytes addressed, and no two commits under way share a handle or a
\* target: what the separate updates of finalize.rs, recovery.rs and intent.rs
\* and the partial unique indexes have to add up to.
RowsAgree ==
  \A c \in Commits :
    /\ commit[c].record = "committed" <=> commit[c].intent = "completed"
    /\ commit[c].record = "failed" => commit[c].intent = "aborted"
    /\ Open(c) =>
         /\ commit[c].record \in {"pending", "recovery_required"}
         /\ commit[c].staging = "live"
         /\ \A d \in Commits \ {c} :
              Open(d) => commit[d].handle # commit[c].handle /\ commit[d].target # commit[c].target

\* An intent is aborted only when no byte can have been promoted for it: before
\* anyone journalled it as applying, or after its owner looked and found neither
\* target nor temp sibling.  recover_commit, abort_pending_on_drift and the
\* agent's journal race for this.
SafeAborts ==
  \A c \in Commits :
    commit[c].intent = "aborted" =>
      \/ commit[c].supplement = "not_applied"
      \/ commit[c].receipt = "none" /\ \A i \in Incarnations : ~Applying(i, c)

\* The bytes of c are where its location says, or at the output path that its
\* location is about to be given.
InPlace(c) ==
  \/ output[c] = commit[c].handle
  \/ commit[c].placement # "placed" /\ target[commit[c].target] = commit[c].handle

\* The one way past the fence: a process superseded while it was installing for
\* a predecessor of c, which was aborted meanwhile, took the target away again.
WithdrawnUnder(c) ==
  \E i \in Incarnations :
    /\ agent[i].at = "withdrew"
    /\ commit[Job(i)].intent = "aborted"
    /\ commit[Job(i)].target = commit[c].target

\* From its applied receipt on, and so once it is committed, a commit vouches for
\* bytes that are there: no receipt runs ahead of the promotion or vouches for a
\* foreign file, the owner of a commit never withdraws what was reported, and the
\* workflow's move of the result loses nothing wherever it stops.
VouchedBytes ==
  \A c \in Commits : commit[c].receipt = "applied" => InPlace(c) \/ WithdrawnUnder(c)

\* A settled commit stays settled: no late report, completion, second abort or
\* concurrent recovery moves a terminal intent or record.
SettledForGood ==
  [][\A c \in Commits :
       /\ commit[c].intent \in {"completed", "aborted"} => commit'[c].intent = commit[c].intent
       /\ commit[c].record \in {"committed", "failed"} => commit'[c].record = commit[c].record]_allCommitVars


\* Stale authorization is inert (ADR 0074): what a committed record vouches for is
\* not taken away by a process whose own commit was aborted.
CommittedBytes ==
  \A c \in Commits : commit[c].record = "committed" => InPlace(c)

\* What ADR 0074 says of recovery: an `applied` receipt, original or supplemental,
\* finalizes (recovery.rs, module documentation).
PromotedFinalizes == \A o \in Recoveries : recovery[o].at # "refused"

\* A pending record remains recoverable: recover_commit finds an intent it can
\* act on (commit_artifact's documentation).
PendingIsRecoverable ==
  \A c \in Commits : commit[c].record = "pending" => Open(c)

\* A conflicting lease never enters the authorized scope while the intent can
\* still converge (ADR 0074).
NoLeaseEntersScope ==
  \A c \in Commits : commit[c].intent = "authorized" => Gate(Source(c), clock)
=============================================================================
