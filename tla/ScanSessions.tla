----------------------------- MODULE ScanSessions -----------------------------
(***************************************************************************)
(* Scanning a storage root: the durable session, the pump of the owner's   *)
(* agent that walks the root and submits observations in numbered batches, *)
(* and the completion that publishes what was seen and retires the file    *)
(* locations that were not.                                                *)
(*                                                                         *)
(* The control plane never opens the scanned files, so what it records     *)
(* rests on the order in which the files change, the pump looks at them    *)
(* and the transactions commit.  Each use case of scan/sessions.rs is one  *)
(* transaction that reads the clock after it holds the write lock.  The    *)
(* pump of node-agent/src/scan_session.rs moves in the steps at which it   *)
(* reads the disk or calls the control plane; a call may be repeated until *)
(* its answer arrives.                                                     *)
(***************************************************************************)
EXTENDS NodeLifecycle, SequencesExt

CONSTANTS
  Locators,         \* provider-relative locators
  PrimaryOf,        \* [sidecar locators -> the primary each is grouped with]
  Unreadable,       \* locators below a directory a walk may fail to read
  Bytes,            \* file contents
  IdleTimeout,      \* idle_timeout_seconds
  MaxObservations,  \* MAX_SCAN_SESSION_OBSERVATIONS
  MaxLocations      \* bound: file location rows

Sidecars == DOMAIN PrimaryOf
Primaries == Locators \ Sidecars

ASSUME ScanAssumption ==
  /\ Sessions \subseteq Nat
  /\ Sidecars \subseteq Locators
  /\ \A x \in Sidecars : PrimaryOf[x] \in Primaries
  /\ Unreadable \subseteq Locators
  /\ None \notin Bytes
  /\ IdleTimeout \in Nat \ {0}
  /\ MaxObservations \in Nat
  /\ MaxLocations \in Nat

VARIABLES
  files,     \* [Roots -> [Identities -> [Locators -> Bytes \cup {None}]]]
  locs,      \* Seq of file_locations rows; a row's id is its index
  scan,      \* [Sessions -> session columns, with the ghosts of the properties]
  pump,      \* [Sessions -> the pump driving the session]
  lastScan   \* library_roots.last_scan_session_id

scanVars == <<files, locs, scan, pump, lastScan>>

\* by is retired_by_scan_session_id.  Two ghosts: lost, the file has been missing
\* at some moment since the row took its address; moved, that address is not
\* the one the row was recorded with.
LocationRow ==
  [root : Roots, loc : Locators, bytes : Bytes, live : BOOLEAN,
   by : Sessions \cup {None}, lost : BOOLEAN, moved : BOOLEAN]

\* bytes is None for an observation without evidence.
Observations ==
  UNION {[loc : Primaries, bytes : Bytes \cup {None}, sidecars : [S -> Bytes]] :
           S \in SUBSET Sidecars}

\* The ghosts: the mount at the request; the locators missing at some moment
\* since the start, those the walk failed to read, and whether nothing changed.
NoScan == [root |-> None, owner |-> None, epoch |-> 0, deadline |-> 0,
           batches |-> <<>>, watermark |-> None,
           mount |-> None, gone |-> {}, skipped |-> {}, quiet |-> TRUE]

NoPump == [phase |-> "none", todo |-> <<>>, seen |-> {}, sent |-> <<>>, next |-> 0]

\* One type invariant: rows and pumps hold values of their types, and an active
\* session names its root, its owner and, once it runs, its incarnation.
ScanTypeOK ==
  /\ files \in [Roots -> [Identities -> [Locators -> Bytes \cup {None}]]]
  /\ \A k \in DOMAIN locs : locs[k] \in LocationRow
  /\ lastScan \in [Roots -> Sessions \cup {None}]
  /\ \A s \in Sessions :
       /\ scan[s].watermark \in DOMAIN locs \cup {None}
       /\ \A k \in DOMAIN scan[s].batches : scan[s].batches[k] \subseteq Observations
       /\ pump[s].phase \in {"none", "walking", "visiting", "done", "failed"}
       /\ pump[s].next \in 0..Len(pump[s].sent)
       /\ sstate[s] # "absent" => scan[s].root \in Roots /\ scan[s].owner \in Nodes
       /\ sstate[s] = "running" => sinc[s] \in Incarnations

ScanInit ==
  /\ RegistryInit /\ NodeInit /\ clock = 0
  /\ files \in [Roots -> [Identities -> [Locators -> Bytes \cup {None}]]]
  /\ locs = <<>>
  /\ scan = [s \in Sessions |-> NoScan]
  /\ pump = [s \in Sessions |-> NoPump]
  /\ lastScan = [r \in Roots |-> None]
-----------------------------------------------------------------------------
\* The mounted files, and what the rows know of them.

Mounted(r) == IF rident[r] = None THEN [l \in Locators |-> None] ELSE files[r][rident[r]]

Present(r) == {l \in Locators : Mounted(r)[l] # None}

LiveAt(r, l) == {k \in DOMAIN locs : locs[k].live /\ locs[k].root = r /\ locs[k].loc = l}

Scanning(r) == {s \in Sessions : sstate[s] = "running" /\ scan[s].root = r}

\* rows after the files at r have become view.
Noticed(rows, r, view) ==
  [k \in DOMAIN rows |->
     IF rows[k].live /\ rows[k].root = r /\ view[rows[k].loc] = None
     THEN [rows[k] EXCEPT !.lost = TRUE] ELSE rows[k]]

\* Users and workers create, rewrite, rename and delete files at any time.
ChangeFile(r, l, b) ==
  LET view == [Mounted(r) EXCEPT ![l] = b]
  IN /\ rident[r] # None
     /\ Mounted(r)[l] # b
     /\ files' = [files EXCEPT ![r][rident[r]] = view]
     /\ locs' = Noticed(locs, r, view)
     /\ scan' = [s \in Sessions |->
                   IF s \notin Scanning(r) THEN scan[s]
                   ELSE [scan[s] EXCEPT !.gone = @ \cup (IF b = None THEN {l} ELSE {}),
                                        !.quiet = FALSE]]
     /\ UNCHANGED <<pump, lastScan, nodeVars, registryVars, clock>>

Disturbed(r) ==
  [s \in Sessions |-> IF s \in Scanning(r) THEN [scan[s] EXCEPT !.quiet = FALSE] ELSE scan[s]]

\* A commit records a row for the file it has just installed.
RecordLocation(r, l) ==
  /\ l \in Present(r)
  /\ LiveAt(r, l) = {}
  /\ Len(locs) < MaxLocations
  /\ locs' = Append(locs, [root |-> r, loc |-> l, bytes |-> Mounted(r)[l], live |-> TRUE,
                           by |-> None, lost |-> FALSE, moved |-> FALSE])
  /\ scan' = Disturbed(r)
  /\ UNCHANGED <<files, pump, lastScan, nodeVars, registryVars, clock>>

\* promote_artifact has moved the file of row k to l and repoints the row; a
\* move to another root is left out.
PromoteLocation(k, l) ==
  LET r == locs[k].root
  IN /\ locs[k].live
     /\ locs[k].loc \notin Present(r) /\ Mounted(r)[l] = locs[k].bytes
     /\ LiveAt(r, l) = {}
     /\ locs' = [locs EXCEPT ![k].loc = l, ![k].lost = FALSE, ![k].moved = TRUE]
     /\ scan' = Disturbed(r)
     /\ UNCHANGED <<files, pump, lastScan, nodeVars, registryVars, clock>>
-----------------------------------------------------------------------------
\* Requesting, fencing and expiring sessions.

Active(s) == sstate[s] \in {"requested", "running"}

MutExpired(s) == sstate[s] = "running" /\ scan[s].deadline <= clock

Expired(s) == Active(s) /\ scan[s].deadline <= clock

Swept == [s \in Sessions |-> IF Expired(s) THEN "stale" ELSE sstate[s]]

MutFreeFor(r) == \A s \in Sessions : scan[s].root = r => Swept[s] # "running"

FreeFor(r) == \A s \in Sessions : scan[s].root = r => Swept[s] \notin {"requested", "running"}

\* The sweep of expired sessions is kept even when the request is refused.
RequestScanSession(r, s) ==
  LET granted == RootAvailable(r) /\ FreeFor(r)
  IN /\ sstate[s] = "absent"
     /\ \A t \in Sessions : t < s => sstate[t] # "absent"
     /\ sstate' = IF granted THEN [Swept EXCEPT ![s] = "requested"] ELSE Swept
     /\ scan' = IF granted
                THEN [scan EXCEPT ![s].root = r, ![s].owner = rowner[r],
                                  ![s].epoch = repoch[r], ![s].deadline = clock + IdleTimeout,
                                  ![s].mount = rident[r]]
                ELSE scan
     /\ UNCHANGED <<files, locs, pump, lastScan, sinc, nodeRows, incarnationRows, rootRows,
                    registryVars, clock>>

RecoverExpiredScanSessions ==
  /\ \E s \in Sessions : Expired(s)
  /\ sstate' = Swept
  /\ UNCHANGED <<scanVars, sinc, nodeRows, incarnationRows, rootRows, registryVars, clock>>

\* scan_fence_error.  Its last comparison, of incarnations, never decides: a call
\* has passed Authorized, and a session is staled together with its incarnation.
FencedOff(s) ==
  \/ scan[s].deadline <= clock
  \/ repoch[scan[s].root] # scan[s].epoch
  \/ rowner[scan[s].root] # scan[s].owner
  \/ ~RootAvailable(scan[s].root)

\* Authority of a call of incarnation i for session s.
Authorized(i, s) == sstate[s] # "absent" /\ Fenced(scan[s].owner, i)

Finish(s, status) == sstate' = [sstate EXCEPT ![s] = status]

rowsOtherThanSession == <<files, locs, lastScan, nodeRows, incarnationRows, rootRows,
                          registryVars, clock>>

\* An operator's cancellation.  A session whose fence fell becomes stale instead.
CancelScanSession(s) ==
  /\ Active(s)
  /\ Finish(s, IF FencedOff(s) \/ (sinc[s] # None /\ ~Fenced(scan[s].owner, sinc[s]))
               THEN "stale" ELSE "cancelled")
  /\ UNCHANGED <<scan, pump, sinc, rowsOtherThanSession>>
-----------------------------------------------------------------------------
\* The pump's calls.

MutWatermark(r) ==
  LET live == {k \in DOMAIN locs : locs[k].live /\ locs[k].root = r}
  IN IF live = {} THEN 0 ELSE Max(live)

Watermark(r) ==
  LET live == {k \in DOMAIN locs : locs[k].live /\ locs[k].root = r}
  IN IF live = {} THEN None ELSE Max(live)

\* A dispatched scan ticket makes the agent start the session.  A session that
\* another process has started is refused; sessions never resume.
StartScanSession(i, s) ==
  LET r == scan[s].root
  IN /\ sstate[s] = "requested"
     /\ Authorized(i, s)
     /\ IF FencedOff(s)
        THEN Finish(s, "stale") /\ UNCHANGED <<scan, pump, sinc>>
        ELSE /\ Finish(s, "running")
             /\ sinc' = [sinc EXCEPT ![s] = i]
             /\ scan' = [scan EXCEPT ![s].deadline = clock + IdleTimeout,
                                     ![s].watermark = Watermark(r),
                                     ![s].gone = Locators \ Present(r)]
             /\ pump' = [pump EXCEPT ![s].phase = "walking"]
     /\ UNCHANGED rowsOtherThanSession

\* Locators are the paths the walk considers: it passes over other extensions,
\* symlinks and what lies too deep.  It groups sidecars with their primaries.  It is not atomic: unseen are
\* files it passed while they were missing, failed those in directories it
\* could not read, which it counts and skips.
EnumerateRoot(s, unseen, failed) ==
  LET r     == scan[s].root
      found == Present(r) \ (unseen \cup failed)
  IN /\ pump[s].phase = "walking"
     /\ unseen \subseteq scan[s].gone \cap Present(r)
     /\ failed \subseteq Unreadable \cap Present(r)
     /\ pump' = [pump EXCEPT ![s].phase = "visiting",
                             ![s].todo = [p \in found \cap Primaries |->
                                            {x \in found \cap Sidecars : PrimaryOf[x] = p}]]
     /\ scan' = [scan EXCEPT ![s].skipped = failed]
     /\ UNCHANGED <<files, locs, lastScan, nodeVars, registryVars, clock>>

WithoutEvidence(p) == [loc |-> p, bytes |-> None, sidecars |-> <<>>]

MutContributions(view, p, side) ==
  {{}} \cup (IF \A x \in side \cup {p} : view[x] # None
            THEN {{[loc |-> p, bytes |-> view[p], sidecars |-> [x \in side |-> view[x]]]}}
            ELSE {})

\* What hashing and probing candidate p may come to: nothing for a file that
\* has vanished, existence alone after any other failure, or agreed evidence.
Contributions(view, p, side) ==
  IF view[p] = None THEN {{}}
  ELSE {{WithoutEvidence(p)}} \cup
       (IF \A x \in side : view[x] # None
        THEN {{[loc |-> p, bytes |-> view[p], sidecars |-> [x \in side |-> view[x]]]}}
        ELSE {})

\* The hashes of a file and of its sidecars and the probe are one look at it.
ProcessCandidate(s, p) ==
  /\ pump[s].phase = "visiting"
  /\ p \in DOMAIN pump[s].todo
  /\ \E o \in Contributions(Mounted(scan[s].root), p, pump[s].todo[p]) :
       pump' = [pump EXCEPT ![s].todo = Restrict(@, DOMAIN @ \ {p}),
                            ![s].seen = @ \cup o]
  /\ UNCHANGED <<files, locs, scan, lastScan, nodeVars, registryVars, clock>>

\* Observations not yet put in a batch; the batch whose answer is awaited.
Buffered(s) == pump[s].seen \ UNION Range(pump[s].sent)
Awaiting(s) == pump[s].next < Len(pump[s].sent)

\* A batch is cut from the buffer when the one before it has been answered.
FlushBatch(s) ==
  /\ pump[s].phase = "visiting"
  /\ ~Awaiting(s)
  /\ Buffered(s) # {}
  /\ pump' = [pump EXCEPT ![s].sent = Append(@, Buffered(s))]
  /\ UNCHANGED <<files, locs, scan, lastScan, nodeVars, registryVars, clock>>

Observed(s) == UNION Range(scan[s].batches)

MutAcceptsBatch(s, k) == Len(scan[s].batches) \in {k - 1, k}

AcceptsBatch(s, k) ==
  /\ Len(scan[s].batches) = k - 1
  /\ {o.loc : o \in Observed(s)} \cap {o.loc : o \in pump[s].sent[k]} = {}

\* Batch k arrives, for the first time or again.  One below the next sequence
\* is answered from the ledger; a new one is fenced and appended.
AcceptScanBatch(i, s, k) ==
  /\ k \in DOMAIN pump[s].sent
  /\ sstate[s] = "running"
  /\ Authorized(i, s) /\ sinc[s] = i
  /\ AcceptsBatch(s, k)
  /\ IF FencedOff(s)
     THEN Finish(s, "stale") /\ UNCHANGED scan
     ELSE /\ Cardinality(Observed(s)) + Cardinality(pump[s].sent[k]) <= MaxObservations
          /\ scan' = [scan EXCEPT ![s].batches = Append(@, pump[s].sent[k]),
                                  ![s].deadline = clock + IdleTimeout]
          /\ UNCHANGED sstate
  /\ UNCHANGED <<pump, sinc, rowsOtherThanSession>>

\* The answer to the awaited batch reaches the pump, or is found in the ledger
\* by the repeated call, whatever has become of the session.
BatchAnswered(s) ==
  /\ pump[s].phase = "visiting"
  /\ Awaiting(s)
  /\ Len(scan[s].batches) > pump[s].next
  /\ pump' = [pump EXCEPT ![s].next = @ + 1]
  /\ UNCHANGED <<files, locs, scan, lastScan, nodeVars, registryVars, clock>>

\* Rows publication adds: an address with no live row, for evidence alone.
Evidence(s) ==
  UNION {{<<o.loc, o.bytes>>} \cup {<<x, o.sidecars[x]>> : x \in DOMAIN o.sidecars} :
           o \in {q \in Observed(s) : q.bytes # None}}

Clashes(s) ==
  \E e \in Evidence(s) : \E k \in LiveAt(scan[s].root, e[1]) : locs[k].bytes # e[2]

NewRows(s) ==
  {[root |-> scan[s].root, loc |-> e[1], bytes |-> e[2], live |-> TRUE, by |-> None,
    lost |-> Mounted(scan[s].root)[e[1]] = None, moved |-> FALSE] :
     e \in {d \in Evidence(s) : LiveAt(scan[s].root, d[1]) = {}}}

MutCandidates(s) ==
  {k \in DOMAIN locs : /\ locs[k].live /\ locs[k].root = scan[s].root
                       /\ locs[k].loc \notin {o.loc : o \in Observed(s)}}

\* COMPLETION_CANDIDATES_SQL.
Candidates(s) ==
  {k \in DOMAIN locs : /\ locs[k].live /\ locs[k].root = scan[s].root
                       /\ scan[s].watermark # None /\ k <= scan[s].watermark
                       /\ locs[k].loc \notin {o.loc : o \in Observed(s)}}

\* Publication precedes retirement.  Changed bytes under a live address and a
\* candidate pinned by a commit refuse the call, and so does a watermark row
\* that has left the root; the session then stays as it is.
CompleteScanSession(i, s) ==
  LET r == scan[s].root
  IN /\ pump[s].phase = "visiting" /\ DOMAIN pump[s].todo = {}
     /\ Buffered(s) = {} /\ ~Awaiting(s)
     /\ sstate[s] = "running"
     /\ Authorized(i, s) /\ sinc[s] = i
     /\ IF FencedOff(s)
        THEN /\ Finish(s, "stale")
             /\ UNCHANGED <<locs, pump, lastScan>>
        ELSE /\ ~Clashes(s)
             /\ scan[s].watermark # None => locs[scan[s].watermark].root = r
             /\ Len(scan[s].batches) = Len(pump[s].sent)
             /\ Len(locs) + Cardinality(NewRows(s)) <= MaxLocations
             /\ locs' = [k \in DOMAIN locs |->
                           IF k \in Candidates(s)
                           THEN [locs[k] EXCEPT !.live = FALSE, !.by = s]
                           ELSE locs[k]] \o SetToSeq(NewRows(s))
             /\ Finish(s, "succeeded")
             /\ lastScan' = [lastScan EXCEPT ![r] = s]
             /\ pump' = [pump EXCEPT ![s].phase = "done"]
     /\ UNCHANGED <<files, scan, sinc, nodeRows, incarnationRows, rootRows, registryVars, clock>>

\* A worker error, a refused call, a timeout.
PumpFails(s) ==
  /\ pump[s].phase \in {"walking", "visiting"}
  /\ pump' = [pump EXCEPT ![s].phase = "failed"]
  /\ UNCHANGED <<files, locs, scan, lastScan, nodeVars, registryVars, clock>>

\* The best-effort report of the failure, which may be lost.
FailScanSession(i, s) ==
  /\ pump[s].phase = "failed"
  /\ sstate[s] = "running"
  /\ Authorized(i, s) /\ sinc[s] = i
  /\ Finish(s, IF FencedOff(s) THEN "stale" ELSE "failed")
  /\ UNCHANGED <<scan, pump, sinc, rowsOtherThanSession>>
-----------------------------------------------------------------------------
DiskNext ==
  \E r \in Roots, l \in Locators :
    \/ \E b \in Bytes \cup {None} : ChangeFile(r, l, b)
    \/ RecordLocation(r, l)
    \/ \E k \in DOMAIN locs : locs[k].root = r /\ PromoteLocation(k, l)

PumpNext ==
  \E s \in Sessions :
    \/ \E i \in Incarnations :
         \/ StartScanSession(i, s)
         \/ \E k \in DOMAIN pump[s].sent : AcceptScanBatch(i, s, k)
         \/ CompleteScanSession(i, s)
         \/ FailScanSession(i, s)
    \/ \E unseen \in SUBSET scan[s].gone, failed \in SUBSET Unreadable :
         EnumerateRoot(s, unseen, failed)
    \/ \E p \in Primaries : ProcessCandidate(s, p)
    \/ FlushBatch(s)
    \/ BatchAnswered(s)
    \/ PumpFails(s)

OperatorScanNext ==
  \E s \in Sessions :
    \/ \E r \in Roots : rstate[r] # "absent" /\ RequestScanSession(r, s)
    \/ CancelScanSession(s)

\* A step of the nodes may mount another file system at a root.
NodeStep ==
  /\ NodeNext
  /\ locs' = [k \in DOMAIN locs |->
                LET r == locs[k].root
                IN IF rident'[r] # rident[r] /\ locs[k].live
                      /\ files[r][rident'[r]][locs[k].loc] = None
                   THEN [locs[k] EXCEPT !.lost = TRUE] ELSE locs[k]]
  /\ UNCHANGED <<files, scan, pump, lastScan>>

ScanNext ==
  DiskNext \/ PumpNext \/ OperatorScanNext \/ RecoverExpiredScanSessions \/ NodeStep
allScanVars == <<scanVars, allNodeVars>>
ScanSpec == ScanInit /\ [][ScanNext]_allScanVars
-----------------------------------------------------------------------------
\* Properties.

\* Rows of the three kinds that completion can retire with their file in place:
\* sidecars, files below an unreadable directory, and promoted results.
Excused(s, k) ==
  \/ locs[k].loc \in Sidecars
  \/ locs[k].loc \in scan[s].skipped
  \/ locs[k].moved

\* A scan retires a row only for a file that was missing while the scan ran and
\* after the row was recorded: a row recorded in the meantime, a file that
\* could not be hashed, a lost batch or a failed pump never reads as absence.
RetiredWasMissing ==
  \A k \in DOMAIN locs :
    LET s == locs[k].by
    IN s # None /\ ~Excused(s, k) => locs[k].lost /\ locs[k].loc \in scan[s].gone

\* When nothing changed between start and completion the catalog is exact: a
\* primary has a live row afterwards exactly when its file is there, except
\* that a file without evidence gains no row.
QuietScanExact ==
  [][\A s \in Sessions :
       sstate[s] = "running" /\ sstate'[s] = "succeeded" /\ scan[s].quiet =>
         \A p \in Primaries \ scan[s].skipped :
           LET r == scan[s].root
           IN LiveAt(r, p)' # {} <=>
                /\ p \in Present(r)
                /\ LiveAt(r, p) # {} \/ WithoutEvidence(p) \notin Observed(s)
    ]_allScanVars

\* The ledger holds the pump's batches in order and without repetition however
\* often they were sent, and all of them once the session has succeeded.
LedgerExact ==
  \A s \in Sessions :
    /\ IsPrefix(scan[s].batches, pump[s].sent)
    /\ sstate[s] = "succeeded" =>
         Observed(s) = pump[s].seen /\ Cardinality({o.loc : o \in pump[s].seen}) =
                                       Cardinality(pump[s].seen)

\* A session scans the mount it was requested for: remounting the root, by a
\* new process of its owner, takes down what was requested before.
ScansWhatWasRequested ==
  \A s \in Sessions :
    sstate[s] = "running" /\ ~FencedOff(s) => rident[scan[s].root] = scan[s].mount

\* The root points at its latest successful session: sessions of one root never
\* overlap, so their ids are the order of their successes.
LastScanIsNewest ==
  \A r \in Roots :
    LET done == {s \in Sessions : sstate[s] = "succeeded" /\ scan[s].root = r}
    IN lastScan[r] = IF done = {} THEN None ELSE Max(done)

\* Completion reconciles absent locations (scan/sessions.rs): a sidecar that is
\* still there keeps its row.
SidecarsKeepTheirRow ==
  \A k \in DOMAIN locs : locs[k].by # None /\ locs[k].loc \in Sidecars => locs[k].lost

\* Every session reaches a terminal state once its callers have gone.
SessionsEnd == \A s \in Sessions : Active(s) ~> ~Active(s)

ScanRecovery ==
  /\ WF_allScanVars(RecoverExpiredScanSessions)
  /\ WF_allScanVars(NodeTick /\ UNCHANGED scanVars)
=============================================================================
