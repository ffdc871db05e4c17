----------------------------- MODULE ControlClock -----------------------------
(***************************************************************************)
(* The control plane's clock.  A use case reads it once; most read it      *)
(* before they wait for SQLite's write lock, so the instant a transaction  *)
(* works with may lie behind the instant it commits, and two transactions  *)
(* may commit in the other order of their readings.                        *)
(***************************************************************************)
EXTENDS Naturals

CONSTANTS
  None,       \* NULL: a column without a value
  Lag,        \* bound: how stale a use case's clock reading may be
  MaxClock    \* bound: the last instant of a run

ASSUME ClockAssumption == Lag \in Nat /\ MaxClock \in Nat

VARIABLE clock   \* real time

\* The instants a use case committing now may have read.
Readings == {n \in 0..clock : clock <= n + Lag}
=============================================================================
