----------------------------- MODULE TicketQueue ------------------------------
(***************************************************************************)
(* What durable execution promises the code that schedules and runs work:  *)
(* a queue of tickets, each claimed by at most one holder at a time, each  *)
(* claimed a bounded number of times under claims that are never reused,   *)
(* and each finished or abandoned for good.  Time, jobs, dependencies,     *)
(* workers and the reason a claim ended do not show.                       *)
(***************************************************************************)
EXTENDS Naturals

CONSTANTS
  Tickets,
  Claims,   \* identities of claims
  None      \* no holder

VARIABLES
  phase,    \* [Tickets -> Phase]
  holder,   \* [Tickets -> Claims \cup {None}]
  budget,   \* attempts left
  used      \* claims handed out so far

qvars == <<phase, holder, budget, used>>

Phase == {"new", "waiting", "open", "claimed", "done", "dead"}

QTypeOK ==
  /\ phase \in [Tickets -> Phase]
  /\ holder \in [Tickets -> Claims \cup {None}]
  /\ budget \in [Tickets -> Nat]
  /\ used \subseteq Claims

QInit ==
  /\ phase = [t \in Tickets |-> "new"]
  /\ holder = [t \in Tickets |-> None]
  /\ budget = [t \in Tickets |-> 0]
  /\ used = {}

Publish(t) ==
  /\ phase[t] = "new"
  /\ phase' = [phase EXCEPT ![t] = "waiting"]
  /\ budget'[t] \in Nat \ {0}
  /\ budget' = [budget EXCEPT ![t] = budget'[t]]
  /\ UNCHANGED <<holder, used>>

Unblock(t) ==
  /\ phase[t] = "waiting"
  /\ phase' = [phase EXCEPT ![t] = "open"]
  /\ UNCHANGED <<holder, budget, used>>

Claim(t, c) ==
  /\ phase[t] = "open"
  /\ c \notin used
  /\ phase' = [phase EXCEPT ![t] = "claimed"]
  /\ holder' = [holder EXCEPT ![t] = c]
  /\ budget' = [budget EXCEPT ![t] = @ - 1]
  /\ used' = used \cup {c}

\* An attempt is spent without a claim; the last one ends the ticket.
Waste(t) ==
  /\ phase[t] = "open"
  /\ phase' \in {phase, [phase EXCEPT ![t] = "dead"]}
  /\ budget' = [budget EXCEPT ![t] = @ - 1]
  /\ budget'[t] = 0 => phase'[t] = "dead"
  /\ UNCHANGED <<holder, used>>

\* The holder finishes the ticket, which may unblock waiting ones.
Finish(t, U) ==
  /\ phase[t] = "claimed"
  /\ \A u \in U : phase[u] = "waiting"
  /\ phase' = [x \in Tickets |-> IF x = t THEN "done" ELSE IF x \in U THEN "open" ELSE phase[x]]
  /\ holder' = [holder EXCEPT ![t] = None]
  /\ UNCHANGED <<budget, used>>

\* Claims end without a result: the tickets of B go back, those of D die.
Settle(B, D) ==
  /\ B \cup D # {}
  /\ B \cap D = {}
  /\ \A t \in B \cup D : phase[t] = "claimed"
  /\ \A t \in B : budget[t] > 0
  /\ phase' = [t \in Tickets |-> IF t \in B THEN "open" ELSE IF t \in D THEN "dead" ELSE phase[t]]
  /\ holder' = [t \in Tickets |-> IF t \in B \cup D THEN None ELSE holder[t]]
  /\ UNCHANGED <<budget, used>>

QNext ==
  \/ \E t \in Tickets :
       \/ Publish(t)
       \/ Unblock(t)
       \/ \E c \in Claims : Claim(t, c)
       \/ Waste(t)
       \/ \E U \in SUBSET Tickets : Finish(t, U)
  \/ \E B, D \in SUBSET Tickets : Settle(B, D)

QSpec == QInit /\ [][QNext]_qvars
=============================================================================
