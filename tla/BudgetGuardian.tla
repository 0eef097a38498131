---------------------------- MODULE BudgetGuardian ----------------------------
(***************************************************************************)
(* The Hub's budget guardian (bots/hub/lib/budget-guardian.ts): totals in  *)
(* memory that every call is checked against, replaced every minute by     *)
(* what the routing log sums up to.  Nothing is reserved, and trackCost,   *)
(* which would add a call's cost at once, is called from nowhere.  Refresh *)
(* queries may overlap: a slow one is not waited for by the next.          *)
(***************************************************************************)
EXTENDS Integers, FiniteSets, FiniteSetsExt

CONSTANTS
  Teams,
  Listed,        \* teams of DEFAULT_TEAM_QUOTAS
  Quota,         \* daily limit of each team, 5 dollars if not listed
  GlobalLimit,
  Emergency,     \* EMERGENCY_CUTOFF_USD
  Queries        \* refresh queries that may be under way at once (bound)

ASSUME GuardianAssumption ==
  /\ IsFiniteSet(Teams)
  /\ Listed \subseteq Teams
  /\ Quota \in [Teams -> Nat]
  /\ GlobalLimit \in Nat
  /\ Emergency \in Nat

VARIABLES
  used,        \* teamUsed; a team that is not listed has no entry, read as 0
  globalUsed,
  log,         \* the day's cost_usd of each team in the routing log
  reading      \* result of each refresh query under way

guardianVars == <<used, globalUsed, log, reading>>

NoQuery == [known |-> FALSE, sums |-> [t \in Teams |-> 0]]
Total(costs) == MapThenSumSet(LAMBDA t : costs[t], Teams)

GuardianInit ==
  /\ used = [t \in Teams |-> 0]
  /\ globalUsed = 0
  /\ log = [t \in Teams |-> 0]
  /\ reading = [q \in Queries |-> NoQuery]

\* checkAndReserve, in the order of its tests.
Allows(t, cost) ==
  /\ globalUsed < Emergency
  /\ globalUsed + cost <= GlobalLimit
  /\ used[t] + cost <= Quota[t]

\* A row of the routing log.
LogRow(t, cost) == log' = [log EXCEPT ![t] = @ + cost]

\* refreshFromDb: the query sums up the log ...
ReadLog(q) ==
  /\ ~reading[q].known
  /\ reading' = [reading EXCEPT ![q] = [known |-> TRUE, sums |-> log]]
  /\ UNCHANGED <<used, globalUsed, log>>

\* Mutant of ApplyLog: the global total is not replaced.
ApplyLogTeamsOnly(q) ==
  /\ reading[q].known
  /\ used' = [t \in Teams |-> IF t \in Listed THEN reading[q].sums[t] ELSE used[t]]
  /\ reading' = [reading EXCEPT ![q] = NoQuery]
  /\ UNCHANGED <<globalUsed, log>>

\* ... and its answer replaces the totals, also if a later query was faster.
ApplyLog(q) ==
  /\ reading[q].known
  /\ globalUsed' = Total(reading[q].sums)
  /\ used' = [t \in Teams |-> IF t \in Listed THEN reading[q].sums[t] ELSE used[t]]
  /\ reading' = [reading EXCEPT ![q] = NoQuery]
  /\ UNCHANGED log

\* The query fails: the totals stay.
ReadFails(q) ==
  /\ reading[q].known
  /\ reading' = [reading EXCEPT ![q] = NoQuery]
  /\ UNCHANGED <<used, globalUsed, log>>

Refresh(q) == ReadLog(q) \/ ApplyLog(q) \/ ReadFails(q)

-----------------------------------------------------------------------------
\* The guardian errs on one side only: no total it checks calls against is more than the
\* routing log's own, however refresh queries overlap, fail and come late, so no call is
\* refused for costs that nobody logged.
NeverOverstated ==
  /\ \A t \in Teams : used[t] <= log[t]
  /\ globalUsed <= Total(log)
=============================================================================
