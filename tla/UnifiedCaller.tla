----------------------------- MODULE UnifiedCaller -----------------------------
(***************************************************************************)
(* The Hub's one way to a model (bots/hub/lib/llm/unified-caller.ts,       *)
(* callWithFallback).  Identical requests share the promise of the first,  *)
(* which walks the fallback chain of its key: routes whose provider cools  *)
(* down are left out, an open circuit or a full provider is passed by, and *)
(* every route is asked through the provider's admission, of which         *)
(* ProviderAttempt is the model and only the answers are in this one, as   *)
(* CircuitBreaker is of the circuits.  Costs are checked and logged with   *)
(* BudgetGuardian.                                                         *)
(***************************************************************************)
EXTENDS BudgetGuardian, Integers, Sequences

CONSTANTS
  Requests,
  Keys,          \* what requests with the same in-flight key have in common
  Routes, Providers, Circuits,
  KeyOf, TeamOf, CostOf,
  ChainOf,       \* the routes selected for each key, in order
  ProviderOf, CircuitOf,
  RateLimited,   \* providers whose rate limit errors are recognised (groq)
  Routed,        \* requests of the HTTP routes; others come from jobs and inside the Hub
  NoRequest

ASSUME CallerAssumption ==
  /\ IsFiniteSet(Requests) /\ NoRequest \notin Requests
  /\ KeyOf \in [Requests -> Keys]
  /\ TeamOf \in [Requests -> Teams]
  /\ CostOf \in [Requests -> Nat]
  /\ ChainOf \in [Keys -> Seq(Routes) \ {<<>>}]
  /\ ProviderOf \in [Routes -> Providers]
  /\ CircuitOf \in [Routes -> Circuits]
  /\ RateLimited \subseteq Providers
  /\ Routed \subseteq Requests

VARIABLES
  inflight,   \* inFlightDedupe: the request whose promise each key has
  leader,     \* whose promise a request awaits, its own when it runs
  pc,
  todo,       \* positions of the plan still to be asked
  force,      \* _ignoreRateLimitCooldown: everything cools down, the last route is asked anyway
  result,     \* attempts: what became of each position
  late,       \* requests past their total deadline
  answer,
  cooling,    \* providers in their rate limit cooldown
  open,       \* circuits that refuse calls
  unlogged,   \* costs whose routing log row is being written
  owed,       \* history: routes not called yet that nothing has been in the way of since the request began
  failedAt    \* history: positions whose provider was called and failed, whatever was made of it

callerVars == <<inflight, leader, pc, todo, force, result, late, answer, cooling, open, unlogged, owed, failedAt>>
vars == <<callerVars, guardianVars>>
shared == <<inflight, leader>>
plan == <<todo, force, result, failedAt>>
world == <<cooling, open>>

Positions == UNION {DOMAIN ChainOf[k] : k \in Keys}
Chain(r) == DOMAIN ChainOf[KeyOf[r]]
Route(r, i) == ChainOf[KeyOf[r]][i]
Provider(r, i) == ProviderOf[Route(r, i)]
Circuit(r, i) == CircuitOf[Route(r, i)]
NoResults == [i \in Positions |-> "none"]

Init ==
  /\ GuardianInit
  /\ inflight = [k \in Keys |-> NoRequest]
  /\ leader = [r \in Requests |-> NoRequest]
  /\ pc = [r \in Requests |-> "new"]
  /\ todo = [r \in Requests |-> {}]
  /\ force = [r \in Requests |-> FALSE]
  /\ result = [r \in Requests |-> NoResults]
  /\ late = {}
  /\ answer = [r \in Requests |-> "none"]
  /\ cooling = {}
  /\ open = {}
  /\ unlogged = {}
  /\ owed = [r \in Requests |-> {}]
  /\ failedAt = [r \in Requests |-> {}]

Goto(r, l) == pc' = [pc EXCEPT ![r] = l]

\* Routes that nothing is in the way of now.
Available(r) == {i \in Chain(r) : Provider(r, i) \notin cooling /\ Circuit(r, i) \notin open}

-----------------------------------------------------------------------------
\* One promise per key (_runWithInflightDedupe).

\* The first request of a key runs;
Lead(r) ==
  /\ pc[r] = "new" /\ inflight[KeyOf[r]] = NoRequest
  /\ inflight' = [inflight EXCEPT ![KeyOf[r]] = r]
  /\ leader' = [leader EXCEPT ![r] = r]
  /\ Goto(r, "lookup")
  /\ owed' = [owed EXCEPT ![r] = Available(r)]
  /\ UNCHANGED <<plan, late, answer, world, unlogged, guardianVars>>

\* another one awaits its promise, whatever its own deadline,
Join(r) ==
  /\ pc[r] = "new" /\ inflight[KeyOf[r]] # NoRequest
  /\ leader' = [leader EXCEPT ![r] = inflight[KeyOf[r]]]
  /\ Goto(r, "joined")
  /\ UNCHANGED <<inflight, plan, late, answer, world, unlogged, owed, guardianVars>>

\* and gets its answer (its own log row has no cost).
Joined(r) ==
  /\ pc[r] = "joined" /\ pc[leader[r]] = "answered"
  /\ answer' = [answer EXCEPT ![r] = answer[leader[r]]]
  /\ Goto(r, "answered")
  /\ UNCHANGED <<shared, plan, late, world, unlogged, owed, guardianVars>>

\* The promise is settled, the entry removed and what the call had of its own is gone, in
\* one turn of the event loop; a route's handler then starts to write the log row.
Settle(r, a) ==
  /\ inflight' = [inflight EXCEPT ![KeyOf[r]] = NoRequest]
  /\ answer' = [answer EXCEPT ![r] = a]
  /\ Goto(r, "answered")
  /\ todo' = [todo EXCEPT ![r] = {}]
  /\ force' = [force EXCEPT ![r] = FALSE]
  /\ result' = [result EXCEPT ![r] = NoResults]
  /\ late' = late \ {r}
  /\ owed' = [owed EXCEPT ![r] = {}]
  /\ failedAt' = [failedAt EXCEPT ![r] = {}]
  /\ unlogged' = IF a = "ok" /\ r \in Routed THEN unlogged \cup {r} ELSE unlogged

-----------------------------------------------------------------------------
\* Before the chain (_callWithFallbackInternal).

\* An answer that is ready but for the usage record, which is awaited first.
Conclude(r, a) ==
  /\ answer' = [answer EXCEPT ![r] = a]
  /\ Goto(r, "recording")

\* A cache hit, or refused by token budget, selector, stop file or the guardian's limits.
Early(r) ==
  /\ pc[r] = "lookup"
  /\ Conclude(r, "early")
  /\ UNCHANGED <<shared, plan, late, world, unlogged, owed, guardianVars>>

\* What the cooldowns leave of the chain, or its last route by force (_rateLimitCooldownPlan).
Warm(r) == {i \in Chain(r) : Provider(r, i) \notin cooling}

\* The guardian lets the call pass and the chain is planned.
Prepare(r) ==
  /\ pc[r] = "lookup"
  /\ Allows(TeamOf[r], CostOf[r])
  /\ todo' = [todo EXCEPT ![r] = IF Warm(r) # {} THEN Warm(r) ELSE {Len(ChainOf[KeyOf[r]])}]
  /\ force' = [force EXCEPT ![r] = Warm(r) = {}]
  /\ Goto(r, "choose")
  /\ UNCHANGED <<shared, result, late, answer, world, unlogged, owed, failedAt, guardianVars>>

-----------------------------------------------------------------------------
\* The walk (_callWithSelectorChain, _callRoute).

\* The route whose turn it is.
Turn(r, i) == i \in todo[r] /\ \A j \in todo[r] : i <= j

\* Mutant of Attempt: a route that was skipped keeps its turn.
AttemptAgain(r, i, res) ==
  /\ result' = [result EXCEPT ![r][i] = res]
  /\ todo' = [todo EXCEPT ![r] = IF res \in {"stopped", "expired", "overrun"} THEN {}
                                 ELSE IF res = "skipped" THEN @ ELSE @ \ {i}]
  /\ Goto(r, "choose")

\* Attempt i ended so: "stopped" is any answer of the limiter but a full provider,
\* "expired" the total deadline before the provider was called, "overrun" while it was.
\* After these no further route is asked.
Last == {"stopped", "expired", "overrun"}
Attempt(r, i, res) ==
  /\ result' = [result EXCEPT ![r][i] = res]
  /\ todo' = [todo EXCEPT ![r] = IF res \in Last THEN {} ELSE @ \ {i}]
  /\ Goto(r, "choose")

\* capacityBlockedProviders.
Full(r) == {Provider(r, i) : i \in {j \in Chain(r) : result[r][j] = "full"}}

PassBy(r) ==
  /\ pc[r] = "choose"
  /\ \E i \in Chain(r) :
       /\ Turn(r, i) /\ Provider(r, i) \in Full(r)
       /\ todo' = [todo EXCEPT ![r] = @ \ {i}]
  /\ UNCHANGED <<shared, pc, force, result, late, answer, world, unlogged, owed, failedAt, guardianVars>>

\* A cooldown begun since the plan was made, an open circuit, or the total deadline.
Refused(r, i) == (~force[r] /\ Provider(r, i) \in cooling) \/ Circuit(r, i) \in open

Skip(r) ==
  /\ pc[r] = "choose"
  /\ \E i \in Chain(r) :
       /\ Turn(r, i) /\ Provider(r, i) \notin Full(r)
       /\ \/ Refused(r, i) /\ Attempt(r, i, "skipped")
          \/ ~Refused(r, i) /\ r \in late /\ Attempt(r, i, "expired")
  /\ UNCHANGED <<shared, force, late, answer, world, unlogged, owed, failedAt, guardianVars>>

\* Admission is asked for.
Ask(r) ==
  /\ pc[r] = "choose"
  /\ \E i \in Chain(r) : Turn(r, i) /\ Provider(r, i) \notin Full(r) /\ ~Refused(r, i)
  /\ r \notin late
  /\ Goto(r, "asking")
  /\ UNCHANGED <<shared, plan, late, answer, world, unlogged, owed, guardianVars>>

\* Admitted in time: the provider is called (whatever its cooldown and circuit by now).
Admitted(r) ==
  /\ pc[r] = "asking" /\ r \notin late
  /\ Goto(r, "calling")
  /\ owed' = [owed EXCEPT ![r] = {j \in @ : ~Turn(r, j)}]
  /\ UNCHANGED <<shared, plan, late, answer, world, unlogged, guardianVars>>

\* Not admitted: the provider's scope is full or the attempt's time is up, which leaves the
\* rest of the chain; anything else the limiter says, or the deadline, ends it.
NotAdmitted(r) ==
  /\ pc[r] = "asking"
  /\ \E i \in Chain(r), res \in {"full", "skipped", "stopped", "expired"} :
       /\ Turn(r, i)
       /\ (res = "expired") = (r \in late)
       /\ Attempt(r, i, res)
       /\ owed' = [owed EXCEPT ![r] = {j \in @ : Provider(r, j) # Provider(r, i)}]
  /\ UNCHANGED <<shared, force, late, answer, world, unlogged, failedAt, guardianVars>>

\* Providers and circuits that get in the way of calls.
Obstruct(c, o) ==
  /\ cooling' = c
  /\ open' = o
  /\ owed' = [r \in Requests |-> {i \in owed[r] : Provider(r, i) \notin c /\ Circuit(r, i) \notin o}]

\* The provider answers: the circuit is told, and that is the answer.
ProviderOk(r) ==
  /\ pc[r] = "calling" /\ r \notin late
  /\ \E i \in Chain(r) : Turn(r, i) /\ Obstruct(cooling, open \ {Circuit(r, i)})
  /\ Conclude(r, "ok")
  /\ UNCHANGED <<shared, plan, late, unlogged, guardianVars>>

Failed(r, i) == failedAt' = [failedAt EXCEPT ![r] = @ \cup {i}]

\* The circuit records a failure, which may open it.
Recording(r, i, opens) == Obstruct(cooling, IF opens THEN open \cup {Circuit(r, i)} ELSE open)

\* A recognised rate limit cools the provider down; past a deadline it is not looked at.
ProviderRateLimits(r) ==
  /\ pc[r] = "calling" /\ r \notin late
  /\ \E i \in Chain(r) :
       /\ Turn(r, i) /\ Provider(r, i) \in RateLimited
       /\ Attempt(r, i, "failed") /\ Failed(r, i)
       /\ Obstruct(cooling \cup {Provider(r, i)}, open)
  /\ UNCHANGED <<shared, force, late, answer, unlogged, guardianVars>>

\* Mutant of ProviderFails: any failure ends the chain.
ProviderFailsFinally(r) ==
  /\ pc[r] = "calling"
  /\ \E i \in Chain(r), opens \in BOOLEAN :
       /\ Turn(r, i)
       /\ result' = [result EXCEPT ![r][i] = "failed"]
       /\ todo' = [todo EXCEPT ![r] = {}]
       /\ Goto(r, "choose")
       /\ Failed(r, i) /\ Recording(r, i, opens)
  /\ UNCHANGED <<shared, force, late, answer, unlogged, guardianVars>>

\* Any other failure, or no answer in time, counts for the circuit.
ProviderFails(r) ==
  /\ pc[r] = "calling"
  /\ \E i \in Chain(r), opens \in BOOLEAN :
       /\ Turn(r, i)
       /\ Attempt(r, i, IF r \in late THEN "overrun" ELSE "failed") /\ Failed(r, i)
       /\ Recording(r, i, opens)
  /\ UNCHANGED <<shared, force, late, answer, unlogged, guardianVars>>

\* The work does not end when it is told to: an answer of the limiter, whose lease is kept,
\* but a failure for the circuit (provider_termination_unconfirmed).
WorkUnconfirmed(r) ==
  /\ pc[r] = "calling"
  /\ \E i \in Chain(r), opens \in BOOLEAN :
       /\ Turn(r, i)
       /\ Attempt(r, i, "stopped") /\ Failed(r, i)
       /\ Recording(r, i, opens)
  /\ UNCHANGED <<shared, force, late, answer, unlogged, guardianVars>>

\* The provider failed, by an error or a deadline, and its lease could not be released: the
\* limiter's answer takes the place of the provider's, and neither circuit nor cooldown hears.
FailureReplaced(r) ==
  /\ pc[r] = "calling"
  /\ \E i \in Chain(r) : Turn(r, i) /\ Attempt(r, i, "stopped") /\ Failed(r, i)
  /\ UNCHANGED <<shared, force, late, answer, world, unlogged, owed, guardianVars>>

\* The lease was lost while the provider worked, and it answered, well or badly.
LeaseLost(r) ==
  /\ pc[r] = "calling" /\ r \notin late
  /\ \E i \in Chain(r) :
       /\ Turn(r, i) /\ Attempt(r, i, "stopped")
       /\ Failed(r, i) \/ UNCHANGED failedAt
  /\ UNCHANGED <<shared, force, late, answer, world, unlogged, owed, guardianVars>>

\* Mutant of ProviderThrows: a rejected promise stays in the map.
ProviderThrowsKept(r) ==
  /\ pc[r] = "calling" /\ r \notin late
  /\ answer' = [answer EXCEPT ![r] = "error"]
  /\ Goto(r, "answered")
  /\ UNCHANGED <<shared, plan, late, world, unlogged, owed, guardianVars>>

\* The provider's adapter throws in time: no fallback, no record, the promise is rejected.
ProviderThrows(r) ==
  /\ pc[r] = "calling" /\ r \notin late
  /\ Settle(r, "error")
  /\ UNCHANGED <<leader, world, guardianVars>>

\* Mutant of Exhaustion: the last attempt alone decides.
ExhaustionByLast(r) ==
  LET tried == {i \in Chain(r) : result[r][i] # "none"} IN
  IF \E i \in tried : (\A j \in tried : j <= i) /\ result[r][i] \in {"full", "stopped"}
  THEN "backpressure" ELSE "exhausted"

\* The limiter's last word is the answer unless an attempt ended with a provider's failure
\* (_sharedAdmissionResponse); the safe fallback of one chat is one form of exhaustion.
Exhaustion(r) ==
  LET tried == {i \in Chain(r) : result[r][i] # "none"} IN
  IF /\ \E i \in tried : (\A j \in tried : j <= i) /\ result[r][i] \in {"full", "stopped"}
     /\ \A i \in tried : result[r][i] \notin {"failed", "overrun"}
  THEN "backpressure" ELSE "exhausted"

ChainEnds(r) ==
  /\ pc[r] = "choose" /\ todo[r] = {}
  /\ Conclude(r, Exhaustion(r))
  /\ UNCHANGED <<shared, plan, late, world, unlogged, owed, guardianVars>>

\* The usage record is written, or not: its errors are swallowed.
Recorded(r) ==
  /\ pc[r] = "recording"
  /\ Settle(r, answer[r])
  /\ UNCHANGED <<leader, world, guardianVars>>

-----------------------------------------------------------------------------
\* The routing log (logRouting, not awaited) and the clock.

LogWritten(r) ==
  /\ r \in unlogged
  /\ LogRow(TeamOf[r], CostOf[r])
  /\ unlogged' = unlogged \ {r}
  /\ UNCHANGED <<shared, pc, plan, late, answer, world, owed, used, globalUsed, reading>>

DeadlinePasses(r) ==
  /\ pc[r] \in {"choose", "asking", "calling"} /\ r \notin late
  /\ late' = late \cup {r}
  /\ UNCHANGED <<shared, pc, plan, answer, world, unlogged, owed, guardianVars>>

CooldownEnds(p) ==
  /\ p \in cooling
  /\ Obstruct(cooling \ {p}, open)
  /\ UNCHANGED <<shared, pc, plan, late, answer, unlogged, guardianVars>>

CircuitHalfOpens(c) ==
  /\ c \in open
  /\ Obstruct(cooling, open \ {c})
  /\ UNCHANGED <<shared, pc, plan, late, answer, unlogged, guardianVars>>

RefreshStep(q) == Refresh(q) /\ UNCHANGED callerVars
RefreshLands(q) == ApplyLog(q) /\ UNCHANGED callerVars

-----------------------------------------------------------------------------
Arrive(r) == Lead(r) \/ Join(r)
Begin(r) == Early(r) \/ Prepare(r)
Choose(r) == PassBy(r) \/ Skip(r) \/ Ask(r) \/ ChainEnds(r)
Admission(r) == Admitted(r) \/ NotAdmitted(r)
Outcome(r) ==
  \/ ProviderOk(r) \/ ProviderRateLimits(r) \/ ProviderFails(r)
  \/ FailureReplaced(r) \/ WorkUnconfirmed(r) \/ LeaseLost(r) \/ ProviderThrows(r)

Step(r) == Begin(r) \/ Choose(r) \/ Admission(r) \/ Outcome(r) \/ Recorded(r) \/ Joined(r)

Next ==
  \/ \E r \in Requests : Arrive(r) \/ Step(r) \/ LogWritten(r) \/ DeadlinePasses(r)
  \/ \E p \in Providers : CooldownEnds(p)
  \/ \E c \in Circuits : CircuitHalfOpens(c)
  \/ \E q \in Queries : RefreshStep(q)

Spec == Init /\ [][Next]_vars

\* Cache and store answer, the limiter and the provider answer within their deadlines
\* (ProviderAttempt!CallAnswered), the log's inserts come to an end, the guardian's timer
\* goes on.  Nothing is assumed of cooldowns and circuits, nor that requests come.
Fairness ==
  /\ \A r \in Requests : WF_vars(Step(r))
  /\ WF_vars(\E r \in Requests : LogWritten(r))
  /\ WF_vars(\E q \in Queries : RefreshStep(q))
  /\ SF_vars(\E q \in Queries : RefreshLands(q))
FairSpec == Spec /\ Fairness

-----------------------------------------------------------------------------
Results == {"none", "skipped", "full", "failed"} \cup Last
Answers == {"none", "early", "ok", "backpressure", "exhausted", "error"}
PCs == {"new", "joined", "lookup", "choose", "asking", "calling", "recording", "answered"}

\* Every variable has its type; a plan is of the request's own chain.
TypeOK ==
  /\ inflight \in [Keys -> Requests \cup {NoRequest}]
  /\ leader \in [Requests -> Requests \cup {NoRequest}]
  /\ pc \in [Requests -> PCs]
  /\ todo \in [Requests -> SUBSET Positions]
  /\ \A r \in Requests : todo[r] \subseteq Chain(r)
  /\ force \in [Requests -> BOOLEAN]
  /\ result \in [Requests -> [Positions -> Results]]
  /\ late \subseteq Requests
  /\ answer \in [Requests -> Answers]
  /\ cooling \subseteq Providers
  /\ open \subseteq Circuits
  /\ unlogged \subseteq Routed
  /\ owed \in [Requests -> SUBSET Positions]
  /\ failedAt \in [Requests -> SUBSET Positions]
  /\ used \in [Teams -> Nat]
  /\ globalUsed \in Nat
  /\ log \in [Teams -> Nat]
  /\ reading \in [Queries -> [known : BOOLEAN, sums : [Teams -> Nat]]]

Running == {"lookup", "choose", "asking", "calling", "recording"}

\* The map knows exactly who runs: identical prompts are never asked of a provider twice at
\* once, as far as their callers still wait for it (work that ignores its abort is not waited
\* for), and nobody is given the old answer of a call that has ended.
OneCallPerKey ==
  /\ \A r \in Requests : pc[r] \in Running <=> inflight[KeyOf[r]] = r
  /\ \A r \in Requests : pc[r] = "joined" =>
       /\ KeyOf[leader[r]] = KeyOf[r]
       /\ pc[leader[r]] \in Running \cup {"answered"}

\* A walk whose answer asks the client, and the job store, to try the same again hides the
\* failure of one provider at most: of the last one asked, if the limiter answered in its
\* place.  A failure the walk went on from always stands.
OnlyLastFailureHidden == \A r \in Requests :
  answer[r] = "backpressure" /\ leader[r] = r =>
    \A i \in failedAt[r] :
      /\ result[r][i] = "stopped"
      /\ \A j \in Chain(r) : j > i => result[r][j] = "none"

\* Nobody is passed over: a chain that ends for want of a provider, not of time or of the
\* Hub's own slots, has called every route that was free of cooldown, open circuit and full
\* slots from the request's beginning to its end, whatever happened to the others.
NobodyPassedOver == \A r \in Requests :
  answer[r] = "exhausted" /\ leader[r] = r /\ pc[r] = "recording"
    /\ (\A i \in Chain(r) : result[r][i] \notin Last)
  => owed[r] = {}

\* Every request that came is answered in the end, also those that wait for another one's
\* answer.
EveryoneAnswered == <>[](\A r \in Requests : pc[r] \in {"new", "answered"})

\* When calls cease the guardian's totals come to what the log says and stay there, however
\* slow queries overlap; teams that are not listed have no total of their own.
LoggedCostsCounted ==
  <>[](globalUsed = Total(log) /\ \A t \in Listed : used[t] = log[t])

=============================================================================
