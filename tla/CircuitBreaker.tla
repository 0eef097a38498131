---------------------------- MODULE CircuitBreaker ----------------------------
(***************************************************************************)
(* One circuit of packages/core/lib/local-circuit-breaker.ts as the Hub    *)
(* uses it through bots/hub/lib/llm/provider-registry.ts: _callRoute asks  *)
(* canCall, awaits the provider, then records the outcome.  The breaker is *)
(* synchronous; what interleaves are the calls in flight, whose outcomes   *)
(* may come back in any state of the circuit.                              *)
(*                                                                         *)
(* Time is abstracted to `elapsed`: more than openDurationMs has passed    *)
(* since lastOpenAt.  The failure counter is compared with the threshold   *)
(* only, so it saturates there.                                            *)
(***************************************************************************)
EXTENDS Integers, FiniteSets

CONSTANTS
  Callers,    \* callers of _callRoute, each with one call at a time
  Threshold   \* failureThreshold()

ASSUME BreakerAssumption == Threshold \in Nat \ {0} /\ IsFiniteSet(Callers)

VARIABLES
  state,      \* Circuit.state
  failures,   \* Circuit.failures, saturating at Threshold
  elapsed,    \* Date.now() - lastOpenAt > openDurationMs()
  flight,     \* callers past canCall whose outcome is not recorded yet
  doomed,     \* those of them whose call overlapped an outage of the provider
  healthy     \* the provider works

circuitVars == <<state, failures, elapsed, flight, doomed, healthy>>

CircuitInit ==
  /\ state = "CLOSED"
  /\ failures = 0
  /\ elapsed = FALSE
  /\ flight = {}
  /\ doomed = {}
  /\ healthy = TRUE

\* Mutant of IsOpen: an open circuit is not tested after its time.
IsOpenForGood == state = "OPEN"

\* The answer of isCircuitOpen, and the state it leaves: asking an open circuit
\* whose time has elapsed moves it to HALF_OPEN, whoever asks.
IsOpen == state = "OPEN" /\ ~elapsed

AskedState == IF state = "OPEN" /\ elapsed THEN "HALF_OPEN" ELSE state

\* A call leaves the flight.
Land(c) ==
  /\ flight' = flight \ {c}
  /\ doomed' = doomed \ {c}

-----------------------------------------------------------------------------
\* canCall answers TRUE and the provider is called.
Admit(c) ==
  /\ c \notin flight
  /\ ~IsOpen
  /\ state' = AskedState
  /\ flight' = flight \cup {c}
  /\ doomed' = IF healthy THEN doomed ELSE doomed \cup {c}
  /\ UNCHANGED <<failures, elapsed, healthy>>

\* The call ends without a verdict: provider not attempted, limiter or rate limit error.
Unrecorded(c) ==
  /\ c \in flight
  /\ Land(c)
  /\ UNCHANGED <<state, failures, elapsed, healthy>>

\* Mutant of Success: the failures of before the success still count.
SuccessKeepsCount(c) ==
  /\ c \in flight
  /\ Land(c)
  /\ state' = "CLOSED"
  /\ UNCHANGED <<failures, elapsed, healthy>>

\* recordSuccess: whatever the state, closed and zero.
Success(c) ==
  /\ c \in flight
  /\ Land(c)
  /\ state' = "CLOSED"
  /\ failures' = 0
  /\ UNCHANGED <<elapsed, healthy>>

\* recordFailure: it asks isCircuitOpen first, which may itself half-open.
Failure(c) ==
  LET count == IF failures < Threshold THEN failures + 1 ELSE failures
      opens == \/ AskedState = "HALF_OPEN"
               \/ AskedState = "CLOSED" /\ count >= Threshold
      next  == IF opens THEN "OPEN" ELSE AskedState
  IN  /\ c \in doomed
      /\ Land(c)
      /\ failures' = count
      /\ state' = next
      /\ elapsed' = IF opens THEN FALSE ELSE elapsed
      /\ UNCHANGED healthy

\* getProviderStats asks isCircuitOpen of every provider (metrics, /hub/llm/circuit).
StatusRead ==
  /\ state = "OPEN"
  /\ state' = AskedState
  /\ UNCHANGED <<failures, elapsed, flight, doomed, healthy>>

\* resetProviderCircuit, resetCircuit: the entry is deleted, i.e. closed and zero.
Reset ==
  /\ state' = "CLOSED"
  /\ failures' = 0
  /\ UNCHANGED <<elapsed, flight, doomed, healthy>>

\* openDurationMs passes.
Elapse ==
  /\ state = "OPEN"
  /\ ~elapsed
  /\ elapsed' = TRUE
  /\ UNCHANGED <<state, failures, flight, doomed, healthy>>

\* The provider breaks, under the calls in flight too.  A single failing call is an
\* outage that ends at once, so Failure needs no other cause.
Break ==
  /\ healthy
  /\ healthy' = FALSE
  /\ doomed' = flight
  /\ UNCHANGED <<state, failures, elapsed, flight>>

Heal ==
  /\ ~healthy
  /\ healthy' = TRUE
  /\ UNCHANGED <<state, failures, elapsed, flight, doomed>>

CircuitNext ==
  \/ \E c \in Callers : Admit(c) \/ Unrecorded(c) \/ Success(c) \/ Failure(c)
  \/ StatusRead
  \/ Reset
  \/ Elapse
  \/ Break
  \/ Heal

\* The clock runs, callers keep calling, every call in flight lands, and not all
\* of them land without a verdict.
CircuitFairness ==
  /\ WF_circuitVars(Elapse)
  /\ \A c \in Callers : /\ WF_circuitVars(Admit(c))
                        /\ WF_circuitVars(Success(c) \/ Failure(c) \/ Unrecorded(c))
                        /\ SF_circuitVars(Success(c))

CircuitSpec == CircuitInit /\ [][CircuitNext]_circuitVars
CircuitFairSpec == CircuitSpec /\ CircuitFairness

-----------------------------------------------------------------------------
\* Every variable has its type.
CircuitTypes ==
  /\ state \in {"CLOSED", "OPEN", "HALF_OPEN"}
  /\ failures \in 0..Threshold
  /\ elapsed \in BOOLEAN
  /\ flight \subseteq Callers
  /\ doomed \subseteq flight
  /\ healthy \in BOOLEAN

\* The counter and the state agree however late outcomes arrive: the circuit is
\* closed exactly while fewer than Threshold failures have followed the last
\* success, so neither a probe's failure nor a stale outcome leaves it closed
\* with a full counter (it would reopen at the first failure) or open with less.
CountMatchesState == (state = "CLOSED") <=> (failures < Threshold)

\* No outage is held against a provider for ever: once it stays healthy, stale
\* failures of calls begun before run out and the circuit closes for good.
Recovers == <>[]healthy => <>[](state = "CLOSED")

=============================================================================
