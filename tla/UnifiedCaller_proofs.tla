-------------------------- MODULE UnifiedCaller_proofs --------------------------
(***************************************************************************)
(* The unified caller, the guardian it asks and the circuits in its way,   *)
(* for every number of requests, keys, routes, providers and teams: types, *)
(* one promise per key, which failures backpressure can hide, routes   *)
(* nobody passed over, totals that never run ahead of the log, and         *)
(* circuits that open on failures only.                                    *)
(***************************************************************************)
EXTENDS UnifiedCaller, CircuitBreaker, FiniteSetTheorems, WellFoundedInduction, TLAPS

-----------------------------------------------------------------------------
\* The sum over the teams, which the guardian's global total is.  A set of numbers has
\* a least one, and so what holds of the empty set, and of a set whenever it holds
\* without the element that the fold takes first, holds of every set of teams.
LEMMA LeastNat ==
  ASSUME NEW S \in SUBSET Nat, S # {}
  PROVE  \E n \in S : \A m \in S : n <= m
  <1>1. \E n \in S : \A m \in S : <<m, n>> \notin OpToRel(<, Nat)
    BY WFMin, NatLessThanWellFounded
  <1>2. \A m, n \in S : <<m, n>> \notin OpToRel(<, Nat) => n <= m
    BY DEF OpToRel
  <1> QED
    BY <1>1, <1>2

First(s) == CHOOSE t \in s : TRUE

LEMMA FirstSmaller ==
  ASSUME NEW s \in SUBSET Teams, s # {}
  PROVE  /\ First(s) \in s
         /\ s \ {First(s)} \in SUBSET Teams
         /\ Cardinality(s) \in Nat
         /\ Cardinality(s \ {First(s)}) = Cardinality(s) - 1
         /\ Cardinality(s \ {First(s)}) \in Nat
  <1>1. First(s) \in s
    BY DEF First
  <1>2. IsFiniteSet(s)
    BY FS_Subset, GuardianAssumption
  <1> QED
    BY <1>1, <1>2, FS_RemoveElement, FS_CardinalityType, FS_Subset

LEMMA TeamInduction ==
  ASSUME NEW Q \in SUBSET (SUBSET Teams), {} \in Q,
         \A s \in SUBSET Teams : s # {} /\ s \ {First(s)} \in Q => s \in Q
  PROVE  Q = SUBSET Teams
  <1> DEFINE Bad == {Cardinality(s) : s \in (SUBSET Teams) \ Q}
  <1>1. SUFFICES ASSUME Bad # {} PROVE FALSE
    OBVIOUS
  <1>2. Bad \in SUBSET Nat
    BY FS_Subset, FS_CardinalityType, GuardianAssumption
  <1> HIDE DEF Bad
  <1>a. PICK n \in Bad : \A m \in Bad : n <= m
    BY <1>1, <1>2, LeastNat
  <1> USE DEF Bad
  <1>3. PICK s \in (SUBSET Teams) \ Q : \A m \in Bad : Cardinality(s) <= m
    BY <1>a
  <1>4. s # {} /\ s \ {First(s)} \notin Q
    BY <1>3
  <1>5. Cardinality(s \ {First(s)}) \in Bad
    BY <1>3, <1>4, FirstSmaller
  <1>6. Cardinality(s) <= Cardinality(s \ {First(s)})
    BY <1>3, <1>5
  <1> QED
    BY <1>3, <1>4, <1>6, FirstSmaller

\* The recursion behind Total.
Fold(costs, f, s) == IF s = {} THEN 0 ELSE costs[First(s)] + f[s \ {First(s)}]
Sums(costs) == CHOOSE f : f = [s \in SUBSET Teams |-> Fold(costs, f, s)]

LEMMA TotalIsSum == ASSUME NEW costs PROVE Total(costs) = Sums(costs)[Teams]
  BY DEF Total, MapThenSumSet, MapThenFoldSet, Sums, Fold, First

\* There is a function that satisfies it up to every size of sets,
Upto(costs, f, n) ==
  /\ f = [s \in SUBSET Teams |-> f[s]]
  /\ \A s \in SUBSET Teams : Cardinality(s) <= n => f[s] = Fold(costs, f, s)

LEMMA SumsUpto == ASSUME NEW costs PROVE \A n \in Nat : \E f : Upto(costs, f, n)
  <1> DEFINE Bad == {n \in Nat : ~\E f : Upto(costs, f, n)}
  <1>1. SUFFICES ASSUME Bad # {} PROVE FALSE
    OBVIOUS
  <1>2. PICK n \in Bad : \A m \in Bad : n <= m
    BY <1>1, LeastNat
  <1>3. Upto(costs, [s \in SUBSET Teams |-> 0], 0)
    <2> DEFINE z == [s \in SUBSET Teams |-> 0]
    <2>1. ASSUME NEW s \in SUBSET Teams, Cardinality(s) <= 0 PROVE s = {}
      <3> SUFFICES ASSUME s # {} PROVE FALSE
        OBVIOUS
      <3>1. Cardinality(s) \in Nat /\ Cardinality(s) - 1 \in Nat
        BY FirstSmaller
      <3> QED
        BY <2>1, <3>1
    <2>2. z = [s \in SUBSET Teams |-> z[s]] /\ \A s \in SUBSET Teams : z[s] = 0
      OBVIOUS
    <2> HIDE DEF z
    <2> QED
      BY <2>1, <2>2 DEF Upto, Fold
  <1>4. n # 0 /\ n \in Nat /\ n - 1 \in Nat /\ n - 1 \notin Bad
    BY <1>2, <1>3
  <1>5. PICK f : Upto(costs, f, n - 1)
    BY <1>4
  <1> DEFINE g == [s \in SUBSET Teams |-> IF Cardinality(s) <= n - 1 THEN f[s] ELSE Fold(costs, f, s)]
  <1>6. ASSUME NEW s \in SUBSET Teams, Cardinality(s) <= n
        PROVE  g[s] = Fold(costs, g, s)
    <2>1. g[s] = Fold(costs, f, s)
      BY <1>5 DEF Upto
    <2>2. CASE s = {}
      BY <2>1, <2>2 DEF Fold
    <2>3. CASE s # {}
      <3>1. /\ s \ {First(s)} \in SUBSET Teams
            /\ Cardinality(s \ {First(s)}) <= n - 1
        BY <1>4, <1>6, <2>3, FirstSmaller
      <3>2. g[s \ {First(s)}] = f[s \ {First(s)}]
        BY <3>1
      <3> HIDE DEF g
      <3> QED
        BY <2>1, <2>3, <3>2 DEF Fold
    <2> QED
      BY <2>2, <2>3
  <1>7. Upto(costs, g, n)
    <2>1. g = [s \in SUBSET Teams |-> g[s]]
      OBVIOUS
    <2> HIDE DEF g
    <2> QED
      BY <1>6, <2>1 DEF Upto
  <1> QED
    BY <1>2, <1>7

\* hence one that satisfies it.
LEMMA SumsEquation ==
  ASSUME NEW costs
  PROVE  \A s \in SUBSET Teams : Sums(costs)[s] = Fold(costs, Sums(costs), s)
  <1>1. Cardinality(Teams) \in Nat
    BY FS_CardinalityType, GuardianAssumption
  <1>2. PICK f : Upto(costs, f, Cardinality(Teams))
    BY <1>1, SumsUpto
  <1>3. \A s \in SUBSET Teams : f[s] = Fold(costs, f, s)
    BY <1>2, FS_Subset, GuardianAssumption DEF Upto
  <1>4. f = [s \in SUBSET Teams |-> Fold(costs, f, s)]
    BY <1>2, <1>3 DEF Upto
  <1>5. Sums(costs) = [s \in SUBSET Teams |-> Fold(costs, Sums(costs), s)]
    BY <1>4 DEF Sums
  <1> QED
    BY <1>5

LEMMA TotalNat == ASSUME NEW costs \in [Teams -> Nat] PROVE Total(costs) \in Nat
  <1> DEFINE Q == {s \in SUBSET Teams : Sums(costs)[s] \in Nat}
  <1>1. Q = SUBSET Teams
    <2>1. {} \in Q
      BY SumsEquation DEF Fold
    <2>2. ASSUME NEW s \in SUBSET Teams, s # {}, s \ {First(s)} \in Q PROVE s \in Q
      <3>1. First(s) \in Teams /\ Sums(costs)[s] = costs[First(s)] + Sums(costs)[s \ {First(s)}]
        BY <2>2, SumsEquation, FirstSmaller DEF Fold
      <3> QED
        BY <2>2, <3>1
    <2>3. Q \in SUBSET (SUBSET Teams)
      OBVIOUS
    <2> HIDE DEF Q
    <2> QED
      BY <2>1, <2>2, <2>3, TeamInduction
  <1> QED
    BY <1>1, TotalIsSum

\* A total does not fall when no team's costs do.
LEMMA TotalMonotone ==
  ASSUME NEW a \in [Teams -> Nat], NEW b \in [Teams -> Nat], \A t \in Teams : a[t] <= b[t]
  PROVE  Total(a) <= Total(b)
  <1> DEFINE Q == {s \in SUBSET Teams :
                     /\ Sums(a)[s] \in Nat /\ Sums(b)[s] \in Nat
                     /\ Sums(a)[s] <= Sums(b)[s]}
  <1>1. Q = SUBSET Teams
    <2>1. {} \in Q
      BY SumsEquation DEF Fold
    <2>2. ASSUME NEW s \in SUBSET Teams, s # {}, s \ {First(s)} \in Q PROVE s \in Q
      <3> DEFINE t == First(s)
                 rest == s \ {First(s)}
      <3>1. /\ t \in Teams
            /\ Sums(a)[s] = a[t] + Sums(a)[rest]
            /\ Sums(b)[s] = b[t] + Sums(b)[rest]
        BY <2>2, SumsEquation, FirstSmaller DEF Fold
      <3>2. /\ Sums(a)[rest] \in Nat /\ Sums(b)[rest] \in Nat
            /\ Sums(a)[rest] <= Sums(b)[rest]
        BY <2>2
      <3>3. a[t] \in Nat /\ b[t] \in Nat /\ a[t] <= b[t]
        BY <3>1
      <3> HIDE DEF t, rest
      <3> QED
        BY <3>1, <3>2, <3>3
    <2>3. Q \in SUBSET (SUBSET Teams)
      OBVIOUS
    <2> HIDE DEF Q
    <2> QED
      BY <2>1, <2>2, <2>3, TeamInduction
  <1> QED
    BY <1>1, TotalIsSum

-----------------------------------------------------------------------------
\* The guardian's types, and what it knows: neither a total nor the answer of a query
\* under way is more than the log has by now.
GuardianTypes ==
  /\ used \in [Teams -> Nat]
  /\ globalUsed \in Nat
  /\ log \in [Teams -> Nat]
  /\ reading \in [Queries -> [known : BOOLEAN, sums : [Teams -> Nat]]]

Behind ==
  /\ NeverOverstated
  /\ \A q \in Queries : \A t \in Teams : reading[q].sums[t] <= log[t]

LEMMA GuardianInitOK == GuardianInit => GuardianTypes /\ Behind
  <1> SUFFICES ASSUME GuardianInit PROVE GuardianTypes /\ Behind
    OBVIOUS
  <1>1. GuardianTypes
    BY DEF GuardianInit, GuardianTypes, NoQuery
  <1>2. Total(log) \in Nat
    BY <1>1, TotalNat DEF GuardianTypes
  <1> QED
    BY <1>1, <1>2 DEF GuardianInit, Behind, NeverOverstated, NoQuery

LEMMA LogRowOK ==
  ASSUME GuardianTypes, Behind, NEW t \in Teams, NEW cost \in Nat, LogRow(t, cost),
         UNCHANGED <<used, globalUsed, reading>>
  PROVE  GuardianTypes' /\ Behind'
  <1>1. /\ log' \in [Teams -> Nat] /\ log \in [Teams -> Nat]
        /\ \A u \in Teams : log[u] <= log'[u]
    BY DEF GuardianTypes, LogRow
  <1>2. GuardianTypes'
    BY <1>1 DEF GuardianTypes
  <1>3. Total(log) <= Total(log') /\ Total(log) \in Nat /\ Total(log') \in Nat
    BY <1>1, TotalMonotone, TotalNat
  <1>4. NeverOverstated'
    BY <1>1, <1>3 DEF GuardianTypes, Behind, NeverOverstated
  <1>5. \A q \in Queries : \A u \in Teams : reading'[q].sums[u] <= log'[u]
    BY <1>1 DEF GuardianTypes, Behind
  <1> QED
    BY <1>2, <1>4, <1>5 DEF Behind

LEMMA RefreshOK ==
  ASSUME GuardianTypes, Behind, NEW q \in Queries, Refresh(q)
  PROVE  GuardianTypes' /\ Behind'
  <1>1. /\ log \in [Teams -> Nat] /\ log' = log
        /\ reading[q].sums \in [Teams -> Nat]
        /\ NoQuery \in [known : BOOLEAN, sums : [Teams -> Nat]]
        /\ \A t \in Teams : NoQuery.sums[t] = 0
    BY DEF GuardianTypes, Refresh, ReadLog, ApplyLog, ReadFails, NoQuery
  <1>2. CASE ReadLog(q)
    BY <1>1, <1>2 DEF ReadLog, GuardianTypes, Behind, NeverOverstated
  <1>3. CASE ReadFails(q)
    BY <1>1, <1>3 DEF ReadFails, GuardianTypes, Behind, NeverOverstated
  <1>4. CASE ApplyLog(q)
    <2>1. /\ globalUsed' = Total(reading[q].sums)
          /\ used' = [t \in Teams |-> IF t \in Listed THEN reading[q].sums[t] ELSE used[t]]
          /\ reading' = [reading EXCEPT ![q] = NoQuery]
      BY <1>4 DEF ApplyLog
    <2>2. globalUsed' \in Nat /\ globalUsed' <= Total(log)
      BY <1>1, <2>1, TotalNat, TotalMonotone DEF Behind
    <2>3. GuardianTypes'
      BY <1>1, <2>1, <2>2 DEF GuardianTypes
    <2>4. \A t \in Teams : used'[t] <= log[t]
      BY <2>1 DEF Behind, NeverOverstated
    <2>5. \A p \in Queries : \A t \in Teams : reading'[p].sums[t] <= log[t]
      BY <1>1, <2>1 DEF Behind, GuardianTypes
    <2> QED
      BY <1>1, <2>2, <2>3, <2>4, <2>5 DEF Behind, NeverOverstated
  <1> QED
    BY <1>2, <1>3, <1>4 DEF Refresh

-----------------------------------------------------------------------------
\* Who runs and who waits for whom.
Shared ==
  /\ \A k \in Keys : inflight[k] # NoRequest => KeyOf[inflight[k]] = k
  /\ \A r \in Requests : pc[r] = "joined" => leader[r] \in Requests

Walking == {"choose", "asking", "calling"}

\* A walk's results and its answer are there from its plan to its settlement only.
Kept(r) ==
  /\ pc[r] \notin Walking \cup {"recording"} => result[r] = NoResults /\ failedAt[r] = {}
  /\ pc[r] \notin {"recording", "answered"} => answer[r] = "none"

Cut(r) == \E i \in Chain(r) : result[r][i] \in Last

\* What is owed is free and still to come.
Owed(r) ==
  /\ owed[r] \subseteq Available(r)
  /\ pc[r] \in Walking =>
       /\ \A i \in owed[r] : Provider(r, i) \notin Full(r)
       /\ Cut(r) => todo[r] = {}
       /\ ~Cut(r) => owed[r] \subseteq todo[r]
  /\ pc[r] = "calling" => \A i \in owed[r] : ~Turn(r, i)

\* A walk leaves its trail in order: what has failed is among its results, what is still to
\* come lies behind them, and after a last word there are none.
Trail(r) == pc[r] \in Walking =>
  /\ \A i \in failedAt[r] : i \in Chain(r) /\ result[r][i] \in {"failed", "overrun", "stopped"}
  /\ \A i \in Chain(r), j \in todo[r] : result[r][i] # "none" => i < j
  /\ \A i, j \in Chain(r) : result[r][i] \in Last /\ i < j => result[r][j] = "none"

\* The two properties of a request's answer, one request at a time.
LastHidden(r) ==
  answer[r] = "backpressure" /\ leader[r] = r =>
    \A i \in failedAt[r] :
      /\ result[r][i] = "stopped"
      /\ \A j \in Chain(r) : j > i => result[r][j] = "none"

NotPassedOver(r) ==
  answer[r] = "exhausted" /\ leader[r] = r /\ pc[r] = "recording" /\ ~Cut(r) => owed[r] = {}

Good(r) == Kept(r) /\ Owed(r) /\ Trail(r) /\ LastHidden(r) /\ NotPassedOver(r)

CallerTypes ==
  /\ inflight \in [Keys -> Requests \cup {NoRequest}]
  /\ leader \in [Requests -> Requests \cup {NoRequest}]
  /\ pc \in [Requests -> PCs]
  /\ todo \in [Requests -> SUBSET Positions]
  /\ \A r \in Requests : todo[r] \subseteq Chain(r)
  /\ force \in [Requests -> BOOLEAN]
  /\ result \in [Requests -> [Positions -> Results]]
  /\ late \subseteq Requests
  /\ answer \in [Requests -> Answers]
  /\ cooling \subseteq Providers
  /\ open \subseteq Circuits
  /\ unlogged \subseteq Routed
  /\ owed \in [Requests -> SUBSET Positions]
  /\ failedAt \in [Requests -> SUBSET Positions]

LEMMA TypesApart == TypeOK <=> CallerTypes /\ GuardianTypes
  BY DEF TypeOK, CallerTypes, GuardianTypes

\* The inductive invariant.
IInv ==
  /\ CallerTypes
  /\ GuardianTypes
  /\ Behind
  /\ OneCallPerKey
  /\ Shared
  /\ \A r \in Requests : Good(r)

-----------------------------------------------------------------------------
LEMMA ChainFacts ==
  ASSUME NEW r \in Requests
  PROVE  /\ KeyOf[r] \in Keys
         /\ Chain(r) \subseteq Positions
         /\ Chain(r) \subseteq Nat
         /\ Len(ChainOf[KeyOf[r]]) \in Chain(r)
         /\ \A i \in Chain(r) : Provider(r, i) \in Providers /\ Circuit(r, i) \in Circuits
         /\ TeamOf[r] \in Teams /\ CostOf[r] \in Nat
  <1> DEFINE c == ChainOf[KeyOf[r]]
  <1>1. KeyOf[r] \in Keys /\ TeamOf[r] \in Teams /\ CostOf[r] \in Nat
    BY CallerAssumption
  <1>2. c \in Seq(Routes) /\ c # <<>>
    BY <1>1, CallerAssumption
  <1>3. DOMAIN c = 1..Len(c) /\ Len(c) \in Nat /\ Len(c) # 0
    BY <1>2
  <1>4. \A i \in DOMAIN c : c[i] \in Routes
    BY <1>2
  <1>5. \A i \in Chain(r) : Route(r, i) \in Routes
    BY <1>4 DEF Chain, Route
  <1>6. \A i \in Chain(r) : Provider(r, i) \in Providers /\ Circuit(r, i) \in Circuits
    BY <1>5, CallerAssumption DEF Provider, Circuit
  <1>7. Chain(r) \subseteq Nat /\ Len(c) \in Chain(r)
    BY <1>3 DEF Chain
  <1>8. Chain(r) \subseteq Positions
    BY <1>1 DEF Chain, Positions
  <1> QED
    BY <1>1, <1>6, <1>7, <1>8

LEMMA ResultFacts == /\ NoResults \in [Positions -> Results]
                     /\ \A i \in Positions : NoResults[i] = "none"
  BY DEF NoResults, Results

-----------------------------------------------------------------------------
\* Types, one group of steps at a time.

\* A route is done with, one way or another.
LEMMA AttemptTypes ==
  ASSUME CallerTypes, NEW r \in Requests, NEW i \in Chain(r), NEW res \in Results,
         Attempt(r, i, res)
  PROVE  /\ pc' \in [Requests -> PCs]
         /\ result' \in [Requests -> [Positions -> Results]]
         /\ todo' \in [Requests -> SUBSET Positions]
         /\ \A q \in Requests : todo'[q] \subseteq Chain(q)
  <1>1. i \in Positions
    BY ChainFacts
  <1>2. /\ pc' = [pc EXCEPT ![r] = "choose"]
        /\ result' = [result EXCEPT ![r] = [result[r] EXCEPT ![i] = res]]
        /\ todo' = [todo EXCEPT ![r] = IF res \in Last THEN {} ELSE todo[r] \ {i}]
    BY DEF Attempt, Goto
  <1>3. [result[r] EXCEPT ![i] = res] \in [Positions -> Results]
    BY <1>1 DEF CallerTypes
  <1>4. (IF res \in Last THEN {} ELSE todo[r] \ {i}) \subseteq todo[r]
    OBVIOUS
  <1> HIDE DEF Last
  <1>5. pc' \in [Requests -> PCs]
    BY <1>2 DEF CallerTypes, PCs
  <1>6. result' \in [Requests -> [Positions -> Results]]
    BY <1>2, <1>3 DEF CallerTypes
  <1>7. todo' \in [Requests -> SUBSET Positions] /\ \A q \in Requests : todo'[q] \subseteq Chain(q)
    BY <1>2, <1>4 DEF CallerTypes
  <1> QED
    BY <1>5, <1>6, <1>7

\* Providers and circuits come into the way or out of it.
LEMMA ObstructTypes ==
  ASSUME CallerTypes, NEW c \in SUBSET Providers, NEW o \in SUBSET Circuits, Obstruct(c, o)
  PROVE  /\ cooling' \subseteq Providers /\ open' \subseteq Circuits
         /\ owed' \in [Requests -> SUBSET Positions]
         /\ \A q \in Requests : /\ owed'[q] \subseteq owed[q]
                                /\ \A i \in owed'[q] : Provider(q, i) \notin c /\ Circuit(q, i) \notin o
  <1>1. /\ cooling' = c /\ open' = o
        /\ owed' = [q \in Requests |-> {i \in owed[q] : Provider(q, i) \notin c /\ Circuit(q, i) \notin o}]
    BY DEF Obstruct
  <1> QED
    BY <1>1 DEF CallerTypes

LEMMA BeginTypes ==
  ASSUME CallerTypes, NEW r \in Requests, Lead(r) \/ Join(r) \/ Joined(r) \/ Begin(r), Shared
  PROVE  CallerTypes'
  <1>1. CASE Lead(r)
    <2>1. Available(r) \subseteq Positions
      BY ChainFacts DEF Available
    <2>2. /\ inflight' = [inflight EXCEPT ![KeyOf[r]] = r]
          /\ leader' = [leader EXCEPT ![r] = r]
          /\ pc' = [pc EXCEPT ![r] = "lookup"]
          /\ owed' = [owed EXCEPT ![r] = Available(r)]
          /\ UNCHANGED <<todo, force, result, failedAt, late, answer, cooling, open, unlogged>>
      BY <1>1 DEF Lead, Goto, plan, world
    <2> QED
      BY <2>1, <2>2, ChainFacts DEF CallerTypes, PCs
  <1>2. CASE Join(r)
    <2>1. /\ leader' = [leader EXCEPT ![r] = inflight[KeyOf[r]]]
          /\ pc' = [pc EXCEPT ![r] = "joined"]
          /\ UNCHANGED <<inflight, todo, force, result, failedAt, late, answer, cooling, open, unlogged, owed>>
      BY <1>2 DEF Join, Goto, plan, world
    <2>2. inflight[KeyOf[r]] \in Requests \cup {NoRequest}
      BY ChainFacts DEF CallerTypes
    <2> QED
      BY <2>1, <2>2 DEF CallerTypes, PCs
  <1>3. CASE Joined(r)
    <2>1. /\ pc[r] = "joined"
          /\ answer' = [answer EXCEPT ![r] = answer[leader[r]]]
          /\ pc' = [pc EXCEPT ![r] = "answered"]
          /\ UNCHANGED <<inflight, leader, todo, force, result, failedAt, late, cooling, open, unlogged, owed>>
      BY <1>3 DEF Joined, Goto, plan, world, shared
    <2>2. answer[leader[r]] \in Answers
      BY <2>1 DEF CallerTypes, Shared
    <2> QED
      BY <2>1, <2>2 DEF CallerTypes, PCs
  <1>4. CASE Early(r)
    <2>1. /\ answer' = [answer EXCEPT ![r] = "early"]
          /\ pc' = [pc EXCEPT ![r] = "recording"]
          /\ UNCHANGED <<inflight, leader, todo, force, result, failedAt, late, cooling, open, unlogged, owed>>
      BY <1>4 DEF Early, Conclude, Goto, plan, world, shared
    <2> QED
      BY <2>1 DEF CallerTypes, PCs, Answers
  <1>5. CASE Prepare(r)
    <2> DEFINE p == IF Warm(r) # {} THEN Warm(r) ELSE {Len(ChainOf[KeyOf[r]])}
    <2>1. /\ todo' = [todo EXCEPT ![r] = p]
          /\ force' = [force EXCEPT ![r] = Warm(r) = {}]
          /\ pc' = [pc EXCEPT ![r] = "choose"]
          /\ UNCHANGED <<inflight, leader, result, failedAt, late, answer, cooling, open, unlogged, owed>>
      BY <1>5 DEF Prepare, Goto, world, shared
    <2>2. p \subseteq Chain(r) /\ p \subseteq Positions
      BY ChainFacts DEF Warm
    <2> HIDE DEF p
    <2>3. (Warm(r) = {}) \in BOOLEAN
      OBVIOUS
    <2>4. force' \in [Requests -> BOOLEAN]
      BY <2>1, <2>3 DEF CallerTypes
    <2>5. todo' \in [Requests -> SUBSET Positions] /\ \A q \in Requests : todo'[q] \subseteq Chain(q)
      BY <2>1, <2>2 DEF CallerTypes
    <2> QED
      BY <2>1, <2>4, <2>5 DEF CallerTypes, PCs
  <1> QED
    BY <1>1, <1>2, <1>3, <1>4, <1>5 DEF Begin

LEMMA ChooseTypes ==
  ASSUME CallerTypes, NEW r \in Requests, Choose(r) \/ Admission(r)
  PROVE  CallerTypes'
  <1>1. CASE PassBy(r)
    <2>1. PICK i \in Chain(r) : todo' = [todo EXCEPT ![r] = todo[r] \ {i}]
      BY <1>1 DEF PassBy
    <2>2. UNCHANGED <<inflight, leader, pc, force, result, failedAt, late, answer, cooling, open, unlogged, owed>>
      BY <1>1 DEF PassBy, shared, world
    <2> QED
      BY <2>1, <2>2 DEF CallerTypes
  <1>2. CASE Skip(r)
    <2>1. PICK i \in Chain(r), res \in {"skipped", "expired"} : Attempt(r, i, res)
      BY <1>2 DEF Skip
    <2>2. UNCHANGED <<inflight, leader, force, failedAt, late, answer, cooling, open, unlogged, owed>>
      BY <1>2 DEF Skip, shared, world
    <2>3. res \in Results
      BY DEF Results, Last
    <2> QED
      BY <2>1, <2>2, <2>3, AttemptTypes DEF CallerTypes
  <1>3. CASE Ask(r) \/ Admitted(r)
    <2>1. /\ pc' = [pc EXCEPT ![r] = "asking"] \/ pc' = [pc EXCEPT ![r] = "calling"]
          /\ UNCHANGED <<inflight, leader, todo, force, result, failedAt, late, answer, cooling, open, unlogged>>
          /\ owed' = owed \/ owed' = [owed EXCEPT ![r] = {j \in owed[r] : ~Turn(r, j)}]
      BY <1>3 DEF Ask, Admitted, Goto, shared, plan, world
    <2>2. owed' \in [Requests -> SUBSET Positions]
      <3>1. {j \in owed[r] : ~Turn(r, j)} \in SUBSET Positions /\ owed \in [Requests -> SUBSET Positions]
        BY DEF CallerTypes
      <3> QED
        BY <2>1, <3>1
    <2> QED
      BY <2>1, <2>2 DEF CallerTypes, PCs
  <1>4. CASE ChainEnds(r)
    <2>1. /\ answer' = [answer EXCEPT ![r] = Exhaustion(r)]
          /\ pc' = [pc EXCEPT ![r] = "recording"]
          /\ UNCHANGED <<inflight, leader, todo, force, result, failedAt, late, cooling, open, unlogged, owed>>
      BY <1>4 DEF ChainEnds, Conclude, Goto, plan, world, shared
    <2>2. Exhaustion(r) \in Answers
      BY DEF Exhaustion, Answers
    <2> QED
      BY <2>1, <2>2 DEF CallerTypes, PCs
  <1>5. CASE NotAdmitted(r)
    <2>1. PICK i \in Chain(r), res \in {"full", "skipped", "stopped", "expired"} :
            /\ Attempt(r, i, res)
            /\ owed' = [owed EXCEPT ![r] = {j \in owed[r] : Provider(r, j) # Provider(r, i)}]
      BY <1>5 DEF NotAdmitted
    <2>2. UNCHANGED <<inflight, leader, force, failedAt, late, answer, cooling, open, unlogged>>
      BY <1>5 DEF NotAdmitted, shared, world
    <2>3. res \in Results
      BY DEF Results, Last
    <2>4. owed' \in [Requests -> SUBSET Positions]
      BY <2>1 DEF CallerTypes
    <2> QED
      BY <2>1, <2>2, <2>3, <2>4, AttemptTypes DEF CallerTypes
  <1> QED
    BY <1>1, <1>2, <1>3, <1>4, <1>5 DEF Choose, Admission

\* The promise is settled.
LEMMA SettleTypes ==
  ASSUME CallerTypes, NEW r \in Requests, NEW a \in Answers, Settle(r, a),
         UNCHANGED <<leader, world>>
  PROVE  CallerTypes'
  <1>1. /\ inflight' = [inflight EXCEPT ![KeyOf[r]] = NoRequest]
        /\ answer' = [answer EXCEPT ![r] = a]
        /\ pc' = [pc EXCEPT ![r] = "answered"]
        /\ todo' = [todo EXCEPT ![r] = {}]
        /\ force' = [force EXCEPT ![r] = FALSE]
        /\ result' = [result EXCEPT ![r] = NoResults]
        /\ late' = late \ {r}
        /\ owed' = [owed EXCEPT ![r] = {}]
        /\ failedAt' = [failedAt EXCEPT ![r] = {}]
        /\ unlogged' \subseteq unlogged \cup (Routed \cap {r})
        /\ UNCHANGED <<leader, cooling, open>>
    BY DEF Settle, Goto, world
  <1> QED
    BY <1>1, ResultFacts DEF CallerTypes, PCs

LEMMA FailedTypes ==
  ASSUME CallerTypes, NEW r \in Requests, NEW i \in Chain(r), Failed(r, i)
  PROVE  failedAt' \in [Requests -> SUBSET Positions]
  BY ChainFacts DEF Failed, CallerTypes

\* Failures that the circuit counts, and those that the limiter's answer replaces.
Counted(r) == ProviderFails(r) \/ WorkUnconfirmed(r)
Replaced(r) == FailureReplaced(r) \/ LeaseLost(r)

LEMMA OutcomeTypes ==
  ASSUME CallerTypes, NEW r \in Requests, Outcome(r) \/ Recorded(r)
  PROVE  CallerTypes'
  <1>1. CASE ProviderOk(r)
    <2>1. PICK i \in Chain(r) : Obstruct(cooling, open \ {Circuit(r, i)})
      BY <1>1 DEF ProviderOk
    <2>2. /\ answer' = [answer EXCEPT ![r] = "ok"]
          /\ pc' = [pc EXCEPT ![r] = "recording"]
          /\ UNCHANGED <<inflight, leader, todo, force, result, failedAt, late, unlogged>>
      BY <1>1 DEF ProviderOk, Conclude, Goto, shared, plan
    <2>3. cooling \in SUBSET Providers /\ open \ {Circuit(r, i)} \in SUBSET Circuits
      BY DEF CallerTypes
    <2> QED
      BY <2>1, <2>2, <2>3, ObstructTypes DEF CallerTypes, PCs, Answers
  <1>2. CASE ProviderRateLimits(r) \/ Counted(r)
    <2>1. \E i \in Chain(r), res \in Results, c \in SUBSET Providers, o \in SUBSET Circuits :
            Attempt(r, i, res) /\ Failed(r, i) /\ Obstruct(c, o)
      <3>1. CASE ProviderRateLimits(r)
        <4>1. PICK i \in Chain(r) : /\ Attempt(r, i, "failed") /\ Failed(r, i)
                                    /\ Obstruct(cooling \cup {Provider(r, i)}, open)
          BY <3>1 DEF ProviderRateLimits
        <4>2. cooling \cup {Provider(r, i)} \in SUBSET Providers /\ open \in SUBSET Circuits
          BY ChainFacts DEF CallerTypes
        <4> QED
          BY <4>1, <4>2 DEF Results, Last
      <3>2. CASE Counted(r)
        <4>1. PICK i \in Chain(r), opens \in BOOLEAN, res \in {"overrun", "failed", "stopped"} :
                Attempt(r, i, res) /\ Failed(r, i) /\ Recording(r, i, opens)
          BY <3>2 DEF Counted, ProviderFails, WorkUnconfirmed
        <4>2. /\ cooling \in SUBSET Providers
              /\ (IF opens THEN open \cup {Circuit(r, i)} ELSE open) \in SUBSET Circuits
          BY ChainFacts DEF CallerTypes
        <4> QED
          BY <4>1, <4>2 DEF Results, Last, Recording
      <3> QED
        BY <1>2, <3>1, <3>2
    <2>2. UNCHANGED <<inflight, leader, force, late, answer, unlogged>>
      BY <1>2 DEF ProviderRateLimits, Counted, ProviderFails, WorkUnconfirmed, shared
    <2> QED
      BY <2>1, <2>2, AttemptTypes, FailedTypes, ObstructTypes DEF CallerTypes
  <1>3. CASE Replaced(r)
    <2>1. PICK i \in Chain(r) : Attempt(r, i, "stopped") /\ (Failed(r, i) \/ failedAt' = failedAt)
      BY <1>3 DEF Replaced, FailureReplaced, LeaseLost
    <2>2. UNCHANGED <<inflight, leader, force, late, answer, cooling, open, unlogged, owed>>
      BY <1>3 DEF Replaced, FailureReplaced, LeaseLost, shared, world
    <2>3. "stopped" \in Results
      BY DEF Results, Last
    <2>4. failedAt' \in [Requests -> SUBSET Positions]
      BY <2>1, FailedTypes DEF CallerTypes
    <2> QED
      BY <2>1, <2>2, <2>3, <2>4, AttemptTypes DEF CallerTypes
  <1>4. CASE ProviderThrows(r) \/ Recorded(r)
    <2>1. "error" \in Answers /\ answer[r] \in Answers
      BY DEF Answers, CallerTypes
    <2> QED
      BY <1>4, <2>1, SettleTypes DEF ProviderThrows, Recorded
  <1> QED
    BY <1>1, <1>2, <1>3, <1>4 DEF Outcome, Counted, Replaced

\* Nobody's request: a log row, a deadline, a cooldown or a circuit.
Surroundings ==
  \/ \E r \in Requests : LogWritten(r) \/ DeadlinePasses(r)
  \/ \E p \in Providers : CooldownEnds(p)
  \/ \E c \in Circuits : CircuitHalfOpens(c)

LEMMA SurroundingTypes == ASSUME CallerTypes, Surroundings PROVE CallerTypes'
  <1>1. ASSUME NEW r \in Requests, LogWritten(r) \/ DeadlinePasses(r) PROVE CallerTypes'
    <2>1. /\ UNCHANGED <<inflight, leader, pc, todo, force, result, failedAt, answer, cooling, open, owed>>
          /\ late' \in {late, late \cup {r}}
          /\ unlogged' \subseteq unlogged
      BY <1>1 DEF LogWritten, DeadlinePasses, shared, plan, world
    <2> QED
      BY <2>1 DEF CallerTypes
  <1>2. ASSUME NEW p \in Providers, CooldownEnds(p) PROVE CallerTypes'
    <2>1. cooling \ {p} \in SUBSET Providers /\ open \in SUBSET Circuits
      BY DEF CallerTypes
    <2>2. UNCHANGED <<inflight, leader, pc, todo, force, result, failedAt, late, answer, unlogged>>
      BY <1>2 DEF CooldownEnds, shared, plan
    <2>3. /\ cooling' \subseteq Providers /\ open' \subseteq Circuits
          /\ owed' \in [Requests -> SUBSET Positions]
      BY <1>2, <2>1, ObstructTypes DEF CooldownEnds
    <2> QED
      BY <2>2, <2>3 DEF CallerTypes
  <1>3. ASSUME NEW c \in Circuits, CircuitHalfOpens(c) PROVE CallerTypes'
    <2>1. cooling \in SUBSET Providers /\ open \ {c} \in SUBSET Circuits
      BY DEF CallerTypes
    <2>2. UNCHANGED <<inflight, leader, pc, todo, force, result, failedAt, late, answer, unlogged>>
      BY <1>3 DEF CircuitHalfOpens, shared, plan
    <2>3. /\ cooling' \subseteq Providers /\ open' \subseteq Circuits
          /\ owed' \in [Requests -> SUBSET Positions]
      BY <1>3, <2>1, ObstructTypes DEF CircuitHalfOpens
    <2> QED
      BY <2>2, <2>3 DEF CallerTypes
  <1> QED
    BY <1>1, <1>2, <1>3 DEF Surroundings

-----------------------------------------------------------------------------
\* The sharing of promises.  A walk moves on among the places where it runs,
MovesOn(r) ==
  /\ pc[r] \in Running
  /\ \E l \in Running : pc' = [pc EXCEPT ![r] = l]
  /\ UNCHANGED shared

LEMMA WalkMovesOn ==
  ASSUME CallerTypes, NEW r \in Requests,
         Begin(r) \/ Choose(r) \/ Admission(r) \/ (Outcome(r) /\ ~ProviderThrows(r))
  PROVE  MovesOn(r)
  <1>1. CASE Early(r) \/ ChainEnds(r) \/ ProviderOk(r)
    <2>1. pc[r] \in {"lookup", "choose", "calling"} /\ pc' = [pc EXCEPT ![r] = "recording"] /\ UNCHANGED shared
      BY <1>1 DEF Early, ChainEnds, ProviderOk, Conclude, Goto
    <2> QED
      BY <2>1 DEF MovesOn, Running
  <1>2. CASE Prepare(r)
    <2>1. pc[r] = "lookup" /\ pc' = [pc EXCEPT ![r] = "choose"] /\ UNCHANGED shared
      BY <1>2 DEF Prepare, Goto
    <2> QED
      BY <2>1 DEF MovesOn, Running
  <1>3. CASE PassBy(r)
    <2>1. pc[r] = "choose" /\ pc' = [pc EXCEPT ![r] = "choose"] /\ UNCHANGED shared
      BY <1>3 DEF PassBy, CallerTypes
    <2> QED
      BY <2>1 DEF MovesOn, Running
  <1>4. CASE Skip(r) \/ NotAdmitted(r) \/ ProviderRateLimits(r) \/ Counted(r) \/ Replaced(r)
    <2>1. /\ pc[r] \in {"choose", "asking", "calling"}
          /\ \E i, res : Attempt(r, i, res)
          /\ UNCHANGED shared
      BY <1>4 DEF Skip, NotAdmitted, ProviderRateLimits, Counted, ProviderFails, WorkUnconfirmed,
                  Replaced, FailureReplaced, LeaseLost
    <2>2. pc' = [pc EXCEPT ![r] = "choose"]
      BY <2>1 DEF Attempt, Goto
    <2> QED
      BY <2>1, <2>2 DEF MovesOn, Running
  <1>5. CASE Ask(r) \/ Admitted(r)
    <2>1. pc[r] \in {"choose", "asking"} /\ UNCHANGED shared
          /\ (pc' = [pc EXCEPT ![r] = "asking"] \/ pc' = [pc EXCEPT ![r] = "calling"])
      BY <1>5 DEF Ask, Admitted, Goto
    <2> QED
      BY <2>1 DEF MovesOn, Running
  <1> QED
    BY <1>1, <1>2, <1>3, <1>4, <1>5 DEF Begin, Choose, Admission, Outcome, Counted, Replaced

LEMMA SharingMovesOn ==
  ASSUME CallerTypes, OneCallPerKey, Shared, NEW r \in Requests, MovesOn(r)
  PROVE  OneCallPerKey' /\ Shared'
  <1>1. /\ pc \in [Requests -> PCs] /\ UNCHANGED <<inflight, leader>>
        /\ pc[r] \in Running
    BY DEF CallerTypes, MovesOn, shared
  <1>2. PICK l \in Running : pc' = [pc EXCEPT ![r] = l]
    BY DEF MovesOn
  <1>3. /\ l # "joined" /\ pc[r] # "joined"
    BY <1>1, <1>2 DEF Running
  <1>4. \A q \in Requests : /\ pc'[q] \in Running <=> pc[q] \in Running
                            /\ pc'[q] = "joined" <=> pc[q] = "joined"
                            /\ pc[q] \in Running \cup {"answered"} => pc'[q] \in Running \cup {"answered"}
    BY <1>1, <1>2, <1>3
  <1> HIDE DEF Running
  <1>5. Shared'
    BY <1>1, <1>4 DEF Shared
  <1>6. OneCallPerKey'
    BY <1>1, <1>4 DEF OneCallPerKey, Shared
  <1> QED
    BY <1>5, <1>6

\* begins, is joined, and ends.
LEMMA SharingLed ==
  ASSUME CallerTypes, OneCallPerKey, Shared, NEW r \in Requests, Lead(r)
  PROVE  OneCallPerKey' /\ Shared'
  <1>1. /\ pc \in [Requests -> PCs] /\ inflight \in [Keys -> Requests \cup {NoRequest}]
        /\ leader \in [Requests -> Requests \cup {NoRequest}]
        /\ NoRequest \notin Requests /\ KeyOf \in [Requests -> Keys]
        /\ pc[r] = "new" /\ inflight[KeyOf[r]] = NoRequest
        /\ inflight' = [inflight EXCEPT ![KeyOf[r]] = r]
        /\ leader' = [leader EXCEPT ![r] = r]
        /\ pc' = [pc EXCEPT ![r] = "lookup"]
    BY CallerAssumption DEF CallerTypes, Lead, Goto
  <1>2. \A q \in Requests : pc'[q] \in Running <=> inflight'[KeyOf[q]] = q
    BY <1>1 DEF OneCallPerKey, Running
  <1>3. ASSUME NEW q \in Requests, pc'[q] = "joined"
        PROVE  /\ KeyOf[leader'[q]] = KeyOf[q] /\ pc'[leader'[q]] \in Running \cup {"answered"}
               /\ leader'[q] \in Requests
    BY <1>1, <1>3 DEF OneCallPerKey, Shared, Running
  <1>4. Shared'
    BY <1>1, <1>3 DEF Shared
  <1> QED
    BY <1>2, <1>3, <1>4 DEF OneCallPerKey

LEMMA SharingJoined ==
  ASSUME CallerTypes, OneCallPerKey, Shared, NEW r \in Requests, Join(r) \/ Joined(r)
  PROVE  OneCallPerKey' /\ Shared'
  <1>1. /\ pc \in [Requests -> PCs] /\ inflight \in [Keys -> Requests \cup {NoRequest}]
        /\ leader \in [Requests -> Requests \cup {NoRequest}]
        /\ NoRequest \notin Requests /\ KeyOf \in [Requests -> Keys]
    BY CallerAssumption DEF CallerTypes
  <1>2. CASE Join(r)
    <2>1. /\ pc[r] = "new" /\ inflight[KeyOf[r]] # NoRequest
          /\ leader' = [leader EXCEPT ![r] = inflight[KeyOf[r]]]
          /\ pc' = [pc EXCEPT ![r] = "joined"] /\ inflight' = inflight
      BY <1>2 DEF Join, Goto
    <2> DEFINE h == inflight[KeyOf[r]]
    <2>2. h \in Requests /\ KeyOf[h] = KeyOf[r] /\ pc[h] \in Running
      BY <1>1, <2>1 DEF Shared, OneCallPerKey
    <2>3. h # r /\ "new" \notin Running /\ "joined" \notin Running /\ "answered" \notin {"new"}
      BY <2>1, <2>2 DEF Running
    <2> HIDE DEF Running
    <2>4. \A q \in Requests : pc'[q] \in Running <=> inflight'[KeyOf[q]] = q
      BY <1>1, <2>1, <2>2, <2>3 DEF OneCallPerKey
    <2>5. ASSUME NEW q \in Requests, pc'[q] = "joined"
          PROVE  /\ KeyOf[leader'[q]] = KeyOf[q] /\ pc'[leader'[q]] \in Running \cup {"answered"}
                 /\ leader'[q] \in Requests
      BY <1>1, <2>1, <2>2, <2>3, <2>5 DEF OneCallPerKey, Shared
    <2>6. Shared'
      BY <1>1, <2>1, <2>5 DEF Shared
    <2> QED
      BY <2>4, <2>5, <2>6 DEF OneCallPerKey
  <1>3. CASE Joined(r)
    <2>1. /\ pc[r] = "joined" /\ pc' = [pc EXCEPT ![r] = "answered"] /\ UNCHANGED <<inflight, leader>>
      BY <1>3 DEF Joined, Goto, shared
    <2>2. Shared'
      BY <1>1, <2>1 DEF Shared
    <2> QED
      BY <1>1, <2>1, <2>2 DEF OneCallPerKey, Shared, Running
  <1> QED
    BY <1>2, <1>3

LEMMA SharingEnded ==
  ASSUME CallerTypes, OneCallPerKey, Shared, NEW r \in Requests, ProviderThrows(r) \/ Recorded(r)
  PROVE  OneCallPerKey' /\ Shared'
  <1>1. /\ pc \in [Requests -> PCs] /\ inflight \in [Keys -> Requests \cup {NoRequest}]
        /\ NoRequest \notin Requests /\ KeyOf \in [Requests -> Keys]
        /\ pc[r] \in {"calling", "recording"}
        /\ inflight' = [inflight EXCEPT ![KeyOf[r]] = NoRequest]
        /\ pc' = [pc EXCEPT ![r] = "answered"] /\ leader' = leader
    BY CallerAssumption DEF CallerTypes, ProviderThrows, Recorded, Settle, Goto
  <1>2. inflight[KeyOf[r]] = r
    BY <1>1 DEF OneCallPerKey, Running
  <1>3. \A q \in Requests : pc'[q] \in Running <=> inflight'[KeyOf[q]] = q
    BY <1>1, <1>2 DEF OneCallPerKey, Running
  <1>4. Shared'
    BY <1>1 DEF Shared
  <1> QED
    BY <1>1, <1>3, <1>4 DEF OneCallPerKey, Shared, Running

-----------------------------------------------------------------------------
\* What a request's own invariant rests on stays, but what it is owed may get less.
Untouched(q) ==
  /\ pc'[q] = pc[q] /\ leader'[q] = leader[q] /\ todo'[q] = todo[q]
  /\ result'[q] = result[q] /\ failedAt'[q] = failedAt[q] /\ answer'[q] = answer[q]
  /\ owed'[q] \subseteq owed[q] /\ owed'[q] \subseteq Available(q)'

LEMMA UntouchedGood ==
  ASSUME NEW q \in Requests, Good(q), Untouched(q)
  PROVE  Good(q)'
  <1>1. Kept(q)' /\ Trail(q)' /\ LastHidden(q)'
    BY DEF Good, Untouched, Kept, Trail, LastHidden
  <1>2. (Cut(q)' <=> Cut(q)) /\ Full(q)' = Full(q) /\ \A i : Turn(q, i)' <=> Turn(q, i)
    BY DEF Untouched, Cut, Full, Turn
  <1>3. Owed(q)'
    BY <1>2 DEF Good, Untouched, Owed
  <1>4. NotPassedOver(q)'
    BY <1>2 DEF Good, Untouched, NotPassedOver
  <1> QED
    BY <1>1, <1>3, <1>4 DEF Good

\* Steps of one request leave the others alone, whatever they do to the providers.
LEMMA ObstructedLess ==
  ASSUME CallerTypes, NEW c, NEW o, Obstruct(c, o), NEW q \in Requests, Owed(q)
  PROVE  owed'[q] \subseteq owed[q] /\ owed'[q] \subseteq Available(q)'
  <1>1. /\ cooling' = c /\ open' = o
        /\ owed'[q] = {i \in owed[q] : Provider(q, i) \notin c /\ Circuit(q, i) \notin o}
    BY DEF Obstruct
  <1>2. owed[q] \subseteq Chain(q)
    BY DEF Owed, Available
  <1> QED
    BY <1>1, <1>2 DEF Available

LEMMA WorldStands ==
  ASSUME NEW q \in Requests, Owed(q), UNCHANGED world, owed'[q] \subseteq owed[q]
  PROVE  owed'[q] \subseteq Available(q)'
  BY DEF world, Owed, Available

LEMMA OthersUntouched ==
  ASSUME CallerTypes, NEW r \in Requests, Arrive(r) \/ Step(r), NEW q \in Requests \ {r}, Good(q)
  PROVE  Untouched(q)
  <1>1. Owed(q)
    BY DEF Good
  <1>2. CASE ProviderOk(r) \/ ProviderRateLimits(r) \/ Counted(r)
    <2>1. \E c, o : Obstruct(c, o)
      BY <1>2 DEF ProviderOk, ProviderRateLimits, Counted, ProviderFails, WorkUnconfirmed, Recording
    <2>2. leader'[q] = leader[q]
      BY <1>2 DEF ProviderOk, ProviderRateLimits, Counted, ProviderFails, WorkUnconfirmed, shared
    <2>3. /\ pc'[q] = pc[q] /\ todo'[q] = todo[q] /\ result'[q] = result[q]
          /\ failedAt'[q] = failedAt[q] /\ answer'[q] = answer[q]
      BY <1>2 DEF ProviderOk, ProviderRateLimits, Counted, ProviderFails, WorkUnconfirmed, Conclude,
                  Attempt, Failed, Goto, plan, CallerTypes
    <2> QED
      BY <1>1, <2>1, <2>2, <2>3, ObstructedLess DEF Untouched
  <1>3. CASE Arrive(r) \/ Begin(r) \/ Choose(r) \/ Joined(r)
    <2>1. UNCHANGED world /\ leader'[q] = leader[q] /\ owed'[q] = owed[q]
      BY <1>3 DEF Arrive, Lead, Join, Begin, Early, Prepare, Choose, PassBy, Skip, Ask, ChainEnds,
                  Joined, shared, CallerTypes
    <2>2. /\ pc'[q] = pc[q] /\ todo'[q] = todo[q] /\ result'[q] = result[q]
          /\ failedAt'[q] = failedAt[q] /\ answer'[q] = answer[q]
      BY <1>3 DEF Arrive, Lead, Join, Begin, Early, Prepare, Choose, PassBy, Skip, Ask, ChainEnds,
                  Joined, Conclude, Attempt, Goto, plan, CallerTypes
    <2> QED
      BY <1>1, <2>1, <2>2, WorldStands DEF Untouched
  <1>4. CASE Admission(r) \/ Replaced(r) \/ ProviderThrows(r) \/ Recorded(r)
    <2>1. UNCHANGED world /\ leader'[q] = leader[q] /\ owed'[q] = owed[q]
      BY <1>4 DEF Admission, Admitted, NotAdmitted, Replaced, FailureReplaced, LeaseLost,
                  ProviderThrows, Recorded, Settle, shared, CallerTypes
    <2>2. /\ pc'[q] = pc[q] /\ todo'[q] = todo[q] /\ result'[q] = result[q]
          /\ failedAt'[q] = failedAt[q] /\ answer'[q] = answer[q]
      BY <1>4 DEF Admission, Admitted, NotAdmitted, Replaced, FailureReplaced, LeaseLost,
                  ProviderThrows, Recorded, Settle, Attempt, Failed, Goto, plan, CallerTypes
    <2> QED
      BY <1>1, <2>1, <2>2, WorldStands DEF Untouched
  <1> QED
    BY <1>2, <1>3, <1>4 DEF Step, Outcome, Counted, Replaced

LEMMA SurroundingsUntouched ==
  ASSUME CallerTypes, Surroundings, NEW q \in Requests, Good(q)
  PROVE  Untouched(q)
  <1>1. Owed(q)
    BY DEF Good
  <1>2. CASE \E r \in Requests : LogWritten(r) \/ DeadlinePasses(r)
    <2>1. /\ UNCHANGED world /\ leader' = leader /\ owed' = owed
          /\ UNCHANGED <<pc, todo, result, failedAt, answer>>
      BY <1>2 DEF LogWritten, DeadlinePasses, shared, plan
    <2> QED
      BY <1>1, <2>1, WorldStands DEF Untouched
  <1>3. CASE (\E p \in Providers : CooldownEnds(p)) \/ (\E c \in Circuits : CircuitHalfOpens(c))
    <2>1. /\ \E c, o : Obstruct(c, o)
          /\ leader' = leader /\ UNCHANGED <<pc, todo, result, failedAt, answer>>
      BY <1>3 DEF CooldownEnds, CircuitHalfOpens, shared, plan
    <2> QED
      BY <1>1, <2>1, ObstructedLess DEF Untouched
  <1> QED
    BY <1>2, <1>3 DEF Surroundings

-----------------------------------------------------------------------------
\* The request that takes the step.  Before and after its walk it has no results and
\* owes nothing but what it found free;
LEMMA OutsideWalk ==
  ASSUME CallerTypes, NEW r \in Requests, Good(r), Arrive(r) \/ Early(r) \/ Joined(r)
  PROVE  Good(r)'
  <1>1. CASE Lead(r)
    <2>1. /\ pc[r] = "new" /\ pc'[r] = "lookup" /\ owed'[r] = Available(r)
          /\ UNCHANGED <<todo, result, failedAt, answer, cooling, open>>
      BY <1>1 DEF Lead, Goto, plan, world, CallerTypes
    <2>2. Available(r)' = Available(r)
      BY <2>1 DEF Available
    <2> QED
      BY <2>1, <2>2 DEF Good, Kept, Owed, Trail, Walking, LastHidden, NotPassedOver
  <1>2. CASE Join(r)
    <2>1. /\ pc[r] = "new" /\ pc'[r] = "joined"
          /\ UNCHANGED <<todo, result, failedAt, answer, cooling, open, owed>>
      BY <1>2 DEF Join, Goto, plan, world, CallerTypes
    <2>2. Available(r)' = Available(r)
      BY <2>1 DEF Available
    <2> QED
      BY <2>1, <2>2 DEF Good, Kept, Owed, Trail, Walking, LastHidden, NotPassedOver
  <1>3. CASE Joined(r) \/ Early(r)
    <2>1. /\ \/ pc[r] = "joined" /\ pc'[r] = "answered"
             \/ pc[r] = "lookup" /\ pc'[r] = "recording" /\ answer'[r] = "early"
          /\ UNCHANGED <<leader, todo, result, failedAt, cooling, open, owed>>
      BY <1>3 DEF Joined, Early, Conclude, Goto, shared, plan, world, CallerTypes
    <2>2. Available(r)' = Available(r)
      BY <2>1 DEF Available
    <2>3. result[r] = NoResults
      BY <2>1 DEF Good, Kept, Walking
    <2>4. \A i \in Chain(r) : result'[r][i] = "none"
      BY <2>1, <2>3, ResultFacts, ChainFacts
    <2> QED
      BY <2>1, <2>2, <2>3, <2>4 DEF Good, Kept, Owed, Trail, Walking, LastHidden, NotPassedOver
  <1> QED
    BY <1>1, <1>2, <1>3 DEF Arrive

\* its plan is all of the chain that does not cool down, so it holds what is owed;
LEMMA Planned ==
  ASSUME CallerTypes, NEW r \in Requests, Good(r), Prepare(r)
  PROVE  Good(r)'
  <1>1. /\ pc[r] = "lookup" /\ pc'[r] = "choose"
        /\ todo'[r] = IF Warm(r) # {} THEN Warm(r) ELSE {Len(ChainOf[KeyOf[r]])}
        /\ UNCHANGED <<leader, result, failedAt, answer, cooling, open, owed>>
    BY DEF Prepare, Goto, shared, world, CallerTypes
  <1>2. Available(r)' = Available(r)
    BY <1>1 DEF Available
  <1>3. /\ result'[r] = NoResults /\ answer'[r] = "none"
        /\ \A i \in Chain(r) : result'[r][i] = "none"
    BY <1>1, ResultFacts, ChainFacts DEF Good, Kept, Walking
  <1>4. ~Cut(r)' /\ Full(r)' = {}
    BY <1>3 DEF Cut, Full, Last
  <1>5. owed[r] \subseteq Warm(r)
    BY DEF Good, Owed, Available, Warm
  <1>6. owed'[r] \subseteq todo'[r]
    BY <1>1, <1>5
  <1> QED
    BY <1>1, <1>2, <1>3, <1>4, <1>6 DEF Good, Kept, Owed, Trail, Walking, LastHidden, NotPassedOver

\* a route that is done with is not owed, unless the walk ends with it;
LEMMA Attempted ==
  ASSUME CallerTypes, NEW r \in Requests, Good(r), pc[r] \in Walking,
         NEW i \in Chain(r), NEW res \in Results, Turn(r, i), Attempt(r, i, res),
         \/ failedAt'[r] = failedAt[r]
         \/ failedAt'[r] = failedAt[r] \cup {i} /\ res \in {"failed", "overrun", "stopped"},
         res \notin Last => i \notin owed'[r], leader' = leader, answer' = answer,
         owed'[r] \subseteq owed[r], owed'[r] \subseteq Available(r)',
         res = "full" => \A j \in owed'[r] : Provider(r, j) # Provider(r, i)
  PROVE  Good(r)'
  <1>a. i \in todo[r]
    BY DEF Turn
  <1>1. /\ pc'[r] = "choose" /\ i \in Positions
        /\ result'[r] = [result[r] EXCEPT ![i] = res]
        /\ todo'[r] = IF res \in Last THEN {} ELSE todo[r] \ {i}
    BY ChainFacts DEF Attempt, Goto, CallerTypes
  <1>2. /\ result'[r][i] = res
        /\ \A j \in Chain(r) : j # i => result'[r][j] = result[r][j]
    BY <1>1, ChainFacts DEF CallerTypes
  <1>3. ~Cut(r) /\ owed[r] \subseteq todo[r]
    BY <1>a DEF Good, Owed
  <1>4. Cut(r)' <=> res \in Last
    BY <1>2, <1>3 DEF Cut
  <1>5. Cut(r)' => todo'[r] = {}
    BY <1>1, <1>4
  <1>6. ~Cut(r)' => owed'[r] \subseteq todo'[r]
    BY <1>1, <1>3, <1>4
  <1>7. Full(r)' \subseteq Full(r) \cup (IF res = "full" THEN {Provider(r, i)} ELSE {})
    BY <1>2 DEF Full
  <1>8. \A j \in owed'[r] : Provider(r, j) \notin Full(r)'
    BY <1>7 DEF Good, Owed
  <1>9. Owed(r)'
    BY <1>1, <1>5, <1>6, <1>8 DEF Owed
  <1>10. answer'[r] = "none"
    BY DEF Good, Kept, Walking
  <1>11. todo[r] \subseteq Chain(r) /\ Chain(r) \subseteq Nat /\ todo'[r] \subseteq todo[r] \ {i}
    BY <1>1, ChainFacts DEF CallerTypes
  <1>12. \A j \in Chain(r) : result[r][j] # "none" => j < i
    BY <1>a DEF Good, Trail
  <1>13. \A j \in failedAt'[r] : j \in Chain(r) /\ result'[r][j] \in {"failed", "overrun", "stopped"}
    <2>1. \A j \in failedAt[r] : j \in Chain(r) /\ result[r][j] \in {"failed", "overrun", "stopped"}
      BY DEF Good, Trail
    <2>2. i \notin failedAt[r]
      BY <1>11, <1>12, <2>1
    <2> QED
      BY <1>2, <2>1, <2>2
  <1>14. \A j \in todo'[r] : i < j
    BY <1>11 DEF Turn
  <1>15. ASSUME NEW j \in Chain(r), NEW k \in todo'[r], result'[r][j] # "none" PROVE j < k
    BY <1>2, <1>11, <1>12, <1>14, <1>15
  <1>16. ASSUME NEW j \in Chain(r), NEW k \in Chain(r), result'[r][j] \in Last, j < k
         PROVE  result'[r][k] = "none"
    <2>1. j = i
      BY <1>2, <1>3, <1>16 DEF Cut
    <2>2. ~(k < i) /\ k # i
      BY <1>11, <1>16, <2>1
    <2> QED
      BY <1>2, <1>12, <2>2
  <1>17. Trail(r)'
    BY <1>13, <1>15, <1>16 DEF Trail
  <1> QED
    BY <1>1, <1>9, <1>10, <1>17 DEF Good, Kept, Walking, LastHidden, NotPassedOver

LEMMA Chosen ==
  ASSUME CallerTypes, NEW r \in Requests, Good(r), PassBy(r) \/ Skip(r) \/ Ask(r)
  PROVE  Good(r)'
  <1>1. CASE PassBy(r)
    <2>1. PICK i \in Chain(r) : /\ Provider(r, i) \in Full(r)
                               /\ todo' = [todo EXCEPT ![r] = todo[r] \ {i}]
      BY <1>1 DEF PassBy
    <2>2. /\ pc[r] = "choose" /\ todo'[r] = todo[r] \ {i}
          /\ UNCHANGED <<pc, leader, result, failedAt, answer, cooling, open, owed>>
      BY <1>1, <2>1 DEF PassBy, shared, world, CallerTypes
    <2>3. (Cut(r)' <=> Cut(r)) /\ Full(r)' = Full(r) /\ Available(r)' = Available(r)
      BY <2>2 DEF Cut, Full, Available
    <2>4. i \notin owed[r]
      BY <2>1, <2>2 DEF Good, Owed, Walking
    <2> QED
      BY <2>2, <2>3, <2>4 DEF Good, Kept, Owed, Trail, Walking, LastHidden, NotPassedOver
  <1>2. CASE Skip(r)
    <2>1. PICK i \in Chain(r) : /\ Turn(r, i)
                               /\ \/ Refused(r, i) /\ Attempt(r, i, "skipped")
                                  \/ ~Refused(r, i) /\ Attempt(r, i, "expired")
      BY <1>2 DEF Skip
    <2>2. pc[r] = "choose" /\ UNCHANGED <<leader, failedAt, answer, cooling, open, owed>>
      BY <1>2 DEF Skip, shared, world
    <2>3. i \in todo[r] /\ Available(r)' = Available(r) /\ pc[r] \in Walking
      BY <2>1, <2>2 DEF Turn, Available, Walking
    <2>4. owed'[r] \subseteq Available(r)'
      BY <2>2, <2>3 DEF Good, Owed
    <2>5. CASE Refused(r, i)
      <3>1. i \notin owed'[r] /\ Attempt(r, i, "skipped")
        BY <2>1, <2>2, <2>5 DEF Good, Owed, Available, Refused
      <3>2. "skipped" \in Results
        BY DEF Results
      <3> QED
        BY <2>1, <2>2, <2>3, <2>4, <3>1, <3>2, Attempted
    <2>6. CASE ~Refused(r, i)
      <3>1. "expired" \in Results \cap Last
        BY DEF Results, Last
      <3> QED
        BY <2>1, <2>2, <2>3, <2>4, <2>6, <3>1, Attempted
    <2> QED
      BY <2>5, <2>6
  <1>3. CASE Ask(r)
    <2>1. /\ pc[r] = "choose" /\ pc'[r] = "asking"
          /\ UNCHANGED <<leader, todo, result, failedAt, answer, cooling, open, owed>>
      BY <1>3 DEF Ask, Goto, shared, plan, world, CallerTypes
    <2>2. (Cut(r)' <=> Cut(r)) /\ Full(r)' = Full(r) /\ Available(r)' = Available(r)
      BY <2>1 DEF Cut, Full, Available
    <2> QED
      BY <2>1, <2>2 DEF Good, Kept, Owed, Trail, Walking, LastHidden, NotPassedOver
  <1> QED
    BY <1>1, <1>2, <1>3

\* an admitted route is owed no more, and a full provider's routes neither;
LEMMA AdmissionAnswered ==
  ASSUME CallerTypes, NEW r \in Requests, Good(r), Admission(r)
  PROVE  Good(r)'
  <1>1. CASE Admitted(r)
    <2>1. /\ pc[r] = "asking" /\ pc'[r] = "calling"
          /\ owed'[r] = {j \in owed[r] : ~Turn(r, j)}
          /\ UNCHANGED <<leader, todo, result, failedAt, answer, cooling, open>>
      BY <1>1 DEF Admitted, Goto, shared, plan, world, CallerTypes
    <2>2. /\ (Cut(r)' <=> Cut(r)) /\ Full(r)' = Full(r) /\ Available(r)' = Available(r)
          /\ \A j : Turn(r, j)' <=> Turn(r, j)
      BY <2>1 DEF Cut, Full, Available, Turn
    <2> QED
      BY <2>1, <2>2 DEF Good, Kept, Owed, Trail, Walking, LastHidden, NotPassedOver
  <1>2. CASE NotAdmitted(r)
    <2>1. PICK i \in Chain(r), res \in {"full", "skipped", "stopped", "expired"} :
            /\ Turn(r, i) /\ Attempt(r, i, res)
            /\ owed' = [owed EXCEPT ![r] = {j \in owed[r] : Provider(r, j) # Provider(r, i)}]
      BY <1>2 DEF NotAdmitted
    <2>2. pc[r] = "asking" /\ UNCHANGED <<leader, failedAt, answer, cooling, open>>
      BY <1>2 DEF NotAdmitted, shared, world
    <2>3. /\ pc[r] \in Walking /\ i \in todo[r] /\ res \in Results /\ UNCHANGED world
      BY <2>1, <2>2 DEF Turn, Walking, Results, Last, world
    <2>4. owed'[r] = {j \in owed[r] : Provider(r, j) # Provider(r, i)}
      BY <2>1 DEF CallerTypes
    <2>5. owed'[r] \subseteq owed[r] /\ \A j \in owed'[r] : Provider(r, j) # Provider(r, i)
      BY <2>4
    <2>6. owed'[r] \subseteq Available(r)'
      BY <2>3, <2>5, WorldStands DEF Good
    <2> QED
      BY <2>1, <2>2, <2>3, <2>5, <2>6, Attempted
  <1> QED
    BY <1>1, <1>2 DEF Admission

\* what is called is not owed either, however the call ends;
LEMMA Called ==
  ASSUME CallerTypes, NEW r \in Requests, Good(r),
         ProviderOk(r) \/ ProviderRateLimits(r) \/ Counted(r) \/ Replaced(r)
  PROVE  Good(r)'
  <1>1. pc[r] = "calling" /\ pc[r] \in Walking /\ leader' = leader
    BY DEF ProviderOk, ProviderRateLimits, Counted, ProviderFails, WorkUnconfirmed, Replaced,
           FailureReplaced, LeaseLost, Walking, shared
  <1>2. CASE ProviderOk(r)
    <2>1. /\ pc'[r] = "recording" /\ answer'[r] = "ok"
          /\ UNCHANGED <<leader, todo, result, failedAt>>
          /\ \E c, o : Obstruct(c, o)
      BY <1>2 DEF ProviderOk, Conclude, Goto, shared, plan, CallerTypes
    <2>2. owed'[r] \subseteq Available(r)'
      BY <2>1, ObstructedLess DEF Good
    <2> QED
      BY <2>1, <2>2 DEF Good, Kept, Owed, Trail, Walking, LastHidden, NotPassedOver
  <1>3. CASE ProviderRateLimits(r) \/ Counted(r)
    <2>1. PICK i \in Chain(r), res \in {"overrun", "failed", "stopped"} :
            Turn(r, i) /\ Attempt(r, i, res) /\ Failed(r, i) /\ \E c, o : Obstruct(c, o)
      BY <1>3 DEF ProviderRateLimits, Counted, ProviderFails, WorkUnconfirmed, Recording
    <2>2. answer' = answer /\ failedAt'[r] = failedAt[r] \cup {i}
      BY <1>3, <2>1 DEF ProviderRateLimits, Counted, ProviderFails, WorkUnconfirmed, Failed, CallerTypes
    <2>3. owed'[r] \subseteq owed[r] /\ owed'[r] \subseteq Available(r)'
      BY <2>1, ObstructedLess DEF Good
    <2>4. i \in todo[r] /\ i \notin owed[r]
      BY <1>1, <2>1 DEF Turn, Good, Owed
    <2>5. res \in Results /\ res # "full"
      BY DEF Results, Last
    <2> QED
      BY <1>1, <2>1, <2>2, <2>3, <2>4, <2>5, Attempted
  <1>4. CASE Replaced(r)
    <2>1. PICK i \in Chain(r) :
            /\ Turn(r, i) /\ Attempt(r, i, "stopped")
            /\ Failed(r, i) \/ failedAt' = failedAt
      BY <1>4 DEF Replaced, FailureReplaced, LeaseLost
    <2>2. /\ UNCHANGED <<answer, world, owed>>
          /\ failedAt'[r] = failedAt[r] \/ failedAt'[r] = failedAt[r] \cup {i}
      BY <1>4, <2>1 DEF Replaced, FailureReplaced, LeaseLost, Failed, CallerTypes
    <2>3. owed'[r] \subseteq owed[r] /\ owed'[r] \subseteq Available(r)'
      BY <2>2, WorldStands DEF Good
    <2>4. i \in todo[r] /\ "stopped" \in Results \cap Last
      BY <2>1 DEF Turn, Results, Last
    <2> QED
      BY <1>1, <2>1, <2>2, <2>3, <2>4, Attempted
  <1> QED
    BY <1>2, <1>3, <1>4

\* at the end of the chain nothing is left to do and so nothing is owed;
LEMMA Ended ==
  ASSUME CallerTypes, NEW r \in Requests, Good(r), ChainEnds(r)
  PROVE  Good(r)'
  <1>1. /\ pc[r] = "choose" /\ pc[r] \in Walking /\ pc'[r] = "recording" /\ todo[r] = {}
        /\ answer'[r] = Exhaustion(r)
        /\ UNCHANGED <<leader, todo, result, failedAt, cooling, open, owed>>
    BY DEF ChainEnds, Conclude, Goto, shared, plan, world, CallerTypes, Walking
  <1>2. (Cut(r)' <=> Cut(r)) /\ Available(r)' = Available(r)
    BY <1>1 DEF Cut, Available
  <1>3. ~Cut(r) => owed[r] = {}
    BY <1>1 DEF Good, Owed
  <1>4. Exhaustion(r) = "backpressure" => \A i \in failedAt[r] : result[r][i] = "stopped"
    BY <1>1 DEF Exhaustion, Good, Trail
  <1>a. \A i \in failedAt[r], j \in Chain(r) : result[r][i] = "stopped" /\ j > i => result[r][j] = "none"
    <2>1. \A i \in failedAt[r] : i \in Chain(r) /\ "stopped" \in Last
      BY <1>1 DEF Good, Trail, Last
    <2> QED
      BY <1>1, <2>1, ChainFacts DEF Good, Trail
  <1>5. LastHidden(r)' /\ NotPassedOver(r)'
    BY <1>1, <1>2, <1>3, <1>4, <1>a DEF LastHidden, NotPassedOver
  <1> QED
    BY <1>1, <1>2, <1>5 DEF Good, Kept, Owed, Trail, Walking

\* and once the promise is settled nothing is left of the call.
LEMMA Settled ==
  ASSUME CallerTypes, NEW r \in Requests, Good(r), ProviderThrows(r) \/ Recorded(r)
  PROVE  Good(r)'
  <1>1. /\ pc'[r] = "answered" /\ result'[r] = NoResults /\ owed'[r] = {} /\ failedAt'[r] = {}
    BY DEF ProviderThrows, Recorded, Settle, Goto, CallerTypes
  <1>2. \A i \in Chain(r) : result'[r][i] = "none"
    BY <1>1, ResultFacts, ChainFacts
  <1> QED
    BY <1>1, <1>2 DEF Good, Kept, Owed, Trail, Walking, LastHidden, NotPassedOver

LEMMA StepsGood ==
  ASSUME CallerTypes, NEW r \in Requests, Good(r), Arrive(r) \/ Step(r)
  PROVE  Good(r)'
  BY OutsideWalk, Planned, Chosen, AdmissionAnswered, Called, Ended, Settled
     DEF Step, Begin, Choose, Outcome, Counted, Replaced

-----------------------------------------------------------------------------
LEMMA InitIInv == Init => IInv
  <1> SUFFICES ASSUME Init PROVE IInv
    OBVIOUS
  <1>1. CallerTypes
    BY ResultFacts DEF Init, CallerTypes, PCs, Answers
  <1>2. GuardianTypes /\ Behind
    BY GuardianInitOK DEF Init
  <1>3. /\ \A r \in Requests : /\ pc[r] = "new" /\ owed[r] = {} /\ answer[r] = "none"
                               /\ result[r] = NoResults /\ failedAt[r] = {}
        /\ \A k \in Keys : inflight[k] = NoRequest
    BY DEF Init
  <1>4. OneCallPerKey /\ Shared
    BY <1>3, CallerAssumption DEF OneCallPerKey, Shared, Running
  <1>5. \A r \in Requests : Good(r)
    BY <1>3 DEF Good, Kept, Owed, Trail, Walking, LastHidden, NotPassedOver
  <1> QED
    BY <1>1, <1>2, <1>4, <1>5 DEF IInv

\* A step of a request leaves the guardian as it is.
LEMMA StepsKeepGuardian ==
  ASSUME NEW r \in Requests, Arrive(r) \/ Step(r)
  PROVE  UNCHANGED guardianVars
  BY DEF Arrive, Lead, Join, Step, Begin, Early, Prepare, Choose, PassBy, Skip, Ask, ChainEnds,
         Admission, Admitted, NotAdmitted, Outcome, ProviderOk, ProviderRateLimits, ProviderFails,
         WorkUnconfirmed, FailureReplaced, LeaseLost, ProviderThrows, Recorded, Joined

LEMMA StillBehind ==
  ASSUME GuardianTypes, Behind, UNCHANGED guardianVars
  PROVE  GuardianTypes' /\ Behind'
  <1>1. UNCHANGED <<used, globalUsed, log, reading>>
    BY DEF guardianVars
  <1>2. Total(log)' = Total(log)
    BY <1>1
  <1> QED
    BY <1>1, <1>2 DEF GuardianTypes, Behind, NeverOverstated

LEMMA NextIInv == IInv /\ [Next]_vars => IInv'
  <1> SUFFICES ASSUME IInv, [Next]_vars PROVE IInv'
    OBVIOUS
  <1>1. /\ CallerTypes /\ GuardianTypes /\ Behind /\ OneCallPerKey /\ Shared
        /\ \A r \in Requests : Good(r)
    BY DEF IInv
  <1>2. ASSUME NEW r \in Requests, Arrive(r) \/ Step(r) PROVE IInv'
    <2>1. CallerTypes'
      BY <1>1, <1>2, BeginTypes, ChooseTypes, OutcomeTypes DEF Arrive, Step
    <2>2. GuardianTypes' /\ Behind'
      BY <1>1, <1>2, StepsKeepGuardian, StillBehind
    <2>3. OneCallPerKey' /\ Shared'
      <3>1. CASE Arrive(r) \/ Joined(r)
        BY <1>1, <3>1, SharingLed, SharingJoined DEF Arrive
      <3>2. CASE ProviderThrows(r) \/ Recorded(r)
        BY <1>1, <3>2, SharingEnded
      <3>3. CASE Begin(r) \/ Choose(r) \/ Admission(r) \/ (Outcome(r) /\ ~ProviderThrows(r))
        BY <1>1, <3>3, WalkMovesOn, SharingMovesOn
      <3> QED
        BY <1>2, <3>1, <3>2, <3>3 DEF Step
    <2>4. ASSUME NEW q \in Requests PROVE Good(q)'
      <3>1. CASE q = r
        BY <1>1, <1>2, <3>1, StepsGood
      <3>2. CASE q # r
        BY <1>1, <1>2, <3>2, OthersUntouched, UntouchedGood
      <3> QED
        BY <3>1, <3>2
    <2> QED
      BY <2>1, <2>2, <2>3, <2>4 DEF IInv
  <1>3. ASSUME Surroundings PROVE IInv'
    <2>1. CallerTypes'
      BY <1>1, <1>3, SurroundingTypes
    <2>2. GuardianTypes' /\ Behind'
      <3>1. ASSUME NEW r \in Requests, LogWritten(r) PROVE GuardianTypes' /\ Behind'
        BY <1>1, <3>1, LogRowOK, ChainFacts DEF LogWritten
      <3>2. CASE ~\E r \in Requests : LogWritten(r)
        BY <1>1, <1>3, <3>2, StillBehind DEF Surroundings, DeadlinePasses, CooldownEnds, CircuitHalfOpens
      <3> QED
        BY <3>1, <3>2
    <2>3. UNCHANGED <<inflight, leader, pc>>
      BY <1>3 DEF Surroundings, LogWritten, DeadlinePasses, CooldownEnds, CircuitHalfOpens, shared
    <2>4. OneCallPerKey' /\ Shared'
      BY <1>1, <2>3 DEF OneCallPerKey, Shared
    <2>5. \A q \in Requests : Good(q)'
      BY <1>1, <1>3, SurroundingsUntouched, UntouchedGood
    <2> QED
      BY <2>1, <2>2, <2>4, <2>5 DEF IInv
  <1>4. ASSUME UNCHANGED callerVars PROVE /\ CallerTypes' /\ OneCallPerKey' /\ Shared'
                                          /\ \A r \in Requests : Good(r)'
    <2>1. UNCHANGED <<inflight, leader, pc, todo, force, result, failedAt, late, answer, cooling, open,
                      unlogged, owed, failedAt>>
      BY <1>4 DEF callerVars
    <2>2. \A r \in Requests : Untouched(r)
      BY <1>1, <2>1 DEF Untouched, Good, Owed, Available
    <2> QED
      BY <1>1, <2>1, <2>2, UntouchedGood DEF CallerTypes, OneCallPerKey, Shared
  <1>5. ASSUME NEW q \in Queries, RefreshStep(q) PROVE IInv'
    BY <1>1, <1>4, <1>5, RefreshOK DEF RefreshStep, IInv
  <1>6. CASE UNCHANGED vars
    BY <1>1, <1>4, <1>6, StillBehind DEF vars, IInv
  <1> QED
    BY <1>2, <1>3, <1>5, <1>6 DEF Next, Surroundings

LEMMA CallerIInv == Spec => []IInv
  BY InitIInv, NextIInv, PTL DEF Spec

-----------------------------------------------------------------------------
\* Type correctness: a plan is of the request's own chain, whatever cooled down while it
\* was made, and the guardian's totals are numbers.
THEOREM CallerTypeOK == Spec => []TypeOK
  <1>1. IInv => TypeOK
    BY TypesApart DEF IInv
  <1> QED
    BY <1>1, CallerIInv, PTL

\* One promise per key: whoever runs is in the map and whoever is in the map runs, also
\* when the provider's adapter throws (_runWithInflightDedupe).
THEOREM CallerOneCallPerKey == Spec => []OneCallPerKey
  <1>1. IInv => OneCallPerKey
    BY DEF IInv
  <1> QED
    BY <1>1, CallerIInv, PTL

\* The limiter's "try again" hides the failure of one provider at most, the last one asked,
\* whatever the walk met before (_sharedAdmissionResponse, runWithProviderAdmission).
THEOREM CallerOnlyLastFailureHidden == Spec => []OnlyLastFailureHidden
  <1>1. IInv => OnlyLastFailureHidden
    BY DEF IInv, Good, LastHidden, OnlyLastFailureHidden
  <1> QED
    BY <1>1, CallerIInv, PTL

\* A walk that ends for want of a provider has called every route that was free from the
\* request's beginning on (_callWithSelectorChain).
THEOREM CallerNobodyPassedOver == Spec => []NobodyPassedOver
  <1>1. IInv => NobodyPassedOver
    BY DEF IInv, Good, NotPassedOver, Cut, NobodyPassedOver
  <1> QED
    BY <1>1, CallerIInv, PTL

\* The guardian errs on one side only: no total it checks calls against is more than the
\* routing log's own, however refresh queries overlap, fail and come late (refreshFromDb), so
\* no call is refused for costs that nobody logged.
THEOREM GuardianNeverOverstated == Spec => []NeverOverstated
  <1>1. IInv => NeverOverstated
    BY DEF IInv, Behind
  <1> QED
    BY <1>1, CallerIInv, PTL

-----------------------------------------------------------------------------
\* The circuits, of which the caller knows only whether they refuse: the breaker that
\* provider-registry.ts keeps for each.
CircuitIInv == CircuitTypes /\ CountMatchesState

LEMMA CircuitInitIInv == CircuitInit => CircuitIInv
  <1> SUFFICES ASSUME CircuitInit PROVE CircuitIInv
    OBVIOUS
  <1>1. 0 \in 0..Threshold /\ 0 < Threshold
    BY BreakerAssumption
  <1>2. CircuitInit => CircuitTypes
    BY <1>1 DEF CircuitInit, CircuitTypes
  <1>3. CircuitInit => CountMatchesState
    BY <1>1 DEF CircuitInit, CountMatchesState
  <1>. QED  BY <1>2, <1>3 DEF CircuitIInv

\* The steps of one caller.
LEMMA CircuitCallerSteps ==
  ASSUME CircuitIInv, NEW c \in Callers,
         Admit(c) \/ Unrecorded(c) \/ Success(c) \/ Failure(c)
  PROVE  CircuitIInv'
  <1>1. Threshold \in Nat \ {0}
    BY BreakerAssumption
  <1>2. CASE Admit(c)
    BY <1>1, <1>2 DEF Admit, IsOpen, AskedState, CircuitIInv, CircuitTypes, CountMatchesState
  <1>3. CASE Unrecorded(c)
    BY <1>1, <1>3 DEF Unrecorded, Land, CircuitIInv, CircuitTypes, CountMatchesState
  <1>4. CASE Success(c)
    BY <1>1, <1>4 DEF Success, Land, IsOpen, CircuitIInv, CircuitTypes, CountMatchesState
  <1>5. CASE Failure(c)
    <2> DEFINE count == IF failures < Threshold THEN failures + 1 ELSE failures
               opens == AskedState = "HALF_OPEN" \/ (AskedState = "CLOSED" /\ count >= Threshold)
               next == IF opens THEN "OPEN" ELSE AskedState
    <2>1. /\ failures' = count /\ state' = next
          /\ elapsed' = IF opens THEN FALSE ELSE elapsed
          /\ flight' = flight \ {c} /\ doomed' = doomed \ {c}
          /\ UNCHANGED healthy
      BY <1>5 DEF Failure, Land
    <2>2. next # "HALF_OPEN" /\ next \in {"CLOSED", "OPEN"}
      BY DEF AskedState, CircuitIInv, CircuitTypes
    <2>3. count \in 0..Threshold
      BY <1>1 DEF CircuitIInv, CircuitTypes
    <2>5. CircuitTypes'
      BY <2>1, <2>2, <2>3 DEF CircuitIInv, CircuitTypes
    <2>6. (next = "CLOSED") <=> (count < Threshold)
      BY <1>1 DEF AskedState, CircuitIInv, CircuitTypes, CountMatchesState
    <2>. QED  BY <2>1, <2>5, <2>6 DEF CircuitIInv, CountMatchesState
  <1>. QED  BY <1>2, <1>3, <1>4, <1>5

LEMMA CircuitNextIInv == CircuitIInv /\ [CircuitNext]_circuitVars => CircuitIInv'
  <1> SUFFICES ASSUME CircuitIInv, [CircuitNext]_circuitVars PROVE CircuitIInv'
    OBVIOUS
  <1>1. Threshold \in Nat \ {0}
    BY BreakerAssumption
  <1>2. CASE StatusRead
    BY <1>2 DEF StatusRead, AskedState, CircuitIInv, CircuitTypes, CountMatchesState
  <1>3. CASE Reset
    <2>1. 0 \in 0..Threshold /\ 0 < Threshold
      BY <1>1
    <2>2. CircuitTypes'
      BY <1>3, <2>1 DEF Reset, CircuitIInv, CircuitTypes
    <2>3. CountMatchesState'
      BY <1>3, <2>1 DEF Reset, CountMatchesState
    <2>. QED  BY <2>2, <2>3 DEF CircuitIInv
  <1>4. CASE Elapse \/ Break \/ Heal \/ UNCHANGED circuitVars
    BY <1>4 DEF Elapse, Break, Heal, circuitVars, CircuitIInv, CircuitTypes, CountMatchesState
  <1>. QED  BY <1>2, <1>3, <1>4, CircuitCallerSteps DEF CircuitNext

LEMMA CircuitSafe == CircuitSpec => []CircuitIInv
  <1>1. CircuitInit => CircuitIInv
    BY CircuitInitIInv
  <1>2. CircuitIInv /\ [CircuitNext]_circuitVars => CircuitIInv'
    BY CircuitNextIInv
  <1> QED
    BY <1>1, <1>2, PTL DEF CircuitSpec

\* Every variable of the circuit keeps its type, and only calls in flight can fail.
THEOREM CircuitTypeOK == CircuitSpec => []CircuitTypes
  <1>1. CircuitIInv => CircuitTypes
    BY DEF CircuitIInv
  <1> QED
    BY <1>1, CircuitSafe, PTL

\* The circuit is closed exactly while fewer than Threshold failures have followed
\* the last success, although outcomes of calls let through long ago are recorded in
\* any state, and recording itself may half-open the circuit.
THEOREM CircuitCountMatchesState == CircuitSpec => []CountMatchesState
  <1>1. CircuitIInv => CountMatchesState
    BY DEF CircuitIInv
  <1> QED
    BY <1>1, CircuitSafe, PTL

\* A circuit begins to refuse calls in one way: a call that it let through, and that the
\* provider's outage met, comes back, and with it the count is full.
OpensOnFailure ==
  ~IsOpen /\ IsOpen' => failures' = Threshold /\ \E c \in doomed : flight' = flight \ {c}

\* Circuits close by themselves, by a reset or by a success, but nothing except a recorded
\* failure opens them (recordFailure), and never one that is late for a circuit which was
\* closed meanwhile and has not failed often enough since: what ProviderFails,
\* ProviderOk and CircuitHalfOpens of the caller take for granted.
THEOREM CircuitOpensOnFailure == CircuitSpec => [][OpensOnFailure]_circuitVars
  <1>1. ASSUME CircuitIInv, [CircuitNext]_circuitVars, ~IsOpen, IsOpen'
        PROVE  failures' = Threshold /\ \E c \in doomed : flight' = flight \ {c}
    <2>1. CASE \E c \in Callers : Failure(c)
      <3>1. PICK c \in Callers : Failure(c)
        BY <2>1
      <3>2. c \in doomed /\ flight' = flight \ {c}
        BY <3>1 DEF Failure, Land
      <3>3. CircuitIInv'
        BY <1>1, CircuitNextIInv
      <3>4. state' = "OPEN" /\ failures' \in 0..Threshold /\ ~(failures' < Threshold)
        BY <1>1, <3>3 DEF IsOpen, CircuitIInv, CircuitTypes, CountMatchesState
      <3>5. failures' = Threshold
        BY <3>4, BreakerAssumption
      <3> QED
        BY <3>2, <3>5
    <2>2. ASSUME NEW c \in Callers, Admit(c) \/ Unrecorded(c) \/ Success(c) PROVE FALSE
      BY <1>1, <2>2 DEF Admit, Unrecorded, Success, IsOpen, AskedState
    <2>3. CASE StatusRead \/ Reset \/ Elapse \/ Break \/ Heal
      BY <1>1, <2>3 DEF StatusRead, Reset, Elapse, Break, Heal, IsOpen, AskedState
    <2>4. CASE UNCHANGED circuitVars
      BY <1>1, <2>4 DEF circuitVars, IsOpen
    <2> QED
      BY <1>1, <2>1, <2>2, <2>3, <2>4 DEF CircuitNext
  <1>2. CircuitIInv /\ [CircuitNext]_circuitVars => [OpensOnFailure]_circuitVars
    BY <1>1 DEF OpensOnFailure
  <1> QED
    BY <1>2, CircuitSafe, PTL DEF CircuitSpec
=============================================================================
