------------------------- MODULE ProviderAttempt_proofs -------------------------
(***************************************************************************)
(* For any number of calls and slots: the slot stays with its call while   *)
(* the provider works for it, the work itself obeys the limit, and no      *)
(* lease is left behind by a call that has answered.                       *)
(***************************************************************************)
EXTENDS ProviderAttempt, FiniteSetTheorems, TLAPS

\* The call has a slot, or had one until it expired.
Covered(c) == c \in holders \/ c \in lapsed

\* What the three promises have come to, as far as the function has got.
Promises(c) ==
  /\ pc[c] = "new" => grant[c] = "none"
  /\ grant[c] = "pending" => pc[c] \in {"acquiring", "answered"}
  /\ grant[c] # "granted" => c \notin holders /\ give[c] = "none"
  /\ pc[c] \in {"admitted", "executing", "grace"} =>
       grant[c] = "granted" /\ give[c] = "none" /\ Covered(c)
  /\ pc[c] = "acquiring" /\ grant[c] = "granted" => give[c] # "none"
  /\ pc[c] = "releasing" => grant[c] = "granted" /\ give[c] # "none"
  /\ pc[c] = "answered" /\ grant[c] = "pending" => aborted[c]
  /\ give[c] = "done" => c \notin holders

\* Work runs only before the outcome is fixed, or behind an unconfirmed answer.
Work(c) ==
  /\ pc[c] \in {"new", "acquiring", "admitted"} => work[c] = "none"
  /\ work[c] = "running" =>
       /\ pc[c] \in {"executing", "grace"} \/ answer[c] = "unconfirmed"
       /\ grant[c] = "granted" /\ give[c] = "none" /\ Covered(c)

\* What an answer says of work and lease.
Said(c) ==
  /\ pc[c] \notin {"releasing", "answered"} => answer[c] = "none"
  /\ pc[c] = "releasing" => answer[c] \in {"timeout", "lease_lost", "ok", "failed"}
  /\ answer[c] = "unconfirmed" => grant[c] = "granted"
  /\ pc[c] = "answered" /\ answer[c] \in {"ok", "failed", "lease_lost"} => give[c] = "done"
  /\ pc[c] = "answered" /\ c \in holders =>
       \/ give[c] \in {"pending", "failed"}
       \/ answer[c] = "unconfirmed" /\ give[c] = "none"

Good(c) == Promises(c) /\ Work(c) /\ Said(c)

WithinLimit == IsFiniteSet(holders) /\ Cardinality(holders) <= Limit

IInv == TypeOK /\ WithinLimit /\ \A c \in Calls : Good(c)

-----------------------------------------------------------------------------
\* The instances of LeasePool count as this module does.
LEMMA InstanceCardinality ==
  \A S : Pool!Cardinality(S) = Cardinality(S) /\ WorkPool!Cardinality(S) = Cardinality(S)
  BY DEF Cardinality, Pool!Cardinality, WorkPool!Cardinality

LEMMA InitIInv == Init => IInv
  <1> SUFFICES ASSUME Init PROVE IInv
    OBVIOUS
  <1>1. TypeOK
    BY DEF Init, TypeOK, PCs, Answers
  <1>2. WithinLimit
    BY FS_EmptySet, AttemptAssumption DEF Init, WithinLimit
  <1>3. \A c \in Calls : Good(c)
    BY DEF Init, Good, Promises, Work, Said, Covered
  <1>. QED  BY <1>1, <1>2, <1>3 DEF IInv

\* The slots held only change by one call's grant, while one is free, or by its
\* loss.
LEMMA SlotChanges ==
  ASSUME IInv, NEW c \in Calls, Continue(c) \/ Surroundings(c)
  PROVE  /\ WithinLimit'
         /\ holders' \subseteq holders \cup {c}
         /\ holders \ {c} \subseteq holders'
  <1>1. \/ holders' = holders
        \/ holders' = holders \ {c}
        \/ c \notin holders /\ Cardinality(holders) < Limit /\ holders' = holders \cup {c}
    <2>1. CASE Continue(c)
      BY <2>1 DEF Continue, Begin, AdmissionTimeout, Execute, AbortedBeforeExecution, AbortSeen,
           Settled, GraceExpires, QuarantineEnds, Released, ReleaseUncertain
    <2>2. CASE LeaseGranted(c) \/ LeaseGrantedLate(c) \/ LeaseLapses(c)
      BY <2>2, InstanceCardinality DEF LeaseGranted, LeaseGrantedLate, LeaseLapses, Pool!Take, Pool!Give
    <2>3. CASE LeaseRefused(c) \/ Abort(c) \/ WorkEnds(c) \/ LeaseInvalidated(c)
      BY <2>3 DEF LeaseRefused, Abort, WorkEnds, LeaseInvalidated
    <2>4. CASE ReleaseDone(c) \/ ReleaseFails(c)
      BY <2>4 DEF ReleaseDone, ReleaseFails
    <2>. QED  BY <2>1, <2>2, <2>3, <2>4 DEF Surroundings
  <1>2. IsFiniteSet(holders) /\ Cardinality(holders) \in Nat /\ Cardinality(holders) <= Limit
    BY FS_CardinalityType DEF IInv, WithinLimit
  <1>3. CASE holders' = holders
    BY <1>2, <1>3 DEF WithinLimit
  <1>4. CASE holders' = holders \ {c}
    <2>1. IsFiniteSet(holders') /\ Cardinality(holders') <= Cardinality(holders)
      BY <1>2, <1>4, FS_Subset
    <2>2. Cardinality(holders') \in Nat
      BY <2>1, FS_CardinalityType
    <2>. QED  BY <1>2, <1>4, <2>1, <2>2, AttemptAssumption DEF WithinLimit
  <1>5. CASE c \notin holders /\ Cardinality(holders) < Limit /\ holders' = holders \cup {c}
    <2>1. IsFiniteSet(holders') /\ Cardinality(holders') = Cardinality(holders) + 1
      BY <1>2, <1>5, FS_AddElement
    <2>. QED  BY <1>2, <1>5, <2>1, AttemptAssumption DEF WithinLimit
  <1>. QED  BY <1>1, <1>3, <1>4, <1>5

\* A step of one call leaves what is said of the others as it is.
LEMMA OthersUndisturbed ==
  ASSUME IInv, NEW c \in Calls, NEW d \in Calls, d # c, Good(d),
         Continue(c) \/ Surroundings(c)
  PROVE  Good(d)'
  <1>1. /\ pc'[d] = pc[d] /\ grant'[d] = grant[d] /\ work'[d] = work[d] /\ give'[d] = give[d]
        /\ aborted'[d] = aborted[d] /\ answer'[d] = answer[d]
        /\ d \in lapsed' <=> d \in lapsed
    BY DEF IInv, TypeOK, Goto, Answer, StartRelease, Continue, Begin, AdmissionTimeout, Execute,
           AbortedBeforeExecution, AbortSeen, Settled, GraceExpires, QuarantineEnds, Released,
           ReleaseUncertain, Surroundings, LeaseGranted, LeaseGrantedLate, LeaseRefused, Abort,
           WorkEnds, LeaseInvalidated, LeaseLapses, ReleaseDone, ReleaseFails
  <1>2. d \in holders' <=> d \in holders
    BY SlotChanges
  <1>. QED  BY <1>1, <1>2 DEF Good, Promises, Work, Said, Covered

-----------------------------------------------------------------------------
\* The continuations of the function keep what is said of their own call.
LEMMA ContinueGood ==
  ASSUME IInv, NEW c \in Calls, Continue(c)
  PROVE  TypeOK' /\ Good(c)'
  <1>1. TypeOK /\ Good(c)
    BY DEF IInv
  <1>2. CASE Begin(c)
    BY <1>1, <1>2 DEF Begin, Goto, TypeOK, PCs, Good, Promises, Work, Said, Covered
  <1>3. CASE AdmissionTimeout(c)
    BY <1>1, <1>3 DEF AdmissionTimeout, Goto, Answer, TypeOK, PCs, Answers, Good, Promises, Work, Said, Covered
  <1>4. CASE Execute(c)
    BY <1>1, <1>4 DEF Execute, Goto, TypeOK, PCs, Good, Promises, Work, Said, Covered
  <1>5. CASE AbortedBeforeExecution(c)
    BY <1>1, <1>5 DEF AbortedBeforeExecution, Goto, Answer, StartRelease, TypeOK, PCs, Answers,
                      Good, Promises, Work, Said, Covered
  <1>6. CASE AbortSeen(c)
    BY <1>1, <1>6 DEF AbortSeen, Goto, TypeOK, PCs, Good, Promises, Work, Said, Covered
  <1>7. CASE Settled(c)
    <2>1. Outcome(c) \in {"timeout", "lease_lost", "ok", "failed"}
      BY <1>7 DEF Settled, Outcome
    <2>. QED  BY <1>1, <1>7, <2>1 DEF Settled, Goto, Answer, StartRelease, TypeOK, PCs, Answers,
                      Good, Promises, Work, Said, Covered
  <1>8. CASE GraceExpires(c)
    BY <1>1, <1>8 DEF GraceExpires, Goto, Answer, TypeOK, PCs, Answers, Good, Promises, Work, Said, Covered
  <1>9. CASE QuarantineEnds(c)
    BY <1>1, <1>9 DEF QuarantineEnds, StartRelease, TypeOK, PCs, Good, Promises, Work, Said, Covered
  <1>10. CASE Released(c)
    BY <1>1, <1>10 DEF Released, Goto, TypeOK, PCs, Good, Promises, Work, Said, Covered
  <1>11. CASE ReleaseUncertain(c)
    <2>1. Uncertain(answer[c]) \in {"ok_uncertain", "release_failed"}
      BY DEF Uncertain
    <2>. QED  BY <1>1, <1>11, <2>1 DEF ReleaseUncertain, Goto, Answer, TypeOK, PCs, Answers,
                      Good, Promises, Work, Said, Covered
  <1>. QED  BY <1>2, <1>3, <1>4, <1>5, <1>6, <1>7, <1>8, <1>9, <1>10, <1>11 DEF Continue

\* So do limiter, deadline, provider and release, in whatever order they come.
LEMMA SurroundingsGood ==
  ASSUME IInv, NEW c \in Calls, Surroundings(c)
  PROVE  TypeOK' /\ Good(c)'
  <1>1. TypeOK /\ Good(c)
    BY DEF IInv
  <1>2. CASE LeaseGranted(c)
    BY <1>1, <1>2 DEF LeaseGranted, Pool!Take, Goto, TypeOK, PCs, Good, Promises, Work, Said, Covered
  <1>3. CASE LeaseGrantedLate(c)
    BY <1>1, <1>3 DEF LeaseGrantedLate, Pool!Take, StartRelease, TypeOK, PCs, Good, Promises, Work, Said, Covered
  <1>4. CASE LeaseRefused(c)
    BY <1>1, <1>4 DEF LeaseRefused, Goto, Answer, TypeOK, PCs, Answers, Good, Promises, Work, Said, Covered
  <1>5. CASE Abort(c)
    BY <1>1, <1>5 DEF Abort, TypeOK, PCs, Good, Promises, Work, Said, Covered
  <1>6. CASE WorkEnds(c)
    BY <1>1, <1>6 DEF WorkEnds, TypeOK, PCs, Good, Promises, Work, Said, Covered
  <1>7. CASE LeaseInvalidated(c)
    BY <1>1, <1>7 DEF LeaseInvalidated, TypeOK, Good, Promises, Work, Said, Covered
  <1>8. CASE LeaseLapses(c)
    BY <1>1, <1>8 DEF LeaseLapses, Pool!Give, TypeOK, Good, Promises, Work, Said, Covered
  <1>9. CASE ReleaseDone(c)
    BY <1>1, <1>9 DEF ReleaseDone, TypeOK, Good, Promises, Work, Said, Covered
  <1>10. CASE ReleaseFails(c)
    BY <1>1, <1>10 DEF ReleaseFails, TypeOK, Good, Promises, Work, Said, Covered
  <1>. QED  BY <1>2, <1>3, <1>4, <1>5, <1>6, <1>7, <1>8, <1>9, <1>10 DEF Surroundings

LEMMA NextIInv == IInv /\ [Next]_vars => IInv'
  <1> SUFFICES ASSUME IInv, [Next]_vars PROVE IInv'
    OBVIOUS
  <1>1. CASE UNCHANGED vars
    BY <1>1 DEF vars, IInv, TypeOK, WithinLimit, Good, Promises, Work, Said, Covered
  <1>2. ASSUME NEW c \in Calls, Continue(c) \/ Surroundings(c)
        PROVE  IInv'
    <2>1. TypeOK' /\ Good(c)'
      BY <1>2, ContinueGood, SurroundingsGood
    <2>2. \A d \in Calls : d # c => Good(d)'
      BY <1>2, OthersUndisturbed DEF IInv
    <2>3. WithinLimit'
      BY <1>2, SlotChanges
    <2>. QED  BY <2>1, <2>2, <2>3 DEF IInv
  <1>. QED  BY <1>1, <1>2 DEF Next

LEMMA InvariantHolds == Spec => []IInv
  BY InitIInv, NextIInv, PTL DEF Spec

-----------------------------------------------------------------------------
\* Every variable keeps its type.
THEOREM AttemptTypeOK == Spec => []TypeOK
  <1>1. IInv => TypeOK
    BY DEF IInv
  <1>. QED  BY <1>1, InvariantHolds, PTL

\* runWithProviderAdmission gives a slot back only once the provider's work under it
\* has settled: only an expiry takes the slot away from running work.
THEOREM AttemptWorkKeepsSlot == Spec => []WorkKeepsSlot
  <1>1. IInv => WorkKeepsSlot
    BY DEF IInv, Good, Work, Covered, WorkKeepsSlot, Busy
  <1>. QED  BY <1>1, InvariantHolds, PTL

\* No call that has answered leaves a slot taken without a release on its way, a
\* failed release or work still running in quarantine.
THEOREM AttemptNoForgottenLease == Spec => []NoForgottenLease
  <1>1. IInv => NoForgottenLease
    BY DEF IInv, TypeOK, Good, Said, NoForgottenLease
  <1>. QED  BY <1>1, InvariantHolds, PTL

\* Behind an answer other than unconfirmed no work runs, and an answer that does not
\* say otherwise has freed the slot.
THEOREM AttemptPlainAnswerIsFinal == Spec => []PlainAnswerIsFinal
  <1>1. IInv => PlainAnswerIsFinal
    BY DEF IInv, Good, Promises, Work, Said, PlainAnswerIsFinal
  <1>. QED  BY <1>1, InvariantHolds, PTL

-----------------------------------------------------------------------------
\* Starting work takes a free slot of the pool of work.
LEMMA ExecuteTakes ==
  ASSUME IInv, NEW c \in Calls, Execute(c), c \notin lapsed
  PROVE  WorkPool!Take(c)
  <1>1. c \in holders /\ work[c] = "none"
    BY DEF Execute, IInv, Good, Promises, Work, Covered
  <1>2. c \notin Busy /\ Busy' = Busy \cup {c}
    BY <1>1 DEF Execute, Busy, IInv, TypeOK
  <1>3. Busy \subseteq holders \ {c}
    BY <1>2 DEF IInv, Good, Work, Covered, Busy
  <1>4. /\ IsFiniteSet(holders \ {c}) /\ Cardinality(holders \ {c}) = Cardinality(holders) - 1
        /\ Cardinality(holders) \in Nat /\ Cardinality(holders) <= Limit
    BY <1>1, FS_RemoveElement, FS_CardinalityType DEF IInv, WithinLimit
  <1>5. IsFiniteSet(Busy) /\ Cardinality(Busy) <= Cardinality(holders \ {c})
    BY <1>3, <1>4, FS_Subset
  <1>6. Cardinality(Busy) \in Nat
    BY <1>5, FS_CardinalityType
  <1>7. Cardinality(Busy) < Limit
    BY <1>4, <1>5, <1>6, AttemptAssumption
  <1>. QED  BY <1>2, <1>7, InstanceCardinality DEF WorkPool!Take

\* The provider's work under unexpired leases is itself a LeasePool: whatever the
\* calls and their surroundings do, no more of it runs than there are slots.
THEOREM AttemptWorkLimited == Spec => WorkLimited
  <1>1. Init => WorkPool!Init
    BY DEF Init, WorkPool!Init, Busy
  <1>2. ASSUME IInv, [Next]_vars
        PROVE  [WorkPool!Next]_Busy
    <2>1. CASE UNCHANGED vars
      BY <2>1 DEF vars, Busy
    <2>2. ASSUME NEW c \in Calls, Continue(c) \/ Surroundings(c)
          PROVE  [WorkPool!Next]_Busy
      <3>1. CASE Execute(c) /\ c \notin lapsed
        BY <1>2, <3>1, ExecuteTakes DEF WorkPool!Next
      <3>2. CASE Execute(c) /\ c \in lapsed
        BY <1>2, <3>2 DEF Execute, Busy, IInv, TypeOK
      <3>3. CASE WorkEnds(c)
        <4>1. Busy' = Busy \ {c}
          BY <1>2, <3>3 DEF WorkEnds, Busy, IInv, TypeOK
        <4>. QED  BY <4>1 DEF WorkPool!Next, WorkPool!Give
      <3>4. CASE LeaseLapses(c)
        <4>1. Busy' = Busy \ {c}
          BY <1>2, <3>4 DEF LeaseLapses, Busy, IInv, TypeOK
        <4>. QED  BY <4>1 DEF WorkPool!Next, WorkPool!Give
      <3>5. CASE \/ Begin(c) \/ AdmissionTimeout(c) \/ AbortedBeforeExecution(c) \/ AbortSeen(c)
                 \/ Settled(c) \/ GraceExpires(c) \/ QuarantineEnds(c) \/ Released(c)
                 \/ ReleaseUncertain(c) \/ LeaseGranted(c) \/ LeaseGrantedLate(c)
                 \/ LeaseRefused(c) \/ Abort(c) \/ LeaseInvalidated(c) \/ ReleaseDone(c)
                 \/ ReleaseFails(c)
        <4>1. work' = work /\ lapsed' = lapsed
          BY <3>5 DEF Begin, AdmissionTimeout, AbortedBeforeExecution, AbortSeen, Settled,
               GraceExpires, QuarantineEnds, Released, ReleaseUncertain, LeaseGranted,
               LeaseGrantedLate, LeaseRefused, Abort, LeaseInvalidated, ReleaseDone, ReleaseFails
        <4>. QED  BY <4>1 DEF Busy
      <3>. QED  BY <2>2, <3>1, <3>2, <3>3, <3>4, <3>5 DEF Continue, Surroundings
    <2>. QED  BY <1>2, <2>1, <2>2 DEF Next
  <1>. QED  BY <1>1, <1>2, InvariantHolds, PTL DEF Spec, WorkLimited, WorkPool!Spec
=============================================================================
