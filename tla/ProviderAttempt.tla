---------------------------- MODULE ProviderAttempt ----------------------------
(***************************************************************************)
(* runWithProviderAdmission (bots/hub/lib/llm/provider-attempt-admission): *)
(* a lease of the provider's scope is acquired, the provider is called     *)
(* under it, and the lease is released, with every wait bounded by the     *)
(* deadline: a lease granted after the abort is released late, a provider  *)
(* that does not stop within the grace period keeps its lease in           *)
(* quarantine until it does, and a release is awaited for a bounded time.  *)
(*                                                                         *)
(* The shared limiter is seen through its promise, LeasePool: a slot is    *)
(* granted while one is free, comes back when released, and may lapse      *)
(* under its holder.  Each promise (acquire, execute, release) settles on  *)
(* its own; each continuation of the function is a step.                   *)
(***************************************************************************)
EXTENDS Integers, FiniteSets

CONSTANTS
  Calls,   \* calls of runWithProviderAdmission for one provider
  Limit    \* slots of the provider's scope

ASSUME AttemptAssumption == Limit \in Nat /\ IsFiniteSet(Calls)

VARIABLES
  holders,  \* calls whose lease occupies a slot
  pc,       \* where each call stands
  grant,    \* its acquire promise
  work,     \* its execute promise: the provider's work
  give,     \* its lease.release() promise
  aborted,  \* deadlineSignal or attemptSignal has fired
  lost,     \* leaseSignal has fired or isValid() is FALSE
  answer,   \* what the function returned (or will return after the release)
  lapsed    \* history: calls whose slot expired under them

vars == <<holders, pc, grant, work, give, aborted, lost, answer, lapsed>>

Pool == INSTANCE LeasePool WITH Clients <- Calls

\* admitted: lease in hand, execution not started   grace: abort seen, timer set
\* releasing: awaiting releaseLeaseBounded
PCs == {"new", "acquiring", "admitted", "executing", "grace", "releasing", "answered"}
Answers == {"none", "timeout", "rejected", "acquire_failed", "unconfirmed", "lease_lost",
            "ok", "failed", "ok_uncertain", "release_failed"}

Init ==
  /\ holders = {}
  /\ pc = [c \in Calls |-> "new"]
  /\ grant = [c \in Calls |-> "none"]
  /\ work = [c \in Calls |-> "none"]
  /\ give = [c \in Calls |-> "none"]
  /\ aborted = [c \in Calls |-> FALSE]
  /\ lost = [c \in Calls |-> FALSE]
  /\ answer = [c \in Calls |-> "none"]
  /\ lapsed = {}

Goto(c, p) == pc' = [pc EXCEPT ![c] = p]
Answer(c, a) == answer' = [answer EXCEPT ![c] = a]

\* lease.release() is called; it settles in ReleaseDone or ReleaseFails.
StartRelease(c) == give' = [give EXCEPT ![c] = "pending"]

-----------------------------------------------------------------------------
\* Admission: acquireBeforeAbort.

Begin(c) ==
  /\ pc[c] = "new"
  /\ grant' = [grant EXCEPT ![c] = "pending"]
  /\ Goto(c, "acquiring")
  /\ UNCHANGED <<holders, work, give, aborted, lost, answer, lapsed>>

\* The signal has fired before the limiter answered: the call returns.  From the
\* moment it fires the limiter's answer is left to releaseLateLease.
AdmissionTimeout(c) ==
  /\ pc[c] = "acquiring"
  /\ aborted[c]
  /\ Answer(c, "timeout")
  /\ Goto(c, "answered")
  /\ UNCHANGED <<holders, grant, work, give, aborted, lost, lapsed>>

\* The limiter grants a lease the call still waits for.
LeaseGranted(c) ==
  /\ ~aborted[c]
  /\ grant[c] = "pending"
  /\ Pool!Take(c)
  /\ grant' = [grant EXCEPT ![c] = "granted"]
  /\ Goto(c, "admitted")
  /\ UNCHANGED <<work, give, aborted, lost, answer, lapsed>>

\* Mutant of LeaseGrantedLate: nobody listens to the abandoned promise.
LeaseGrantedUnheard(c) ==
  /\ aborted[c]
  /\ grant[c] = "pending"
  /\ Pool!Take(c)
  /\ grant' = [grant EXCEPT ![c] = "granted"]
  /\ UNCHANGED <<pc, work, give, aborted, lost, answer, lapsed>>

\* releaseLateLease: granted after the signal fired, released at once.
LeaseGrantedLate(c) ==
  /\ aborted[c]
  /\ grant[c] = "pending"
  /\ Pool!Take(c)
  /\ grant' = [grant EXCEPT ![c] = "granted"]
  /\ StartRelease(c)
  /\ UNCHANGED <<pc, work, aborted, lost, answer, lapsed>>

\* The limiter refuses (full, lost in validation) or throws.
LeaseRefused(c) ==
  /\ grant[c] = "pending"
  /\ grant' = [grant EXCEPT ![c] = "refused"]
  /\ IF ~aborted[c]
     THEN /\ \E a \in {"rejected", "acquire_failed"} : Answer(c, a)
          /\ Goto(c, "answered")
     ELSE UNCHANGED <<pc, answer>>
  /\ UNCHANGED <<holders, work, give, aborted, lost, lapsed>>

-----------------------------------------------------------------------------
\* Execution: the provider's work under the lease.

Execute(c) ==
  /\ pc[c] = "admitted"
  /\ ~aborted[c]
  /\ work' = [work EXCEPT ![c] = "running"]
  /\ Goto(c, "executing")
  /\ UNCHANGED <<holders, grant, give, aborted, lost, answer, lapsed>>

\* The signal fired between the grant and the execution: the provider is not called.
AbortedBeforeExecution(c) ==
  /\ pc[c] = "admitted"
  /\ aborted[c]
  /\ Answer(c, "timeout")
  /\ StartRelease(c)
  /\ Goto(c, "releasing")
  /\ UNCHANGED <<holders, grant, work, aborted, lost, lapsed>>

\* Mutant of AbortSeen: the abort counts as the end of the provider's work.
AbortTrusted(c) ==
  /\ pc[c] = "executing"
  /\ aborted[c] \/ lost[c]
  /\ work[c] = "running"
  /\ Answer(c, "timeout")
  /\ StartRelease(c)
  /\ Goto(c, "releasing")
  /\ UNCHANGED <<holders, grant, work, aborted, lost, lapsed>>

\* waitForExecutionSettlement: executionSignal fires first, the grace timer starts.
AbortSeen(c) ==
  /\ pc[c] = "executing"
  /\ aborted[c] \/ lost[c]
  /\ work[c] = "running"
  /\ Goto(c, "grace")
  /\ UNCHANGED <<holders, grant, work, give, aborted, lost, answer, lapsed>>

\* What the settled work, the signals and the lease amount to.
Outcome(c) ==
  CASE aborted[c] -> "timeout"
    [] ~aborted[c] /\ lost[c] -> "lease_lost"
    [] OTHER -> work[c]

\* The execution settled in time: its outcome is fixed and the lease released.
Settled(c) ==
  /\ pc[c] \in {"executing", "grace"}
  /\ work[c] \in {"ok", "failed"}
  /\ Answer(c, Outcome(c))
  /\ StartRelease(c)
  /\ Goto(c, "releasing")
  /\ UNCHANGED <<holders, grant, work, aborted, lost, lapsed>>

\* Mutant of GraceExpires: the unconfirmed provider's lease is released at once.
GraceReleases(c) ==
  /\ pc[c] = "grace"
  /\ work[c] = "running"
  /\ Answer(c, "unconfirmed")
  /\ StartRelease(c)
  /\ Goto(c, "answered")
  /\ UNCHANGED <<holders, grant, work, aborted, lost, lapsed>>

\* Mutant of GraceExpires: no grace timer.
GraceWaits(c) ==
  /\ pc[c] = "grace"
  /\ work[c] # "running"
  /\ UNCHANGED vars

\* The grace timer fires: answered as unconfirmed, the lease stays in quarantine.
GraceExpires(c) ==
  /\ pc[c] = "grace"
  /\ work[c] = "running"
  /\ Answer(c, "unconfirmed")
  /\ Goto(c, "answered")
  /\ UNCHANGED <<holders, grant, work, give, aborted, lost, lapsed>>

\* Mutant of QuarantineEnds: the quarantined lease is forgotten.
QuarantineForgets(c) ==
  /\ answer[c] = "unconfirmed"
  /\ work[c] \in {"ok", "failed"}
  /\ UNCHANGED vars

\* releaseQuarantinedLeaseWhenSettled.
QuarantineEnds(c) ==
  /\ answer[c] = "unconfirmed"
  /\ work[c] \in {"ok", "failed"}
  /\ give[c] = "none"
  /\ StartRelease(c)
  /\ UNCHANGED <<holders, pc, grant, work, aborted, lost, answer, lapsed>>

-----------------------------------------------------------------------------
\* The release: releaseLeaseBounded.

\* What is returned when the release failed or timed out.
Uncertain(a) == IF a = "ok" THEN "ok_uncertain" ELSE "release_failed"

Released(c) ==
  /\ pc[c] = "releasing"
  /\ give[c] = "done"
  /\ Goto(c, "answered")
  /\ UNCHANGED <<holders, grant, work, give, aborted, lost, answer, lapsed>>

\* Mutant of ReleaseUncertain: the failed release is not reported.
ReleaseAssumed(c) ==
  /\ pc[c] = "releasing"
  /\ give[c] \in {"pending", "failed"}
  /\ Goto(c, "answered")
  /\ UNCHANGED <<holders, grant, work, give, aborted, lost, answer, lapsed>>

\* The release rejected, or its timer fired first (it goes on in the background).
ReleaseUncertain(c) ==
  /\ pc[c] = "releasing"
  /\ give[c] \in {"pending", "failed"}
  /\ Answer(c, Uncertain(answer[c]))
  /\ Goto(c, "answered")
  /\ UNCHANGED <<holders, grant, work, give, aborted, lost, lapsed>>

-----------------------------------------------------------------------------
\* What the surroundings do.

\* deadlineSignal or attemptSignal fires.
Abort(c) ==
  /\ pc[c] \in {"acquiring", "admitted", "executing", "grace"}
  /\ ~aborted[c]
  /\ aborted' = [aborted EXCEPT ![c] = TRUE]
  /\ UNCHANGED <<holders, pc, grant, work, give, lost, answer, lapsed>>

\* The provider's work ends, aborted or not.
WorkEnds(c) ==
  /\ work[c] = "running"
  /\ \E end \in {"ok", "failed"} : work' = [work EXCEPT ![c] = end]
  /\ UNCHANGED <<holders, pc, grant, give, aborted, lost, answer, lapsed>>

\* A renewal fails or finds the row gone: the lease is invalidated.
LeaseInvalidated(c) ==
  /\ grant[c] = "granted"
  /\ give[c] = "none"
  /\ ~lost[c]
  /\ lost' = [lost EXCEPT ![c] = TRUE]
  /\ UNCHANGED <<holders, pc, grant, work, give, aborted, answer, lapsed>>

\* The lease's row expires.
LeaseLapses(c) ==
  /\ Pool!Give(c)
  /\ lapsed' = lapsed \cup {c}
  /\ UNCHANGED <<pc, grant, work, give, aborted, lost, answer>>

\* lease.release() resolves: the slot is free.
ReleaseDone(c) ==
  /\ give[c] = "pending"
  /\ give' = [give EXCEPT ![c] = "done"]
  /\ holders' = holders \ {c}
  /\ UNCHANGED <<pc, grant, work, aborted, lost, answer, lapsed>>

\* It throws; its last attempt may have freed the slot all the same.
ReleaseFails(c) ==
  /\ give[c] = "pending"
  /\ give' = [give EXCEPT ![c] = "failed"]
  /\ holders' \in {holders, holders \ {c}}
  /\ UNCHANGED <<pc, grant, work, aborted, lost, answer, lapsed>>

-----------------------------------------------------------------------------
\* The continuations of the function once what they wait for is there.
Continue(c) ==
  \/ Begin(c)
  \/ AdmissionTimeout(c)
  \/ Execute(c)
  \/ AbortedBeforeExecution(c)
  \/ AbortSeen(c)
  \/ Settled(c)
  \/ GraceExpires(c)
  \/ QuarantineEnds(c)
  \/ Released(c)
  \/ ReleaseUncertain(c)

Surroundings(c) ==
  \/ LeaseGranted(c)
  \/ LeaseGrantedLate(c)
  \/ LeaseRefused(c)
  \/ Abort(c)
  \/ WorkEnds(c)
  \/ LeaseInvalidated(c)
  \/ LeaseLapses(c)
  \/ ReleaseDone(c)
  \/ ReleaseFails(c)

Next == \E c \in Calls : Continue(c) \/ Surroundings(c)

\* A lease that is no longer renewed: released (however that ended) or invalidated.
Unrenewed(c) == give[c] # "none" \/ lost[c]

\* Continuations run, the deadline fires, and a row nobody renews expires.
\* Nothing makes the limiter answer, a release settle or the provider's work end.
Fairness == \A c \in Calls :
  /\ WF_vars(Continue(c))
  /\ WF_vars(Abort(c))
  /\ WF_vars(Unrenewed(c) /\ LeaseLapses(c))

Spec == Init /\ [][Next]_vars
FairSpec == Spec /\ Fairness

-----------------------------------------------------------------------------
\* Every variable has its type.
TypeOK ==
  /\ holders \subseteq Calls
  /\ pc \in [Calls -> PCs]
  /\ grant \in [Calls -> {"none", "pending", "granted", "refused"}]
  /\ work \in [Calls -> {"none", "running", "ok", "failed"}]
  /\ give \in [Calls -> {"none", "pending", "done", "failed"}]
  /\ aborted \in [Calls -> BOOLEAN]
  /\ lost \in [Calls -> BOOLEAN]
  /\ answer \in [Calls -> Answers]
  /\ lapsed \subseteq Calls

\* The provider's work under leases that have not expired.
Busy == {c \in Calls \ lapsed : work[c] = "running"}

\* The code never gives a slot back while the provider still works for it, however
\* the call ended: only an expiry takes the slot away from running work.
WorkKeepsSlot == Busy \subseteq holders

\* So the work itself obeys the limit: each execution starts with a slot free, as
\* LeasePool says of its clients.
WorkPool == INSTANCE LeasePool WITH Clients <- Calls, holders <- Busy
WorkLimited == WorkPool!Spec

\* After the answer a slot is still taken only for a known reason: the provider's
\* work runs or its end is about to be heard, or a release is on its way or failed.
NoForgottenLease == \A c \in holders :
  pc[c] = "answered" => \/ give[c] \in {"pending", "failed"}
                        \/ answer[c] = "unconfirmed" /\ give[c] = "none"

\* A plain result is final: no work is left running behind it and, unless it says
\* that the release is uncertain, its slot is free.
PlainAnswerIsFinal == \A c \in Calls :
  pc[c] = "answered" /\ answer[c] # "unconfirmed" =>
    /\ work[c] # "running"
    /\ answer[c] \in {"ok", "failed", "lease_lost"} => c \notin holders

\* Every call is answered, even if limiter, provider and release never settle.
CallAnswered == \A c \in Calls : pc[c] = "acquiring" ~> pc[c] = "answered"

\* A slot comes back unless the provider's work keeps running: late grants, failed
\* releases and lost leases free it in the end.
SlotComesBack == \A c \in Calls :
  c \in holders ~> (c \notin holders \/ work[c] = "running")
=============================================================================
