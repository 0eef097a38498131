------------------------------ MODULE LlmJobStore ------------------------------
(***************************************************************************)
(* The asynchronous LLM jobs of the Hub (bots/hub/lib/llm/job-store.ts)    *)
(* with the PostgreSQL store: a job is written as queued, scheduled in the *)
(* process that created it, executed, and either finished or put back to   *)
(* queued with a retry timer.  Every read and write of the store is        *)
(* awaited: it may fail, a write also after it has taken effect, and the   *)
(* process may die in between.  What is scheduled lives in memory only.    *)
(*                                                                         *)
(* A run is one scheduleJob: its setImmediate, its processJob and, when    *)
(* that rejects, the handler that marks the job failed.                    *)
(***************************************************************************)
EXTENDS Integers, FiniteSets

CONSTANTS
  Jobs,         \* job identities (ids are never reused)
  Runs,         \* identities for runs and retry timers, reused when over
  NoJob,        \* the job of an unused run
  MaxAttempts,  \* bound: backpressure answers stop after so many executions
  MaxFaults,    \* bound: failing store statements
  MaxCrashes    \* bound: deaths of the Hub process

ASSUME JobAssumption ==
  /\ NoJob \notin Jobs
  /\ MaxAttempts \in Nat \ {0}
  /\ MaxFaults \in Nat
  /\ MaxCrashes \in Nat

VARIABLES
  status,    \* the stored status of each job, "absent" before it is written
  attempts,  \* the stored attempts
  active,    \* activeJobs of the process
  run,       \* run -> [job, pc, seen, copy, stored]: seen is the attempts in the
             \* record processJob read, copy those in the record updateJob read, and
             \* stored says that the awaited write has taken effect
  calls,     \* history: executions begun for each job
  faults,    \* statements that have failed
  crashes    \* deaths so far

vars == <<status, attempts, active, run, calls, faults, crashes>>

\* creating: awaiting createLlmJob's write   timer: the retry's setTimeout
\* scheduled: setImmediate pending            reading: awaiting readJob
\* calling: awaiting callWithFallback         answering: awaiting the closing readJob
Updating == {"marking", "requeueing", "completing", "refusing", "failing"}  \* in updateJob
PCs == {"free", "creating", "timer", "scheduled", "reading", "calling", "answering"} \cup Updating

\* The status each write stores.
Patch == {<<"creating", "queued">>, <<"marking", "running">>, <<"requeueing", "queued">>,
          <<"completing", "completed">>, <<"refusing", "failed">>, <<"failing", "failed">>}

NoCopy == MaxAttempts + 1   \* no record to write back

RunOf(j, pc) == [job |-> j, pc |-> pc, seen |-> 0, copy |-> NoCopy, stored |-> FALSE]
Idle == RunOf(NoJob, "free")

Terminal == {"completed", "failed"}

Init ==
  /\ status = [j \in Jobs |-> "absent"]
  /\ attempts = [j \in Jobs |-> 0]
  /\ active = {}
  /\ run = [r \in Runs |-> Idle]
  /\ calls = [j \in Jobs |-> 0]
  /\ faults = 0
  /\ crashes = 0

JobOf(r) == run[r].job
At(r, pc) == run[r].pc = pc
Move(r, pc) == run' = [run EXCEPT ![r].pc = pc, ![r].copy = NoCopy, ![r].stored = FALSE]
Over(r) == run' = [run EXCEPT ![r] = Idle]

Copied(r) == run[r].copy # NoCopy
Stored(r) == run[r].stored

-----------------------------------------------------------------------------
\* createLlmJob awaits the write of the new record.
Create(j) ==
  /\ status[j] = "absent"
  /\ \A r \in Runs : JobOf(r) # j
  /\ \E r \in Runs : At(r, "free") /\ run' = [run EXCEPT ![r] = [RunOf(j, "creating") EXCEPT !.copy = 0]]
  /\ UNCHANGED <<status, attempts, active, calls, faults, crashes>>

\* The record is written and scheduleJob arms the setImmediate.
Created(r) ==
  /\ At(r, "creating")
  /\ Stored(r)
  /\ Move(r, "scheduled")
  /\ UNCHANGED <<status, attempts, active, calls, faults, crashes>>

\* processJob starts: an active job is only read, and the run is over.
Start(r) ==
  /\ At(r, "scheduled")
  /\ IF JobOf(r) \in active THEN Over(r) ELSE Move(r, "reading")
  /\ UNCHANGED <<status, attempts, active, calls, faults, crashes>>

\* readJob answers: a finished job is left alone, another becomes active.
Read(r) ==
  LET j == JobOf(r)
  IN  /\ At(r, "reading")
      /\ IF status[j] \in Terminal
         THEN Over(r) /\ UNCHANGED active
         ELSE /\ active' = active \cup {j}
              /\ run' = [run EXCEPT ![r].pc = "marking", ![r].seen = attempts[j]]
      /\ UNCHANGED <<status, attempts, calls, faults, crashes>>

\* updateJob, first half: the record is read.
Copy(r) ==
  /\ run[r].pc \in Updating
  /\ ~Copied(r)
  /\ run' = [run EXCEPT ![r].copy = attempts[JobOf(r)]]
  /\ UNCHANGED <<status, attempts, active, calls, faults, crashes>>

\* The record in hand is written with the patch s and n attempts; the answer is awaited.
Writes(r, s, n) ==
  /\ Copied(r) /\ ~Stored(r)
  /\ status' = [status EXCEPT ![JobOf(r)] = s]
  /\ attempts' = [attempts EXCEPT ![JobOf(r)] = n]
  /\ run' = [run EXCEPT ![r].stored = TRUE]
  /\ UNCHANGED <<active, calls, faults, crashes>>

\* Mutant of Commit: a requeue writes back the record processJob read before it marked the job.
CommitStale(r) == \E s \in {"queued", "running"} \cup Terminal :
  /\ <<run[r].pc, s>> \in Patch
  /\ Writes(r, s, IF At(r, "marking") THEN run[r].seen + 1
                  ELSE IF At(r, "requeueing") THEN run[r].seen ELSE run[r].copy)

\* writeJob takes effect.  processJob marks with attempts of its own; every other
\* patch leaves those of the record.
Commit(r) == \E s \in {"queued", "running"} \cup Terminal :
  /\ <<run[r].pc, s>> \in Patch
  /\ Writes(r, s, IF At(r, "marking") THEN run[r].seen + 1 ELSE run[r].copy)

\* updateJob(running) answers and callWithFallback is called.
Mark(r) ==
  /\ At(r, "marking")
  /\ Stored(r)
  /\ calls' = [calls EXCEPT ![JobOf(r)] = calls[JobOf(r)] + 1]
  /\ Move(r, "calling")
  /\ UNCHANGED <<status, attempts, active, faults, crashes>>

\* callWithFallback answers with a result, an error, admission backpressure, or throws.
CallEnds(r) ==
  /\ At(r, "calling")
  /\ \/ Move(r, "completing") /\ UNCHANGED active
     \/ Move(r, "refusing") /\ UNCHANGED active
     \/ calls[JobOf(r)] < MaxAttempts /\ Move(r, "requeueing") /\ UNCHANGED active
     \/ Move(r, "failing") /\ active' = active \ {JobOf(r)}
  /\ UNCHANGED <<status, attempts, calls, faults, crashes>>

\* The run goes on to its closing readJob, leaving a retry timer in each of `retries`.
AnswerAndRetry(r, retries) ==
  run' = [q \in Runs |-> IF q = r
                         THEN [run[r] EXCEPT !.pc = "answering", !.copy = NoCopy, !.stored = FALSE]
                         ELSE IF q \in retries THEN RunOf(JobOf(r), "timer")
                         ELSE run[q]]

FreeRuns == {q \in Runs : At(q, "free")}

\* Mutant of Requeue: scheduleJob is called at once, and drops the active job.
RequeueAtOnce(r) ==
  /\ At(r, "requeueing")
  /\ Stored(r)
  /\ AnswerAndRetry(r, {})
  /\ active' = active \ {JobOf(r)}
  /\ UNCHANGED <<status, attempts, calls, faults, crashes>>

\* Mutant of Requeue: two retries are armed.
RequeueTwice(r) ==
  /\ At(r, "requeueing")
  /\ Stored(r)
  /\ \E t, u \in FreeRuns : AnswerAndRetry(r, {t, u})
  /\ active' = active \ {JobOf(r)}
  /\ UNCHANGED <<status, attempts, calls, faults, crashes>>

\* Mutant of Requeue: the job stays in activeJobs.
RequeueStillActive(r) ==
  /\ At(r, "requeueing")
  /\ Stored(r)
  /\ \E t \in FreeRuns : AnswerAndRetry(r, {t})
  /\ UNCHANGED <<status, attempts, active, calls, faults, crashes>>

\* updateJob(queued) answers: the retry timer is armed, then `finally` runs.
Requeue(r) ==
  /\ At(r, "requeueing")
  /\ Stored(r)
  /\ \E t \in FreeRuns : AnswerAndRetry(r, {t})
  /\ active' = active \ {JobOf(r)}
  /\ UNCHANGED <<status, attempts, calls, faults, crashes>>

\* The final updateJob answers, then `finally` runs.
Complete(r) ==
  /\ At(r, "completing") \/ At(r, "refusing")
  /\ Stored(r)
  /\ Move(r, "answering")
  /\ active' = active \ {JobOf(r)}
  /\ UNCHANGED <<status, attempts, calls, faults, crashes>>

\* The closing readJob answers and processJob resolves.
Answered(r) ==
  /\ At(r, "answering")
  /\ Over(r)
  /\ UNCHANGED <<status, attempts, active, calls, faults, crashes>>

\* The retry timer fires; scheduleJob drops an active job.
TimerFires(r) ==
  /\ At(r, "timer")
  /\ IF JobOf(r) \in active THEN Over(r) ELSE Move(r, "scheduled")
  /\ UNCHANGED <<status, attempts, active, calls, faults, crashes>>

\* scheduleJob's handler of a rejected processJob: its updateJob(failed) answers.
MarkFailed(r) ==
  /\ At(r, "failing")
  /\ Stored(r)
  /\ Over(r)
  /\ UNCHANGED <<status, attempts, active, calls, faults, crashes>>

-----------------------------------------------------------------------------
\* A statement processJob awaits fails, a write before or after it has taken effect: it
\* rejects (through `finally`), and scheduleJob's handler takes over.
StatementFails(r) ==
  /\ faults < MaxFaults
  /\ run[r].pc \in (Updating \ {"failing"}) \cup {"reading", "answering"}
  /\ Move(r, "failing")
  /\ active' = IF run[r].pc \in {"reading", "answering"} THEN active ELSE active \ {JobOf(r)}
  /\ faults' = faults + 1
  /\ UNCHANGED <<status, attempts, calls, crashes>>

\* createLlmJob's write fails and its caller is told, or the handler's own updateJob
\* fails and its error is dropped: nobody goes on with the job, stored or not.
HandlerFails(r) ==
  /\ faults < MaxFaults
  /\ At(r, "creating") \/ At(r, "failing")
  /\ Over(r)
  /\ faults' = faults + 1
  /\ UNCHANGED <<status, attempts, active, calls, crashes>>

\* The Hub process dies and is started again: runs, timers and activeJobs are
\* gone, and nothing looks for the jobs they were for.
Restart ==
  /\ crashes < MaxCrashes
  /\ run' = [r \in Runs |-> Idle]
  /\ active' = {}
  /\ crashes' = crashes + 1
  /\ UNCHANGED <<status, attempts, calls, faults>>

-----------------------------------------------------------------------------
RunStep(r) ==
  \/ Created(r)
  \/ Start(r)
  \/ Read(r)
  \/ Copy(r)
  \/ Commit(r)
  \/ Mark(r)
  \/ CallEnds(r)
  \/ Requeue(r)
  \/ Complete(r)
  \/ Answered(r)
  \/ TimerFires(r)
  \/ MarkFailed(r)

Next ==
  \/ \E j \in Jobs : Create(j)
  \/ \E r \in Runs : RunStep(r) \/ StatementFails(r) \/ HandlerFails(r)
  \/ Restart

\* Immediates, timers, statements and calls (each has its deadline) all come to
\* an end while the process lives.
Fairness == \A r \in Runs : WF_vars(RunStep(r))

Spec == Init /\ [][Next]_vars
FairSpec == Spec /\ Fairness

-----------------------------------------------------------------------------
\* Every variable has its type.
TypeOK ==
  /\ status \in [Jobs -> {"absent", "queued", "running"} \cup Terminal]
  /\ attempts \in [Jobs -> 0..MaxAttempts]
  /\ active \subseteq Jobs
  /\ run \in [Runs -> [job : Jobs \cup {NoJob}, pc : PCs, seen : 0..MaxAttempts,
                    copy : 0..NoCopy, stored : BOOLEAN]]
  /\ calls \in [Jobs -> 0..MaxAttempts]
  /\ faults \in 0..MaxFaults
  /\ crashes \in 0..MaxCrashes

\* Runs that are executing their job: from activeJobs.add to `finally`.
Executing(j) == {r \in Runs : JobOf(r) = j /\
  run[r].pc \in (Updating \ {"failing"}) \cup {"calling"}}

\* Runs that will look at the job again.
Coming(j) == {r \in Runs : JobOf(r) = j /\ run[r].pc \in {"creating", "timer", "scheduled", "reading"}}

\* A job is never executed twice at once, although activeJobs is tested before an
\* await and filled after it: the retry timer, `finally` and scheduleJob leave at
\* most one run that executes the job or may begin to, and activeJobs names the
\* executed jobs exactly.
OneExecution == \A j \in Jobs :
  /\ Cardinality(Executing(j) \cup Coming(j)) <= 1
  /\ j \in active <=> Executing(j) # {}

\* The run of j that has counted its execution and not begun it.
Begun(j) == {r \in Runs : JobOf(r) = j /\ At(r, "marking") /\ Stored(r)}

\* While no statement has failed the stored attempts count the executions, although every
\* update writes back a record read one or more awaits before.  The count is written ahead
\* of its execution: it is one too high exactly while a run stands between the two, and
\* for good when the process died there, which leaves the job running and deserted.
AttemptsCountCalls == faults = 0 => \A j \in Jobs :
  IF Begun(j) # {}
  THEN attempts[j] = calls[j] + 1
  ELSE \/ attempts[j] = calls[j]
       \/ /\ attempts[j] = calls[j] + 1
          /\ status[j] = "running" /\ crashes > 0
          /\ \A r \in Runs : JobOf(r) # j

\* While no statement has failed an outcome is the last word: a finished job is not touched
\* again, and one put back to queued is executed before it can fail.  (A closing read that
\* fails does send both to the handler that stores `failed`.)
OutcomeStands == [][\A j \in Jobs : faults = 0 =>
  /\ status[j] \in Terminal => status'[j] = status[j]
  /\ status[j] = "queued" => status'[j] \in {"queued", "running"}]_vars

\* A job that is not finished has somebody who will finish or retry it, as long as
\* the process lives and the store answers.
NoOrphan == \A j \in Jobs :
  status[j] \in {"queued", "running"} /\ faults = 0 /\ crashes = 0
    => Executing(j) \cup Coming(j) \cup {r \in Runs : JobOf(r) = j /\ At(r, "failing")} # {}

\* Every job reaches an end while the process lives and the store answers.
JobEnds == \A j \in Jobs :
  status[j] = "queued" ~> (status[j] \in Terminal \/ faults > 0 \/ crashes > 0)

\* EXTERNAL_LLM_INTEGRATION_GUIDE.md: a job put back to queued by backpressure is
\* retried by the Hub, and its client polls the id it has.
RequeuedRetried == \A j \in Jobs :
  (status[j] = "queued" /\ attempts[j] > 0) ~> status[j] # "queued"
=============================================================================
