-------------------------- MODULE LlmJobStore_proofs --------------------------
(***************************************************************************)
(* For any number of jobs, runs, attempts, faults and restarts: a job is   *)
(* never executed twice at once, its stored attempts count its executions  *)
(* while the store answers, also over a death between the count and the    *)
(* execution, an outcome is not written over, and an unfinished job has    *)
(* somebody to finish or retry it.                                         *)
(***************************************************************************)
EXTENDS LlmJobStore, FiniteSetTheorems, TLAPS

\* Where a run executes its job, will look at it again, or is answerable for it.
ExecPCs == {"marking", "calling", "requeueing", "completing", "refusing"}
ComePCs == {"creating", "timer", "scheduled", "reading"}
EngagedPCs == ExecPCs \cup ComePCs
ConcernedPCs == EngagedPCs \cup {"failing"}
\* Where its job has executions left.
ToExecutePCs == ComePCs \cup {"marking", "requeueing"}

Executes(r) == run[r].pc \in ExecPCs
Engaged(r) == run[r].pc \in EngagedPCs
Concerned(r) == run[r].pc \in ConcernedPCs
\* Between the count and the execution.
Begins(r) == run[r].pc = "marking" /\ Stored(r)
\* Engaged with a job whose count is not ahead.
Even(r) == Engaged(r) /\ ~Begins(r)

RunRecord == [job : Jobs \cup {NoJob}, pc : PCs, seen : 0..MaxAttempts,
              copy : 0..NoCopy, stored : BOOLEAN]

\* Unused runs have no job, and only a write holds a record or waits for its answer.
RunsShaped == \A r \in Runs :
  /\ run[r].pc = "free" <=> JobOf(r) = NoJob
  /\ run[r].pc \notin Updating \cup {"creating"} => run[r].copy = NoCopy
  /\ Stored(r) => Copied(r)

\* Before its record is written a job has no trace but the run that creates it.
FreshJobs == \A j \in Jobs : status[j] = "absent" =>
  /\ calls[j] = 0 /\ attempts[j] = 0 /\ j \notin active
  /\ \A r \in Runs : JobOf(r) = j => run[r].pc = "creating" /\ ~Stored(r)

\* That run is the only one of its job.
Newborn == \A r \in Runs : run[r].pc = "creating" =>
  /\ calls[JobOf(r)] = 0 /\ attempts[JobOf(r)] = 0 /\ run[r].copy = 0
  /\ ~Stored(r) <=> status[JobOf(r)] = "absent"
  /\ \A q \in Runs : JobOf(q) = JobOf(r) => q = r

Alone == \A r, q \in Runs :
  Engaged(r) /\ Engaged(q) /\ JobOf(r) = JobOf(q) => r = q

ActiveNamed == \A j \in Jobs :
  j \in active <=> \E r \in Runs : JobOf(r) = j /\ Executes(r)

\* Nothing stored or copied runs ahead of the executions by more than one, and not at all
\* while somebody is engaged who has not just counted; only a job with executions left
\* is to be executed.
Counted ==
  /\ \A j \in Jobs : attempts[j] <= calls[j] + 1
  /\ \A r \in Runs : run[r].pc # "free" /\ Copied(r) => run[r].copy <= calls[JobOf(r)] + 1
  /\ \A r \in Runs : Even(r) =>
       /\ attempts[JobOf(r)] <= calls[JobOf(r)]
       /\ \A q \in Runs : JobOf(q) = JobOf(r) /\ Copied(q) => run[q].copy <= calls[JobOf(r)]
  /\ \A r \in Runs : run[r].pc \in ToExecutePCs => calls[JobOf(r)] < MaxAttempts
  /\ \A r \in Runs : run[r].pc = "marking" => run[r].seen <= calls[JobOf(r)]

\* While no statement has failed nobody else writes between a run's read and write.
ReadsCurrent == faults = 0 =>
  /\ \A r, q \in Runs : Concerned(r) /\ Concerned(q) /\ JobOf(r) = JobOf(q) => r = q
  /\ \A r \in Runs :
       /\ run[r].pc = "marking" /\ ~Stored(r) => run[r].seen = attempts[JobOf(r)]
       /\ run[r].pc \in Updating /\ Copied(r) /\ ~Begins(r) => run[r].copy = attempts[JobOf(r)]

\* The stored status says what the one run concerned with the job is about.
Told(r) ==
  /\ run[r].pc = "marking" /\ ~Stored(r) => status[JobOf(r)] \in {"queued", "running"}
  /\ Begins(r) \/ run[r].pc = "calling" => status[JobOf(r)] = "running"
  /\ run[r].pc = "requeueing" => status[JobOf(r)] = IF Stored(r) THEN "queued" ELSE "running"
  /\ run[r].pc \in {"completing", "refusing", "failing"} =>
       IF Stored(r) THEN status[JobOf(r)] \in Terminal ELSE status[JobOf(r)] = "running"

Ongoing == faults = 0 => \A r \in Runs : Told(r)

Attended == faults = 0 /\ crashes = 0 => \A j \in Jobs :
  status[j] \in {"queued", "running"} => \E r \in Runs : JobOf(r) = j /\ Concerned(r)

IInv ==
  /\ TypeOK
  /\ RunsShaped
  /\ FreshJobs
  /\ Newborn
  /\ Alone
  /\ ActiveNamed
  /\ Counted
  /\ ReadsCurrent
  /\ Ongoing
  /\ AttemptsCountCalls
  /\ Attended

-----------------------------------------------------------------------------
LEMMA InitIInv == Init => IInv
  <1> SUFFICES ASSUME Init PROVE IInv
    OBVIOUS
  <1>1. MaxAttempts \in Nat \ {0} /\ MaxFaults \in Nat /\ MaxCrashes \in Nat /\ NoJob \notin Jobs
    BY JobAssumption
  <1>2. TypeOK
    BY <1>1 DEF Init, TypeOK, Idle, RunOf, PCs, NoCopy
  <1>3. \A r \in Runs : run[r].pc = "free" /\ run[r].job = NoJob /\ run[r].copy = NoCopy /\ run[r].stored = FALSE
    BY DEF Init, Idle, RunOf
  <1>4. RunsShaped /\ FreshJobs /\ Newborn
    BY <1>1, <1>3 DEF Init, RunsShaped, FreshJobs, Newborn, JobOf, Stored
  <1>5. Alone /\ ActiveNamed
    BY <1>1, <1>3 DEF Init, Alone, ActiveNamed, Engaged, Executes, ExecPCs, ComePCs, EngagedPCs
  <1>6. Counted
    BY <1>1, <1>3 DEF Init, Counted, Even, Engaged, ExecPCs, ComePCs, EngagedPCs, ToExecutePCs
  <1>7. ReadsCurrent /\ Attended /\ Ongoing
    BY <1>1, <1>3 DEF Init, ReadsCurrent, Attended, Ongoing, Told, Begins, Concerned, ExecPCs, ComePCs,
                      EngagedPCs, ConcernedPCs, Updating
  <1>8. AttemptsCountCalls
    BY <1>3 DEF Init, AttemptsCountCalls, Begun, At
  <1>. QED  BY <1>2, <1>4, <1>5, <1>6, <1>7, <1>8 DEF IInv

\* A run at work has a job, whose record exists unless the run is there to write it.
LEMMA WorkHasJob ==
  ASSUME IInv, NEW r \in Runs, run[r].pc # "free"
  PROVE  /\ JobOf(r) \in Jobs /\ NoJob \notin Jobs
         /\ run[r].pc # "creating" => status[JobOf(r)] # "absent"
  BY JobAssumption DEF IInv, TypeOK, RunsShaped, FreshJobs, JobOf

\* Run r moves on to x without a write to the store: the conditions under which the
\* invariant survives.
LEMMA RunMovesOn ==
  ASSUME IInv, NEW r \in Runs, NEW x \in RunRecord, run' = [run EXCEPT ![r] = x],
         run[r].pc # "free", run[r].pc = "creating" => Stored(r) \/ x = Idle,
         x = Idle \/ (x.job = JobOf(r) /\ x.pc \notin {"free", "creating"}),
         x.pc \notin Updating => x.copy = NoCopy,
         x.stored = FALSE,
         x.pc \in EngagedPCs => Even(r),
         active' = IF x.pc \in ExecPCs THEN active \cup {JobOf(r)}
                   ELSE IF Executes(r) THEN active \ {JobOf(r)} ELSE active,
         x.copy \in {attempts[JobOf(r)], NoCopy},
         x.pc = "marking" => x.seen <= calls[JobOf(r)],
         x.pc \in ToExecutePCs => calls[JobOf(r)] < MaxAttempts,
         faults' \in 0..MaxFaults, faults' = 0 => faults = 0,
         faults' = 0 =>
           /\ ~Begins(r)
           /\ x.pc \in ConcernedPCs => Concerned(r)
           /\ Concerned(r) => x.pc \in ConcernedPCs \/ status[JobOf(r)] \in Terminal
           /\ x.pc = "marking" => /\ x.seen = attempts[JobOf(r)]
                                  /\ status[JobOf(r)] \in {"queued", "running"}
           /\ x.pc \in ConcernedPCs \ (ComePCs \cup {"marking"}) => status[JobOf(r)] = "running",
         UNCHANGED <<status, attempts, calls, crashes>>
  PROVE  IInv'
  <1>1. run \in [Runs -> RunRecord] /\ run' \in [Runs -> RunRecord] /\ calls \in [Jobs -> 0..MaxAttempts]
        /\ MaxAttempts \in Nat
    BY JobAssumption DEF IInv, TypeOK, RunRecord
  <1>2. run'[r] = x /\ \A q \in Runs : q # r => run'[q] = run[q]
    BY <1>1
  <1>3. JobOf(r) \in Jobs /\ NoJob \notin Jobs
    BY WorkHasJob
  <1>4. Idle.pc = "free" /\ Idle.job = NoJob /\ Idle.copy = NoCopy /\ Idle.stored = FALSE
    BY DEF Idle, RunOf
  <1>5. TypeOK'
    BY <1>1, <1>3 DEF IInv, TypeOK, RunRecord
  <1>6. RunsShaped'
    BY <1>2, <1>3, <1>4 DEF IInv, RunsShaped, JobOf, Stored, Copied, Updating
  <1>7. FreshJobs'
    <2>1. status[JobOf(r)] = "absent" => x = Idle
      BY WorkHasJob DEF IInv, Newborn
    <2> SUFFICES ASSUME NEW j \in Jobs, status[j] = "absent", NEW q \in Runs, run'[q].job = j
                 PROVE  run'[q].pc = "creating" /\ run'[q].stored = FALSE
      BY <1>4, <2>1 DEF IInv, FreshJobs, JobOf, Stored, ExecPCs
    <2>2. CASE q = r
      BY <1>2, <1>3, <1>4, <2>1, <2>2
    <2>3. CASE q # r
      BY <1>1, <1>2, <2>3 DEF IInv, FreshJobs, JobOf, Stored, RunRecord
    <2>. QED  BY <2>2, <2>3
  <1>8. Newborn'
    <2> SUFFICES ASSUME NEW p \in Runs, run'[p].pc = "creating"
                 PROVE  /\ p # r
                        /\ \A q \in Runs : run'[q].job = run[p].job => q = p
      BY <1>2 DEF IInv, Newborn, JobOf, Stored
    <2>1. p # r
      BY <1>2, <1>4
    <2>2. run[p].pc = "creating" /\ run[p].job # NoJob
      BY <1>2, <2>1 DEF IInv, RunsShaped, JobOf
    <2>3. \A q \in Runs : run[q].job = run[p].job => q = p
      BY <2>2 DEF IInv, Newborn, JobOf
    <2>4. run'[r].job \in {run[r].job, NoJob}
      BY <1>2, <1>4 DEF JobOf
    <2>. QED  BY <1>2, <2>1, <2>2, <2>3, <2>4
  <1>9. Alone'
    BY <1>2, <1>4 DEF IInv, Alone, JobOf, Even, Engaged, EngagedPCs, ExecPCs, ComePCs
  <1>10. ActiveNamed'
    <2> SUFFICES ASSUME NEW j \in Jobs
                 PROVE  j \in active' <=> \E q \in Runs : JobOf(q)' = j /\ Executes(q)'
      BY DEF ActiveNamed
    <2>1. j \in active <=> \E q \in Runs : JobOf(q) = j /\ Executes(q)
      BY DEF IInv, ActiveNamed
    <2>2. \A q \in Runs : q # r => JobOf(q)' = JobOf(q) /\ (Executes(q)' <=> Executes(q))
      BY <1>2 DEF JobOf, Executes
    <2>3. Executes(r)' <=> x.pc \in ExecPCs
      BY <1>2 DEF Executes
    <2>4. Executes(r)' => JobOf(r)' = JobOf(r)
      BY <1>2, <1>4 DEF Executes, JobOf, ExecPCs
    <2>5. CASE j # JobOf(r)
      <3>1. j \in active' <=> j \in active
        BY <2>5
      <3>. QED  BY <2>1, <2>2, <2>4, <2>5, <3>1
    <2>6. CASE j = JobOf(r) /\ Executes(r)'
      BY <2>3, <2>4, <2>6
    <2>7. CASE j = JobOf(r) /\ ~Executes(r)' /\ Executes(r)
      <3>1. \A q \in Runs : JobOf(q) = j /\ Executes(q) => q = r
        BY <2>7 DEF IInv, Alone, Executes, Engaged, EngagedPCs
      <3>. QED  BY <2>2, <2>3, <2>7, <3>1
    <2>8. CASE j = JobOf(r) /\ ~Executes(r)' /\ ~Executes(r)
      BY <2>1, <2>2, <2>3, <2>8
    <2>. QED  BY <2>5, <2>6, <2>7, <2>8
  <1>11. Counted'
    <2>1. \A q \in Runs : Even(q)' => Even(q) /\ JobOf(q)' = JobOf(q)
      BY <1>2, <1>4 DEF Even, Engaged, Begins, JobOf, Stored, EngagedPCs, ExecPCs, ComePCs
    <2>2. \A q \in Runs : run'[q].pc # "free" =>
            /\ JobOf(q)' = JobOf(q)
            /\ Copied(q)' => \/ Copied(q) /\ run'[q].copy = run[q].copy /\ run[q].pc # "free"
                             \/ run'[q].copy = attempts[JobOf(q)] /\ q = r
      BY <1>2, <1>4 DEF JobOf, Copied
    <2>3. \A q \in Runs : run'[q].pc = "free" => ~Copied(q)'
      BY <1>6, <1>1 DEF RunsShaped, Copied, Updating
    <2>4. \A q \in Runs : run'[q].pc # "free" /\ Copied(q)' => run'[q].copy <= calls[JobOf(q)'] + 1
      BY <1>3, <2>2 DEF IInv, Counted
    <2>5. ASSUME NEW p \in Runs, Even(p)'
          PROVE  /\ attempts[JobOf(p)'] <= calls[JobOf(p)']
                 /\ \A q \in Runs : JobOf(q)' = JobOf(p)' /\ Copied(q)' => run'[q].copy <= calls[JobOf(p)']
      <3>1. Even(p) /\ JobOf(p)' = JobOf(p)
        BY <2>1, <2>5
      <3>2. /\ attempts[JobOf(p)] <= calls[JobOf(p)]
            /\ \A q \in Runs : JobOf(q) = JobOf(p) /\ Copied(q) => run[q].copy <= calls[JobOf(p)]
        BY <3>1 DEF IInv, Counted
      <3>. QED  BY <2>2, <2>3, <3>1, <3>2
    <2>6. \A q \in Runs : run'[q].pc \in ToExecutePCs => calls[JobOf(q)'] < MaxAttempts
      BY <1>2, <2>2 DEF IInv, Counted, JobOf, ToExecutePCs, ComePCs
    <2>7. \A q \in Runs : run'[q].pc = "marking" => run'[q].seen <= calls[JobOf(q)']
      BY <1>2, <2>2 DEF IInv, Counted, JobOf
    <2>. QED  BY <2>4, <2>5, <2>6, <2>7 DEF IInv, Counted
  <1>12. ReadsCurrent'
    BY <1>2, <1>4 DEF IInv, ReadsCurrent, JobOf, Stored, Copied, Begins, Concerned, ConcernedPCs, EngagedPCs,
                      ExecPCs, ComePCs, Updating
  <1>13. Ongoing'
    <2> SUFFICES ASSUME faults' = 0, NEW q \in Runs PROVE Told(q)'
      BY DEF Ongoing
    <2>1. CASE q = r
      BY <1>2, <1>4, <2>1 DEF Told, Begins, Stored, JobOf, ConcernedPCs, EngagedPCs, ExecPCs, ComePCs
    <2>2. CASE q # r
      BY <1>2, <2>2 DEF IInv, Ongoing, Told, Begins, Stored, JobOf
    <2>. QED  BY <2>1, <2>2
  <1>14. AttemptsCountCalls'
    <2> SUFFICES ASSUME faults' = 0, NEW j \in Jobs
                 PROVE  /\ Begun(j)' = Begun(j)
                        /\ (\A q \in Runs : JobOf(q) # j) => \A q \in Runs : JobOf(q)' # j
      BY DEF IInv, AttemptsCountCalls
    <2>1. Begun(j)' = Begun(j)
      BY <1>2 DEF Begun, Begins, At, Stored, JobOf
    <2>. QED  BY <1>2, <1>3, <1>4, <2>1 DEF JobOf
  <1>15. Attended'
    <2> SUFFICES ASSUME faults' = 0, crashes = 0, NEW j \in Jobs, status[j] \in {"queued", "running"}
                 PROVE  \E q \in Runs : JobOf(q)' = j /\ Concerned(q)'
      BY DEF Attended
    <2>1. PICK q \in Runs : JobOf(q) = j /\ Concerned(q)
      BY DEF IInv, Attended
    <2>2. CASE q # r
      BY <1>2, <2>1, <2>2 DEF JobOf, Concerned
    <2>3. CASE q = r
      <3>1. x.pc \in ConcernedPCs
        BY <2>1, <2>3 DEF Terminal
      <3>2. x.job = j
        BY <1>4, <2>1, <2>3, <3>1 DEF ConcernedPCs, EngagedPCs, ExecPCs, ComePCs
      <3>. QED  BY <1>2, <3>1, <3>2 DEF JobOf, Concerned
    <2>. QED  BY <2>2, <2>3
  <1>. QED  BY <1>5, <1>6, <1>7, <1>8, <1>9, <1>10, <1>11, <1>12, <1>13, <1>14, <1>15 DEF IInv

\* A run that has yet to look at its job never finds it executed by another.
LEMMA ComesToInactive ==
  ASSUME IInv, NEW r \in Runs, run[r].pc \in ComePCs
  PROVE  JobOf(r) \in Jobs /\ JobOf(r) \notin active
  <1>1. JobOf(r) \in Jobs
    BY WorkHasJob DEF ComePCs
  <1>2. \A q \in Runs : JobOf(q) = JobOf(r) /\ Executes(q) => q = r
    BY DEF IInv, Alone, Executes, Engaged, EngagedPCs
  <1>3. ~Executes(r)
    BY DEF Executes, ComePCs, ExecPCs
  <1>. QED  BY <1>1, <1>2, <1>3 DEF IInv, ActiveNamed

\* The steps that neither write to the store nor begin an execution nor arm a timer.
LEMMA QuietSteps ==
  ASSUME IInv, NEW r \in Runs,
         \/ Created(r) \/ Start(r) \/ Read(r) \/ Copy(r) \/ CallEnds(r) \/ Complete(r) \/ Answered(r)
         \/ TimerFires(r) \/ MarkFailed(r) \/ StatementFails(r) \/ HandlerFails(r)
  PROVE  IInv'
  <1> DEFINE To(pc) == [run[r] EXCEPT !.pc = pc, !.copy = NoCopy, !.stored = FALSE]
  <1>1. /\ run \in [Runs -> RunRecord] /\ run[r] \in RunRecord /\ NoCopy \in 0..NoCopy
        /\ attempts \in [Jobs -> 0..MaxAttempts] /\ 0..MaxAttempts \subseteq 0..NoCopy
        /\ active \subseteq Jobs /\ faults \in 0..MaxFaults /\ MaxFaults \in Nat
    BY JobAssumption DEF IInv, TypeOK, RunRecord, NoCopy
  <1>2. run[r].pc # "free" /\ JobOf(r) \in Jobs
    <2>1. run[r].pc # "free"
      BY DEF Created, Start, Read, Copy, CallEnds, Complete, Answered, TimerFires, MarkFailed,
             StatementFails, HandlerFails, At, Updating
    <2>. QED  BY <2>1, WorkHasJob
  <1>3. Executes(r) => JobOf(r) \in active
    BY <1>2 DEF IInv, ActiveNamed
  <1>4. \A pc \in PCs \ {"free"} : /\ To(pc) \in RunRecord /\ To(pc).pc = pc /\ To(pc).job = JobOf(r)
                                   /\ To(pc).seen = run[r].seen /\ To(pc).copy = NoCopy
                                   /\ To(pc).stored = FALSE
    BY <1>1 DEF RunRecord, JobOf
  <1>5. \A pc : Move(r, pc) => run' = [run EXCEPT ![r] = To(pc)]
    BY <1>1 DEF Move, RunRecord
  <1>6. Idle \in RunRecord /\ Idle.pc = "free" /\ Idle.copy = NoCopy /\ Idle.stored = FALSE
    BY <1>1, JobAssumption DEF Idle, RunOf, RunRecord, PCs
  <1> HIDE DEF To
  <1>21. ASSUME NEW pc \in PCs \ {"free", "creating", "marking"}, Move(r, pc),
                run[r].pc = "creating" => Stored(r),
                pc \in EngagedPCs => Even(r),
                active' = IF pc \in ExecPCs THEN active
                          ELSE IF Executes(r) THEN active \ {JobOf(r)} ELSE active,
                pc \in ExecPCs => Executes(r),
                pc \in ToExecutePCs => calls[JobOf(r)] < MaxAttempts,
                faults' \in 0..MaxFaults, faults' = 0 => faults = 0,
                faults' = 0 =>
                  /\ ~Begins(r)
                  /\ pc \in ConcernedPCs => Concerned(r)
                  /\ Concerned(r) => pc \in ConcernedPCs \/ status[JobOf(r)] \in Terminal
                  /\ pc \in ConcernedPCs \ ComePCs => status[JobOf(r)] = "running",
                UNCHANGED <<status, attempts, calls, crashes>>
         PROVE  IInv'
    <2>1. /\ run' = [run EXCEPT ![r] = To(pc)] /\ To(pc) \in RunRecord /\ To(pc).pc = pc
          /\ To(pc).job = JobOf(r) /\ To(pc).copy = NoCopy /\ To(pc).stored = FALSE
      BY <1>4, <1>5, <1>21
    <2>2. active' = IF pc \in ExecPCs THEN active \cup {JobOf(r)}
                    ELSE IF Executes(r) THEN active \ {JobOf(r)} ELSE active
      BY <1>3, <1>21
    <2>3. pc # "free" /\ pc # "creating" /\ pc # "marking"
      OBVIOUS
    <2>. QED  BY <1>2, <1>21, <2>1, <2>2, <2>3, RunMovesOn
  <1>7. run[r].pc \in ToExecutePCs => calls[JobOf(r)] < MaxAttempts
    BY DEF IInv, Counted
  <1> USE DEF PCs, Updating, Executes, Engaged, Even, Begins, Concerned, ExecPCs, ComePCs, EngagedPCs,
              ConcernedPCs, ToExecutePCs
  <1>8. CASE Created(r)
    <2>1. run[r].pc = "creating" /\ Stored(r) /\ Move(r, "scheduled")
          /\ UNCHANGED <<status, attempts, active, calls, faults, crashes>>
      BY <1>8 DEF Created, At
    <2>. QED  BY <1>1, <1>7, <1>21, <2>1
  <1>9. CASE Start(r)
    <2>1. run[r].pc = "scheduled" /\ Move(r, "reading")
          /\ UNCHANGED <<status, attempts, active, calls, faults, crashes>>
      BY <1>9, ComesToInactive DEF Start, At
    <2>. QED  BY <1>1, <1>7, <1>21, <2>1
  <1>10. CASE TimerFires(r)
    <2>1. run[r].pc = "timer" /\ Move(r, "scheduled")
          /\ UNCHANGED <<status, attempts, active, calls, faults, crashes>>
      BY <1>10, ComesToInactive DEF TimerFires, At
    <2>. QED  BY <1>1, <1>7, <1>21, <2>1
  <1>11. CASE Read(r)
    <2>1. /\ run[r].pc = "reading" /\ run[r].copy = NoCopy /\ run[r].stored = FALSE
          /\ UNCHANGED <<status, attempts, calls, faults, crashes>>
      BY <1>1, <1>11 DEF Read, At, IInv, RunsShaped, Stored, Copied, RunRecord
    <2>2. CASE status[JobOf(r)] \in Terminal
      <3>1. run' = [run EXCEPT ![r] = Idle] /\ active' = active
        BY <1>11, <2>2 DEF Read, Over
      <3>. QED  BY <1>1, <1>2, <1>6, <2>1, <2>2, <3>1, RunMovesOn
    <2>3. CASE status[JobOf(r)] \notin Terminal
      <3> DEFINE x == [run[r] EXCEPT !.pc = "marking", !.seen = attempts[JobOf(r)]]
      <3>1. run' = [run EXCEPT ![r] = x] /\ active' = active \cup {JobOf(r)}
        BY <1>1, <1>11, <2>3 DEF Read, RunRecord
      <3>2. /\ x \in RunRecord /\ x.pc = "marking" /\ x.job = JobOf(r) /\ x.copy = NoCopy
            /\ x.seen = attempts[JobOf(r)] /\ x.stored = FALSE
        BY <1>1, <1>2, <2>1 DEF RunRecord, JobOf
      <3>3. status[JobOf(r)] \in {"queued", "running"}
        BY <1>2, <2>1, <2>3, WorkHasJob DEF IInv, TypeOK
      <3>4. attempts[JobOf(r)] <= calls[JobOf(r)]
        BY <2>1 DEF IInv, Counted
      <3> HIDE DEF x
      <3>. QED  BY <1>1, <1>2, <1>7, <2>1, <3>1, <3>2, <3>3, <3>4, RunMovesOn
    <2>. QED  BY <2>2, <2>3
  <1>12. CASE Copy(r)
    <2> DEFINE x == [run[r] EXCEPT !.copy = attempts[JobOf(r)]]
    <2>1. /\ run[r].pc \in Updating /\ run' = [run EXCEPT ![r] = x] /\ run[r].stored = FALSE
          /\ UNCHANGED <<status, attempts, active, calls, faults, crashes>>
      BY <1>1, <1>12 DEF Copy, RunRecord, IInv, RunsShaped, Stored
    <2>2. attempts[JobOf(r)] \in 0..NoCopy
      BY <1>1, <1>2
    <2>3. /\ x \in RunRecord /\ x.pc = run[r].pc /\ x.job = JobOf(r) /\ x.seen = run[r].seen
          /\ x.copy = attempts[JobOf(r)] /\ x.stored = FALSE
      BY <1>1, <2>1, <2>2 DEF RunRecord, JobOf
    <2>4. run[r].pc = "marking" => run[r].seen <= calls[JobOf(r)]
      BY DEF IInv, Counted
    <2>5. faults = 0 =>
            /\ run[r].pc = "marking" => /\ run[r].seen = attempts[JobOf(r)]
                                        /\ status[JobOf(r)] \in {"queued", "running"}
            /\ run[r].pc # "marking" => status[JobOf(r)] = "running"
      BY <2>1 DEF IInv, ReadsCurrent, Ongoing, Told, Stored
    <2> HIDE DEF x
    <2>. QED  BY <1>1, <1>2, <1>3, <1>7, <2>1, <2>3, <2>4, <2>5, RunMovesOn DEF Stored
  <1>13. CASE CallEnds(r)
    <2>1. /\ run[r].pc = "calling" /\ UNCHANGED <<status, attempts, calls, faults, crashes>>
          /\ \/ \E pc \in {"completing", "refusing"} : Move(r, pc) /\ active' = active
             \/ Move(r, "requeueing") /\ active' = active /\ calls[JobOf(r)] < MaxAttempts
             \/ Move(r, "failing") /\ active' = active \ {JobOf(r)}
      BY <1>13 DEF CallEnds, At
    <2>2. faults = 0 => status[JobOf(r)] = "running"
      BY <2>1 DEF IInv, Ongoing, Told
    <2>3. CASE \E pc \in {"completing", "refusing", "requeueing"} :
                 /\ Move(r, pc) /\ active' = active
                 /\ pc = "requeueing" => calls[JobOf(r)] < MaxAttempts
      BY <1>1, <1>21, <2>1, <2>2, <2>3
    <2>4. CASE Move(r, "failing") /\ active' = active \ {JobOf(r)}
      BY <1>1, <1>21, <2>1, <2>2, <2>4
    <2>. QED  BY <2>1, <2>3, <2>4
  <1>14. CASE Complete(r)
    <2>1. /\ run[r].pc \in {"completing", "refusing"} /\ Stored(r) /\ Move(r, "answering")
          /\ active' = active \ {JobOf(r)}
          /\ UNCHANGED <<status, attempts, calls, faults, crashes>>
      BY <1>14 DEF Complete, At
    <2>2. faults = 0 => status[JobOf(r)] \in Terminal
      BY <2>1 DEF IInv, Ongoing, Told
    <2>. QED  BY <1>1, <1>21, <2>1, <2>2
  <1>15. CASE Answered(r)
    <2>1. run[r].pc = "answering" /\ run' = [run EXCEPT ![r] = Idle]
          /\ UNCHANGED <<status, attempts, active, calls, faults, crashes>>
      BY <1>15 DEF Answered, At, Over
    <2>. QED  BY <1>1, <1>2, <1>6, <2>1, RunMovesOn
  <1>16. CASE MarkFailed(r)
    <2>1. /\ run[r].pc = "failing" /\ Stored(r) /\ run' = [run EXCEPT ![r] = Idle]
          /\ UNCHANGED <<status, attempts, active, calls, faults, crashes>>
      BY <1>16 DEF MarkFailed, At, Over
    <2>2. faults = 0 => status[JobOf(r)] \in Terminal
      BY <2>1 DEF IInv, Ongoing, Told
    <2>. QED  BY <1>1, <1>2, <1>6, <2>1, <2>2, RunMovesOn
  <1>17. CASE StatementFails(r)
    <2>1. /\ run[r].pc \in ExecPCs \cup {"reading", "answering"} /\ Move(r, "failing")
          /\ active' = IF run[r].pc \in {"reading", "answering"} THEN active ELSE active \ {JobOf(r)}
          /\ faults' \in 0..MaxFaults /\ faults' # 0
          /\ UNCHANGED <<status, attempts, calls, crashes>>
      BY <1>1, <1>17 DEF StatementFails
    <2>2. active' = IF Executes(r) THEN active \ {JobOf(r)} ELSE active
      BY <2>1
    <2>. QED  BY <1>1, <1>21, <2>1, <2>2
  <1>18. CASE HandlerFails(r)
    <2>1. /\ run[r].pc \in {"creating", "failing"} /\ run' = [run EXCEPT ![r] = Idle]
          /\ faults' \in 0..MaxFaults /\ faults' # 0
          /\ UNCHANGED <<status, attempts, active, calls, crashes>>
      BY <1>1, <1>18 DEF HandlerFails, At, Over
    <2>. QED  BY <1>1, <1>2, <1>6, <2>1, RunMovesOn
  <1>. QED  BY <1>8, <1>9, <1>10, <1>11, <1>12, <1>13, <1>14, <1>15, <1>16, <1>17, <1>18

-----------------------------------------------------------------------------
\* The write of r takes effect.  It is the only engaged run of its job, and while no
\* statement has failed the only concerned one.
LEMMA CommitStep ==
  ASSUME IInv, NEW r \in Runs, Commit(r)
  PROVE  IInv'
  <1> DEFINE j == JobOf(r)
             x == [run[r] EXCEPT !.stored = TRUE]
             n == IF run[r].pc = "marking" THEN run[r].seen + 1 ELSE run[r].copy
  <1>1. PICK s \in {"queued", "running"} \cup Terminal : /\ <<run[r].pc, s>> \in Patch
                                                         /\ Writes(r, s, n)
    BY DEF Commit, At
  <1>2. /\ run \in [Runs -> RunRecord] /\ run[r] \in RunRecord
        /\ status \in [Jobs -> {"absent", "queued", "running"} \cup Terminal]
        /\ attempts \in [Jobs -> 0..MaxAttempts] /\ calls \in [Jobs -> 0..MaxAttempts]
        /\ MaxAttempts \in Nat \ {0} /\ NoJob \notin Jobs
    BY JobAssumption DEF IInv, TypeOK, RunRecord
  <1>3. /\ run[r].copy # NoCopy /\ run[r].stored = FALSE
        /\ run' = [run EXCEPT ![r] = x]
        /\ status' = [status EXCEPT ![j] = s] /\ attempts' = [attempts EXCEPT ![j] = n]
        /\ UNCHANGED <<active, calls, faults, crashes>>
    BY <1>1, <1>2 DEF Writes, Copied, Stored, RunRecord
  <1>4. run[r].pc \in Updating \cup {"creating"}
    BY <1>1 DEF Patch, Updating
  <1>5. j \in Jobs
    BY <1>4, WorkHasJob DEF Updating
  <1>6. /\ x.job = j /\ x.pc = run[r].pc /\ x.seen = run[r].seen /\ x.copy = run[r].copy /\ x.stored = TRUE
        /\ x \in RunRecord
    BY <1>2 DEF RunRecord, JobOf
  <1>7. n \in 0..MaxAttempts
    <2>1. run[r].pc = "marking" => run[r].seen <= calls[j] /\ calls[j] < MaxAttempts
      BY DEF IInv, Counted, ToExecutePCs, ComePCs
    <2>. QED  BY <1>2, <1>3, <1>5, <2>1 DEF RunRecord, NoCopy
  <1> HIDE DEF j, x, n
  <1>8. /\ run'[r] = x /\ \A q \in Runs : q # r => run'[q] = run[q]
        /\ status'[j] = s /\ attempts'[j] = n
        /\ \A i \in Jobs : i # j => status'[i] = status[i] /\ attempts'[i] = attempts[i]
        /\ s # "absent"
    BY <1>2, <1>3, <1>5 DEF Terminal
  <1>9. /\ JobOf(r)' = j /\ Executes(r)' = Executes(r) /\ Engaged(r)' = Engaged(r)
        /\ Concerned(r)' = Concerned(r)
        /\ \A q \in Runs : JobOf(q)' = JobOf(q) /\ run'[q].pc = run[q].pc /\ run'[q].copy = run[q].copy
                           /\ run'[q].seen = run[q].seen
        /\ \A q \in Runs : q # r => run'[q].stored = run[q].stored
    BY <1>6, <1>8 DEF JobOf, Executes, Engaged, Concerned, j
  <1>10. TypeOK'
    BY <1>2, <1>3, <1>5, <1>6, <1>7 DEF IInv, TypeOK, RunRecord
  <1>11. RunsShaped'
    BY <1>3, <1>4, <1>6, <1>8, <1>9 DEF IInv, RunsShaped, Stored, Copied
  <1>12. FreshJobs'
    BY <1>3, <1>5, <1>8, <1>9 DEF IInv, FreshJobs, Stored, j
  <1>13. Newborn'
    <2> SUFFICES ASSUME NEW p \in Runs, run[p].pc = "creating"
                 PROVE  /\ calls[JobOf(p)] = 0 /\ attempts'[JobOf(p)] = 0 /\ run[p].copy = 0
                        /\ ~run'[p].stored <=> status'[JobOf(p)] = "absent"
                        /\ \A q \in Runs : JobOf(q) = JobOf(p) => q = p
      BY <1>2, <1>3, <1>9 DEF Newborn, Stored
    <2>1. /\ calls[JobOf(p)] = 0 /\ attempts[JobOf(p)] = 0 /\ run[p].copy = 0
          /\ ~run[p].stored <=> status[JobOf(p)] = "absent"
          /\ \A q \in Runs : JobOf(q) = JobOf(p) => q = p
      BY <1>2 DEF IInv, Newborn, Stored, RunRecord
    <2>2. JobOf(p) \in Jobs
      BY WorkHasJob
    <2>3. CASE p = r
      BY <1>6, <1>8, <2>1, <2>3 DEF n, j
    <2>4. CASE p # r
      <3>1. JobOf(p) # j
        BY <2>1, <2>4 DEF j
      <3>. QED  BY <1>8, <2>1, <2>2, <2>4, <3>1
    <2>. QED  BY <2>3, <2>4
  <1>14. Alone' /\ ActiveNamed'
    BY <1>3, <1>9 DEF IInv, Alone, ActiveNamed, Engaged, Executes
  <1>15. Counted'
    <2>1. /\ n <= calls[j] + 1
          /\ run[r].pc # "marking" /\ Even(r) => n <= calls[j]
      <3>1. run[r].pc = "marking" => run[r].seen <= calls[j]
        BY DEF IInv, Counted, j
      <3>2. run[r].copy <= calls[j] + 1 /\ (Even(r) => run[r].copy <= calls[j])
        BY <1>3, <1>4 DEF IInv, Counted, Copied, Updating, j
      <3>. QED  BY <1>2, <1>5, <3>1, <3>2 DEF n, RunRecord
    <2>2. \A i \in Jobs : attempts'[i] <= calls[i] + 1
      BY <1>8, <2>1 DEF IInv, Counted
    <2>3. \A q \in Runs : Even(q)' => Even(q) /\ (q = r => run[r].pc # "marking")
      BY <1>6, <1>8 DEF Even, Engaged, Begins, Stored
    <2>4. ASSUME NEW p \in Runs, Even(p)'
          PROVE  /\ attempts'[JobOf(p)] <= calls[JobOf(p)]
                 /\ \A q \in Runs : JobOf(q) = JobOf(p) /\ Copied(q) => run[q].copy <= calls[JobOf(p)]
      <3>1. /\ Even(p) /\ JobOf(p) \in Jobs
            /\ attempts[JobOf(p)] <= calls[JobOf(p)]
            /\ \A q \in Runs : JobOf(q) = JobOf(p) /\ Copied(q) => run[q].copy <= calls[JobOf(p)]
        BY <2>3, <2>4, WorkHasJob DEF IInv, Counted, Even, Engaged, EngagedPCs, ExecPCs, ComePCs
      <3>2. CASE JobOf(p) # j
        BY <1>8, <3>1, <3>2
      <3>3. CASE JobOf(p) = j /\ run[r].pc = "marking"
        <4>1. p = r
          BY <3>1, <3>3 DEF IInv, Alone, Even, Engaged, EngagedPCs, ExecPCs, j
        <4>. QED  BY <2>3, <2>4, <3>3, <4>1
      <3>4. CASE JobOf(p) = j /\ run[r].pc # "marking"
        <4>1. n = run[r].copy /\ Copied(r)
          BY <1>3, <3>4 DEF n, Copied
        <4>. QED  BY <1>8, <3>1, <3>4, <4>1 DEF j
      <3>. QED  BY <3>2, <3>3, <3>4
    <2>. QED  BY <1>3, <1>9, <2>2, <2>4 DEF IInv, Counted, Copied
  <1>16. ASSUME faults = 0, NEW q \in Runs, q # r, Concerned(q)
         PROVE  JobOf(q) # j /\ JobOf(q) \in Jobs
    <2>1. Concerned(r)
      BY <1>4 DEF Concerned, ConcernedPCs, EngagedPCs, ExecPCs, ComePCs, Updating
    <2>2. JobOf(q) \in Jobs
      BY <1>16, WorkHasJob DEF Concerned, ConcernedPCs, EngagedPCs, ExecPCs, ComePCs
    <2>. QED  BY <1>16, <2>1, <2>2 DEF IInv, ReadsCurrent, j
  <1>17. ReadsCurrent'
    <2> SUFFICES ASSUME faults = 0, NEW q \in Runs
                 PROVE  /\ run[q].pc = "marking" /\ ~Stored(q)' => run[q].seen = attempts'[JobOf(q)]
                        /\ run[q].pc \in Updating /\ Copied(q)' /\ ~Begins(q)' =>
                             run[q].copy = attempts'[JobOf(q)]
      BY <1>3, <1>9 DEF IInv, ReadsCurrent, Concerned
    <2>1. CASE q = r
      BY <1>6, <1>8, <2>1 DEF Stored, Begins, n, j
    <2>2. CASE q # r /\ run[q].pc \in Updating
      <3>1. JobOf(q) # j /\ JobOf(q) \in Jobs
        BY <1>16, <2>2 DEF Concerned, ConcernedPCs, EngagedPCs, ExecPCs, Updating
      <3>2. attempts'[JobOf(q)] = attempts[JobOf(q)] /\ run'[q] = run[q]
        BY <1>8, <2>2, <3>1
      <3>. QED  BY <2>2, <3>2 DEF IInv, ReadsCurrent, Stored, Begins, Copied
    <2>3. CASE q # r /\ run[q].pc \notin Updating
      BY <2>3 DEF Updating
    <2>. QED  BY <2>1, <2>2, <2>3
  <1>18. Ongoing'
    <2> SUFFICES ASSUME faults = 0, NEW q \in Runs PROVE Told(q)'
      BY <1>3 DEF Ongoing
    <2>1. CASE q = r
      BY <1>1, <1>6, <1>8, <2>1 DEF Told, Begins, Stored, JobOf, Patch, Terminal
    <2>2. CASE q # r /\ Concerned(q)
      <3>1. status'[JobOf(q)] = status[JobOf(q)] /\ run'[q] = run[q]
        BY <1>8, <1>16, <2>2
      <3>. QED  BY <3>1 DEF IInv, Ongoing, Told, Begins, Stored, JobOf
    <2>3. CASE q # r /\ ~Concerned(q)
      BY <1>8, <2>3 DEF Told, Begins, Concerned, ConcernedPCs, EngagedPCs, ExecPCs
    <2>. QED  BY <2>1, <2>2, <2>3
  <1>19. AttemptsCountCalls'
    <2> SUFFICES ASSUME faults = 0, NEW i \in Jobs
                 PROVE  IF Begun(i)' # {}
                        THEN attempts'[i] = calls[i] + 1
                        ELSE \/ attempts'[i] = calls[i]
                             \/ /\ attempts'[i] = calls[i] + 1
                                /\ status'[i] = "running" /\ crashes > 0
                                /\ \A q \in Runs : JobOf(q) # i
      BY <1>3, <1>9 DEF AttemptsCountCalls
    <2>1. CASE i # j
      <3>1. Begun(i)' = Begun(i) /\ attempts'[i] = attempts[i] /\ status'[i] = status[i]
        BY <1>6, <1>8, <1>9, <2>1 DEF Begun, At, Stored, j
      <3>. QED  BY <3>1 DEF IInv, AttemptsCountCalls
    <2>2. CASE i = j
      <3>1. Begun(j) = {} /\ attempts[j] = calls[j]
        <4>1. \A q \in Runs : q \in Begun(j) => q = r
          BY <1>16 DEF Begun, At, Concerned, ConcernedPCs, EngagedPCs, ExecPCs
        <4>2. r \notin Begun(j)
          BY <1>3 DEF Begun, Stored
        <4>3. Begun(j) = {}
          BY <4>1, <4>2 DEF Begun
        <4>. QED  BY <1>5, <4>3 DEF IInv, AttemptsCountCalls, j
      <3>2. CASE run[r].pc = "marking"
        <4>1. r \in Begun(i)'
          BY <1>6, <1>8, <1>9, <2>2, <3>2 DEF Begun, At, Stored
        <4>2. n = calls[j] + 1
          BY <1>3, <3>1, <3>2 DEF IInv, ReadsCurrent, Stored, n, j
        <4>. QED  BY <1>8, <2>2, <4>1, <4>2
      <3>3. CASE run[r].pc # "marking"
        <4>1. Begun(i)' = {}
          BY <1>8, <1>9, <2>2, <3>1, <3>3 DEF Begun, At, Stored
        <4>2. n = attempts[j]
          <5>1. CASE run[r].pc = "creating"
            BY <3>3, <5>1 DEF IInv, Newborn, n, j
          <5>2. CASE run[r].pc \in Updating
            BY <1>3, <3>3, <5>2 DEF IInv, ReadsCurrent, Copied, Begins, n, j
          <5>. QED  BY <1>4, <5>1, <5>2
        <4>. QED  BY <1>8, <2>2, <3>1, <4>1, <4>2
      <3>. QED  BY <3>2, <3>3
    <2>. QED  BY <2>1, <2>2
  <1>20. Attended'
    <2> SUFFICES ASSUME faults = 0, crashes = 0, NEW i \in Jobs, status'[i] \in {"queued", "running"}
                 PROVE  \E q \in Runs : JobOf(q) = i /\ Concerned(q)
      BY <1>3, <1>9 DEF Attended, Concerned
    <2>1. CASE i = j
      BY <1>4, <2>1 DEF Concerned, ConcernedPCs, EngagedPCs, ExecPCs, ComePCs, Updating, j
    <2>2. CASE i # j
      BY <1>8, <2>2 DEF IInv, Attended
    <2>. QED  BY <2>1, <2>2
  <1>. QED  BY <1>10, <1>11, <1>12, <1>13, <1>14, <1>15, <1>17, <1>18, <1>19, <1>20 DEF IInv

-----------------------------------------------------------------------------
\* The execution begins: the count is no longer ahead.
LEMMA MarkStep ==
  ASSUME IInv, NEW r \in Runs, Mark(r)
  PROVE  IInv'
  <1> DEFINE j == JobOf(r)
             x == [run[r] EXCEPT !.pc = "calling", !.copy = NoCopy, !.stored = FALSE]
  <1>1. /\ run \in [Runs -> RunRecord] /\ run[r] \in RunRecord
        /\ attempts \in [Jobs -> 0..MaxAttempts] /\ calls \in [Jobs -> 0..MaxAttempts]
        /\ MaxAttempts \in Nat \ {0} /\ NoJob \notin Jobs /\ NoCopy \in 0..NoCopy
    BY JobAssumption DEF IInv, TypeOK, RunRecord, NoCopy
  <1>2. /\ run[r].pc = "marking" /\ Stored(r) /\ run' = [run EXCEPT ![r] = x]
        /\ calls' = [calls EXCEPT ![j] = calls[j] + 1]
        /\ UNCHANGED <<status, attempts, active, faults, crashes>>
    BY <1>1 DEF Mark, Move, At, RunRecord
  <1>3. j \in Jobs /\ status[j] # "absent"
    BY <1>2, WorkHasJob
  <1>4. /\ x.job = j /\ x.pc = "calling" /\ x.seen = run[r].seen /\ x.copy = NoCopy /\ x.stored = FALSE
        /\ x \in RunRecord
    BY <1>1 DEF RunRecord, JobOf, PCs
  <1>5. calls[j] < MaxAttempts
    BY <1>2 DEF IInv, Counted, ToExecutePCs
  <1> HIDE DEF j, x
  <1>6. /\ run'[r] = x /\ \A q \in Runs : q # r => run'[q] = run[q]
        /\ \A q \in Runs : JobOf(q)' = JobOf(q)
        /\ calls'[j] = calls[j] + 1 /\ \A i \in Jobs : i # j => calls'[i] = calls[i]
    BY <1>1, <1>2, <1>3, <1>4 DEF JobOf, j
  <1>7. \A q \in Runs : q # r /\ Engaged(q) => JobOf(q) # j
    BY <1>2 DEF IInv, Alone, Engaged, EngagedPCs, ExecPCs, j
  <1>8. \A q \in Runs : run[q].pc # "free" => JobOf(q) \in Jobs
    BY WorkHasJob
  <1>9. TypeOK'
    BY <1>1, <1>2, <1>3, <1>4, <1>5 DEF IInv, TypeOK, RunRecord
  <1>10. RunsShaped'
    BY <1>1, <1>3, <1>4, <1>6 DEF IInv, RunsShaped, Stored, Copied, Updating, j
  <1>11. FreshJobs'
    BY <1>2, <1>3, <1>6 DEF IInv, FreshJobs, Stored, j
  <1>12. Newborn'
    <2> SUFFICES ASSUME NEW p \in Runs, run'[p].pc = "creating"
                 PROVE  /\ calls'[JobOf(p)] = 0 /\ attempts[JobOf(p)] = 0 /\ run'[p].copy = 0
                        /\ ~run'[p].stored <=> status[JobOf(p)] = "absent"
                        /\ \A q \in Runs : JobOf(q) = JobOf(p) => q = p
      BY <1>2, <1>6 DEF Newborn, Stored
    <2>1. p # r /\ run'[p] = run[p]
      BY <1>4, <1>6
    <2>2. /\ calls[JobOf(p)] = 0 /\ attempts[JobOf(p)] = 0 /\ run[p].copy = 0
          /\ ~run[p].stored <=> status[JobOf(p)] = "absent"
          /\ \A q \in Runs : JobOf(q) = JobOf(p) => q = p
      BY <2>1 DEF IInv, Newborn, Stored
    <2>. QED  BY <1>6, <1>8, <2>1, <2>2 DEF j
  <1>13. Alone' /\ ActiveNamed'
    <2>1. \A q \in Runs : (Engaged(q)' <=> Engaged(q)) /\ (Executes(q)' <=> Executes(q))
      BY <1>2, <1>4, <1>6 DEF Engaged, Executes, EngagedPCs, ExecPCs
    <2>. QED  BY <1>2, <1>6, <2>1 DEF IInv, Alone, ActiveNamed
  <1>14. Counted'
    <2>1. \A i \in Jobs : /\ calls[i] \in Nat /\ calls'[i] \in Nat /\ calls[i] <= calls'[i]
                          /\ attempts[i] \in Nat /\ attempts[i] <= calls[i] + 1
      BY <1>1, <1>3, <1>6 DEF IInv, Counted
    <2>2. \A q \in Runs : run[q].copy \in Nat /\ run[q].seen \in Nat
      BY <1>1 DEF RunRecord, NoCopy
    <2>3. \A i \in Jobs : attempts[i] <= calls'[i] + 1
      BY <2>1
    <2>4. ASSUME NEW q \in Runs, Copied(q)'
          PROVE  /\ q # r /\ run'[q] = run[q] /\ JobOf(q) \in Jobs
                 /\ run[q].copy <= calls[JobOf(q)] + 1 /\ run[q].copy <= calls'[JobOf(q)] + 1
      <3>1. q # r /\ run'[q] = run[q] /\ Copied(q)
        BY <1>4, <1>6, <2>4 DEF Copied
      <3>2. run[q].pc # "free"
        BY <3>1 DEF IInv, RunsShaped, Copied, Updating
      <3>3. run[q].copy <= calls[JobOf(q)] + 1
        BY <3>1, <3>2 DEF IInv, Counted
      <3>. QED  BY <1>8, <2>1, <2>2, <3>1, <3>2, <3>3
    <2>5. ASSUME NEW p \in Runs, Even(p)'
          PROVE  /\ attempts[JobOf(p)] <= calls'[JobOf(p)]
                 /\ \A q \in Runs : JobOf(q) = JobOf(p) /\ Copied(q)' => run'[q].copy <= calls'[JobOf(p)]
      <3>1. CASE p = r
        BY <1>3, <1>6, <2>1, <2>4, <3>1 DEF j
      <3>2. CASE p # r
        <4>1. Even(p) /\ JobOf(p) # j /\ JobOf(p) \in Jobs
          BY <1>6, <1>7, <1>8, <2>5, <3>2 DEF Even, Engaged, Begins, Stored, EngagedPCs, ExecPCs, ComePCs
        <4>2. calls'[JobOf(p)] = calls[JobOf(p)]
          BY <1>6, <4>1
        <4>. QED  BY <2>4, <4>1, <4>2 DEF IInv, Counted, Copied
      <3>. QED  BY <3>1, <3>2
    <2>6. \A q \in Runs : run'[q].pc \in ToExecutePCs => calls'[JobOf(q)] < MaxAttempts
      <3>1. \A q \in Runs : run'[q].pc \in ToExecutePCs => q # r /\ run'[q] = run[q] /\ Engaged(q)
        BY <1>4, <1>6 DEF ToExecutePCs, ComePCs, Engaged, EngagedPCs, ExecPCs
      <3>2. \A q \in Runs : Engaged(q) => JobOf(q) \in Jobs
        BY <1>8 DEF Engaged, EngagedPCs, ExecPCs, ComePCs
      <3>. QED  BY <1>6, <1>7, <3>1, <3>2 DEF IInv, Counted
    <2>7. ASSUME NEW q \in Runs, run'[q].pc = "marking"
          PROVE  run'[q].seen <= calls'[JobOf(q)]
      <3>1. run'[q] = run[q] /\ run[q].pc = "marking"
        BY <1>4, <1>6, <2>7
      <3>. QED  BY <1>8, <2>1, <2>2, <3>1 DEF IInv, Counted
    <2>. QED  BY <1>2, <1>6, <2>3, <2>4, <2>5, <2>6, <2>7 DEF Counted
  <1>15. ReadsCurrent'
    <2>1. \A q \in Runs : Concerned(q)' <=> Concerned(q)
      BY <1>2, <1>4, <1>6 DEF Concerned, ConcernedPCs, EngagedPCs, ExecPCs
    <2>2. \A q \in Runs : run'[q].pc \in Updating => run'[q] = run[q]
      BY <1>4, <1>6 DEF Updating
    <2>. QED  BY <1>2, <1>6, <2>1, <2>2 DEF IInv, ReadsCurrent, Stored, Copied, Begins, Updating
  <1>16. Ongoing'
    <2> SUFFICES ASSUME faults = 0, NEW q \in Runs PROVE Told(q)'
      BY <1>2 DEF Ongoing
    <2>1. CASE q = r
      <3>1. status[j] = "running"
        BY <1>2 DEF IInv, Ongoing, Told, Begins, j
      <3>. QED  BY <1>2, <1>4, <1>6, <2>1, <3>1 DEF Told, Begins, j
    <2>2. CASE q # r
      BY <1>2, <1>6, <2>2 DEF IInv, Ongoing, Told, Begins, Stored, JobOf
    <2>. QED  BY <2>1, <2>2
  <1>17. AttemptsCountCalls'
    <2> SUFFICES ASSUME faults = 0, NEW i \in Jobs
                 PROVE  IF Begun(i)' # {}
                        THEN attempts[i] = calls'[i] + 1
                        ELSE \/ attempts[i] = calls'[i]
                             \/ /\ attempts[i] = calls'[i] + 1
                                /\ status[i] = "running" /\ crashes > 0
                                /\ \A q \in Runs : JobOf(q) # i
      BY <1>2, <1>6 DEF AttemptsCountCalls
    <2>1. CASE i # j
      <3>1. Begun(i)' = Begun(i) /\ calls'[i] = calls[i]
        BY <1>6, <2>1 DEF Begun, At, Stored, j
      <3>. QED  BY <3>1 DEF IInv, AttemptsCountCalls
    <2>2. CASE i = j
      <3>1. r \in Begun(i)
        BY <1>2, <2>2 DEF Begun, At, j
      <3>2. attempts[i] = calls[i] + 1
        BY <3>1 DEF IInv, AttemptsCountCalls
      <3>3. \A q \in Runs : q \notin Begun(i)'
        BY <1>4, <1>6, <1>7, <2>2 DEF Begun, At, Stored, Engaged, EngagedPCs, ExecPCs
      <3>4. Begun(i)' = {}
        BY <3>3 DEF Begun
      <3>. QED  BY <1>6, <2>2, <3>2, <3>4
    <2>. QED  BY <2>1, <2>2
  <1>18. Attended'
    <2>1. \A q \in Runs : Concerned(q)' <=> Concerned(q)
      BY <1>2, <1>4, <1>6 DEF Concerned, ConcernedPCs, EngagedPCs, ExecPCs
    <2>. QED  BY <1>2, <1>6, <2>1 DEF IInv, Attended
  <1>. QED  BY <1>9, <1>10, <1>11, <1>12, <1>13, <1>14, <1>15, <1>16, <1>17, <1>18 DEF IInv

-----------------------------------------------------------------------------
\* The job is put back: its run leaves it to the timer armed in a free run.
LEMMA RequeueStep ==
  ASSUME IInv, NEW r \in Runs, Requeue(r)
  PROVE  IInv'
  <1> DEFINE j == JobOf(r)
             x == [run[r] EXCEPT !.pc = "answering", !.copy = NoCopy, !.stored = FALSE]
             y == RunOf(j, "timer")
  <1>1. /\ run \in [Runs -> RunRecord] /\ run[r] \in RunRecord /\ active \subseteq Jobs
        /\ MaxAttempts \in Nat \ {0} /\ NoJob \notin Jobs /\ NoCopy \in 0..NoCopy
        /\ 0 \in 0..MaxAttempts
    BY JobAssumption DEF IInv, TypeOK, RunRecord, NoCopy
  <1>2. PICK t \in FreeRuns : AnswerAndRetry(r, {t})
    BY DEF Requeue
  <1>3. /\ run[r].pc = "requeueing" /\ Stored(r) /\ active' = active \ {j}
        /\ t \in Runs /\ run[t].pc = "free" /\ t # r
        /\ UNCHANGED <<status, attempts, calls, faults, crashes>>
    BY <1>2 DEF Requeue, At, FreeRuns
  <1>4. run' = [q \in Runs |-> IF q = r THEN x ELSE IF q = t THEN y ELSE run[q]]
    BY <1>2 DEF AnswerAndRetry
  <1>5. j \in Jobs /\ status[j] # "absent"
    BY <1>3, WorkHasJob
  <1>6. /\ x.job = j /\ x.pc = "answering" /\ x.copy = NoCopy /\ x.stored = FALSE /\ x \in RunRecord
        /\ y.job = j /\ y.pc = "timer" /\ y.copy = NoCopy /\ y.stored = FALSE /\ y \in RunRecord
    BY <1>1, <1>5 DEF RunRecord, RunOf, JobOf, PCs
  <1>7. calls[j] < MaxAttempts
    BY <1>3 DEF IInv, Counted, ToExecutePCs
  <1> HIDE DEF j, x, y
  <1>8. /\ run'[r] = x /\ run'[t] = y /\ \A q \in Runs : q # r /\ q # t => run'[q] = run[q]
        /\ run[r].job = j /\ run[t].job = NoJob
    BY <1>3, <1>4 DEF IInv, RunsShaped, JobOf, j
  <1>9. /\ Engaged(r) /\ Executes(r) /\ Concerned(r) /\ ~Engaged(r)' /\ ~Executes(r)' /\ ~Concerned(r)'
        /\ ~Engaged(t) /\ ~Executes(t) /\ ~Concerned(t) /\ Engaged(t)' /\ ~Executes(t)' /\ Concerned(t)'
        /\ \A q \in Runs : q # r /\ q # t =>
             /\ JobOf(q)' = JobOf(q) /\ (Engaged(q)' <=> Engaged(q))
             /\ (Executes(q)' <=> Executes(q)) /\ (Concerned(q)' <=> Concerned(q))
        /\ JobOf(r)' = JobOf(r) /\ JobOf(t)' = JobOf(r) /\ JobOf(r) = j
    BY <1>3, <1>6, <1>8 DEF Engaged, Executes, Concerned, ConcernedPCs, EngagedPCs, ExecPCs, ComePCs, JobOf
  <1>10. \A q \in Runs : q # r /\ Engaged(q) => JobOf(q) # j
    BY <1>9 DEF IInv, Alone
  <1>11. TypeOK'
    BY <1>1, <1>3, <1>4, <1>6 DEF IInv, TypeOK, RunRecord
  <1>12. RunsShaped'
    BY <1>1, <1>5, <1>6, <1>8 DEF IInv, RunsShaped, JobOf, Stored, Copied, Updating
  <1>13. FreshJobs'
    BY <1>3, <1>5, <1>6, <1>8 DEF IInv, FreshJobs, JobOf, Stored
  <1>14. Newborn'
    <2> SUFFICES ASSUME NEW p \in Runs, run'[p].pc = "creating"
                 PROVE  /\ p # r /\ p # t
                        /\ \A q \in Runs : run'[q].job = run[p].job => q = p
      BY <1>3, <1>8 DEF IInv, Newborn, JobOf, Stored
    <2>1. p # r /\ p # t
      BY <1>6, <1>8
    <2>2. run[p].pc = "creating" /\ \A q \in Runs : run[q].job = run[p].job => q = p
      BY <1>8, <2>1 DEF IInv, Newborn, JobOf
    <2>3. run[p].job # j
      BY <1>8, <2>1, <2>2
    <2>. QED  BY <1>6, <1>8, <2>1, <2>2, <2>3
  <1>15. Alone'
    BY <1>9, <1>10 DEF IInv, Alone
  <1>16. ActiveNamed'
    <2> SUFFICES ASSUME NEW i \in Jobs
                 PROVE  i \in active' <=> \E q \in Runs : JobOf(q)' = i /\ Executes(q)'
      BY DEF ActiveNamed
    <2>1. i \in active <=> \E q \in Runs : JobOf(q) = i /\ Executes(q)
      BY DEF IInv, ActiveNamed
    <2>2. CASE i = j
      <3>1. \A q \in Runs : q # r /\ Executes(q) => JobOf(q) # j
        BY <1>10 DEF Executes, Engaged, EngagedPCs
      <3>. QED  BY <1>3, <1>9, <2>2, <3>1
    <2>3. CASE i # j
      <3>1. \A q \in Runs : JobOf(q) = i /\ Executes(q) => q # r /\ q # t
        BY <1>9, <2>3
      <3>. QED  BY <1>3, <1>9, <2>1, <2>3, <3>1
    <2>. QED  BY <2>2, <2>3
  <1>17. Counted'
    <2>1. Even(r)
      BY <1>3, <1>9 DEF Even, Begins
    <2>2. /\ attempts[j] <= calls[j]
          /\ \A q \in Runs : JobOf(q) = j /\ Copied(q) => run[q].copy <= calls[j]
      BY <1>9, <2>1 DEF IInv, Counted
    <2>3. \A q \in Runs : Copied(q)' => q # r /\ q # t /\ run'[q] = run[q] /\ JobOf(q)' = JobOf(q) /\ Copied(q)
      BY <1>6, <1>8, <1>9 DEF Copied
    <2>4. ASSUME NEW p \in Runs, Even(p)'
          PROVE  /\ attempts[JobOf(p)'] <= calls[JobOf(p)']
                 /\ \A q \in Runs : JobOf(q)' = JobOf(p)' /\ Copied(q)' => run'[q].copy <= calls[JobOf(p)']
      <3>1. p # r
        BY <1>9, <2>4 DEF Even
      <3>2. CASE p = t
        BY <1>9, <2>2, <2>3, <3>2
      <3>3. CASE p # t
        <4>1. Even(p)
          BY <1>8, <1>9, <2>4, <3>1, <3>3 DEF Even, Begins, Stored
        <4>. QED  BY <1>9, <2>3, <3>1, <3>3, <4>1 DEF IInv, Counted
      <3>. QED  BY <3>2, <3>3
    <2>5. \A q \in Runs : run'[q].pc # "free" /\ Copied(q)' => run'[q].copy <= calls[JobOf(q)'] + 1
      BY <2>3 DEF IInv, Counted
    <2>6. \A q \in Runs : run'[q].pc \in ToExecutePCs => calls[JobOf(q)'] < MaxAttempts
      BY <1>6, <1>7, <1>8, <1>9 DEF IInv, Counted, ToExecutePCs, ComePCs
    <2>7. \A q \in Runs : run'[q].pc = "marking" => run'[q].seen <= calls[JobOf(q)']
      BY <1>6, <1>8, <1>9 DEF IInv, Counted
    <2>. QED  BY <1>3, <2>4, <2>5, <2>6, <2>7 DEF IInv, Counted
  <1>18. ReadsCurrent'
    <2> SUFFICES ASSUME faults = 0 PROVE ReadsCurrent'
      BY <1>3 DEF ReadsCurrent
    <2>1. \A q \in Runs : q # r /\ Concerned(q) => JobOf(q) # j
      BY <1>9 DEF IInv, ReadsCurrent
    <2>2. \A p, q \in Runs : Concerned(p)' /\ Concerned(q)' /\ JobOf(p)' = JobOf(q)' => p = q
      BY <1>9, <2>1 DEF IInv, ReadsCurrent
    <2>3. ASSUME NEW q \in Runs, run'[q].pc \in Updating
          PROVE  q # r /\ q # t /\ run'[q] = run[q] /\ JobOf(q)' = JobOf(q)
      BY <1>6, <1>8, <1>9, <2>3 DEF Updating
    <2>. QED  BY <1>3, <2>2, <2>3 DEF IInv, ReadsCurrent, Stored, Copied, Begins, Updating
  <1>19. Ongoing'
    <2> SUFFICES ASSUME faults = 0, NEW q \in Runs PROVE Told(q)'
      BY <1>3 DEF Ongoing
    <2>1. CASE q = r \/ q = t
      BY <1>6, <1>8, <2>1 DEF Told, Begins
    <2>2. CASE q # r /\ q # t
      BY <1>3, <1>8, <2>2 DEF IInv, Ongoing, Told, Begins, Stored, JobOf
    <2>. QED  BY <2>1, <2>2
  <1>20. AttemptsCountCalls'
    <2> SUFFICES ASSUME faults = 0, NEW i \in Jobs
                 PROVE  /\ Begun(i)' = Begun(i)
                        /\ (\A q \in Runs : JobOf(q) # i) => \A q \in Runs : JobOf(q)' # i
      BY <1>3 DEF IInv, AttemptsCountCalls
    <2>1. \A q \in Runs : q \in Begun(i)' <=> q \in Begun(i)
      BY <1>3, <1>6, <1>8 DEF Begun, At, Stored, JobOf
    <2>2. Begun(i)' = Begun(i)
      BY <2>1 DEF Begun
    <2>. QED  BY <1>9, <2>2
  <1>21. Attended'
    <2> SUFFICES ASSUME faults = 0, crashes = 0, NEW i \in Jobs, status[i] \in {"queued", "running"}
                 PROVE  \E q \in Runs : JobOf(q)' = i /\ Concerned(q)'
      BY <1>3 DEF Attended
    <2>1. PICK q \in Runs : JobOf(q) = i /\ Concerned(q)
      BY <1>3 DEF IInv, Attended
    <2>2. CASE q = r
      BY <1>3, <1>9, <2>1, <2>2
    <2>3. CASE q # r
      BY <1>9, <2>1, <2>3
    <2>. QED  BY <2>2, <2>3
  <1>. QED  BY <1>11, <1>12, <1>13, <1>14, <1>15, <1>16, <1>17, <1>18, <1>19, <1>20, <1>21 DEF IInv

-----------------------------------------------------------------------------
LEMMA CreateStep ==
  ASSUME IInv, NEW j \in Jobs, Create(j)
  PROVE  IInv'
  <1> DEFINE x == [RunOf(j, "creating") EXCEPT !.copy = 0]
  <1>1. PICK r \in Runs : run[r].pc = "free" /\ run' = [run EXCEPT ![r] = x]
    BY DEF Create, At
  <1>2. /\ run \in [Runs -> RunRecord] /\ calls \in [Jobs -> 0..MaxAttempts]
        /\ MaxAttempts \in Nat \ {0} /\ NoJob \notin Jobs /\ 0 \in 0..NoCopy /\ NoCopy # 0
        /\ 0 \in 0..MaxAttempts
    BY JobAssumption DEF IInv, TypeOK, RunRecord, NoCopy
  <1>3. /\ status[j] = "absent" /\ calls[j] = 0 /\ attempts[j] = 0 /\ j \notin active
        /\ \A q \in Runs : JobOf(q) # j
        /\ UNCHANGED <<status, attempts, active, calls, faults, crashes>>
    BY DEF Create, IInv, FreshJobs
  <1>4. x.job = j /\ x.pc = "creating" /\ x.copy = 0 /\ x.stored = FALSE /\ x \in RunRecord
    BY <1>2 DEF RunRecord, RunOf, PCs
  <1> HIDE DEF x
  <1>5. /\ run'[r] = x /\ \A q \in Runs : q # r => run'[q] = run[q]
        /\ run[r].job = NoJob
    BY <1>1, <1>2 DEF IInv, RunsShaped, JobOf
  <1>6. /\ JobOf(r)' = j /\ \A q \in Runs : q # r => JobOf(q)' = JobOf(q) /\ JobOf(q) # j
        /\ Engaged(r)' /\ ~Executes(r)' /\ ~Executes(r) /\ Concerned(r)' /\ ~Concerned(r)
        /\ \A q \in Runs : q # r => /\ (Engaged(q)' <=> Engaged(q)) /\ (Executes(q)' <=> Executes(q))
                                    /\ (Concerned(q)' <=> Concerned(q))
    BY <1>1, <1>3, <1>4, <1>5 DEF JobOf, Engaged, Executes, Concerned, ConcernedPCs, EngagedPCs, ExecPCs, ComePCs
  <1>7. TypeOK'
    BY <1>1, <1>2, <1>3, <1>4 DEF IInv, TypeOK, RunRecord
  <1>8. RunsShaped'
    BY <1>2, <1>4, <1>5 DEF IInv, RunsShaped, JobOf, Stored, Copied, Updating
  <1>9. FreshJobs'
    BY <1>3, <1>4, <1>5 DEF IInv, FreshJobs, JobOf, Stored
  <1>10. Newborn'
    BY <1>3, <1>4, <1>5, <1>6 DEF IInv, Newborn, Stored
  <1>11. Alone' /\ ActiveNamed'
    BY <1>3, <1>6 DEF IInv, Alone, ActiveNamed
  <1>12. Counted'
    <2>1. \A q \in Runs : q # r /\ Even(q)' => Even(q)
      BY <1>5, <1>6 DEF Even, Begins, Stored
    <2>2. \A q \in Runs : q # r /\ Copied(q)' => run'[q] = run[q] /\ Copied(q)
      BY <1>5 DEF Copied
    <2>. QED  BY <1>2, <1>3, <1>4, <1>5, <1>6, <2>1, <2>2 DEF IInv, Counted, ToExecutePCs, ComePCs
  <1>13. ReadsCurrent'
    BY <1>3, <1>4, <1>5, <1>6 DEF IInv, ReadsCurrent, Stored, Copied, Begins, Updating
  <1>14. Ongoing'
    <2> SUFFICES ASSUME faults = 0, NEW q \in Runs PROVE Told(q)'
      BY <1>3 DEF Ongoing
    <2>1. CASE q = r
      BY <1>4, <1>5, <2>1 DEF Told, Begins
    <2>2. CASE q # r
      BY <1>3, <1>5, <2>2 DEF IInv, Ongoing, Told, Begins, Stored, JobOf
    <2>. QED  BY <2>1, <2>2
  <1>15. AttemptsCountCalls'
    <2> SUFFICES ASSUME faults = 0, NEW i \in Jobs
                 PROVE  /\ Begun(i)' = Begun(i)
                        /\ (\A q \in Runs : JobOf(q) # i) => i = j \/ \A q \in Runs : JobOf(q)' # i
      BY <1>3 DEF IInv, AttemptsCountCalls
    <2>1. \A q \in Runs : q \in Begun(i)' <=> q \in Begun(i)
      BY <1>1, <1>4, <1>5 DEF Begun, At, Stored, JobOf
    <2>2. Begun(i)' = Begun(i)
      BY <2>1 DEF Begun
    <2>. QED  BY <1>6, <2>2
  <1>16. Attended'
    BY <1>3, <1>6 DEF IInv, Attended
  <1>. QED  BY <1>7, <1>8, <1>9, <1>10, <1>11, <1>12, <1>13, <1>14, <1>15, <1>16 DEF IInv

\* A death between the count and the execution leaves the job running and deserted.
LEMMA RestartStep ==
  ASSUME IInv, Restart
  PROVE  IInv'
  <1>1. /\ crashes' = crashes + 1 /\ active' = {} /\ UNCHANGED <<status, attempts, calls, faults>>
        /\ run' = [r \in Runs |-> Idle] /\ crashes \in Nat /\ crashes' \in 0..MaxCrashes
    BY JobAssumption DEF Restart, IInv, TypeOK
  <1>2. Idle.pc = "free" /\ Idle.job = NoJob /\ Idle.copy = NoCopy /\ Idle.stored = FALSE
        /\ Idle \in RunRecord /\ NoJob \notin Jobs
    BY JobAssumption DEF Idle, RunOf, RunRecord, PCs, NoCopy
  <1>3. \A r \in Runs : /\ run'[r] = Idle /\ JobOf(r)' = NoJob /\ ~Engaged(r)' /\ ~Executes(r)'
                        /\ ~Concerned(r)' /\ ~Even(r)' /\ ~Copied(r)' /\ ~Stored(r)' /\ ~Begins(r)'
    BY <1>1, <1>2 DEF JobOf, Engaged, Executes, Concerned, Even, Copied, Stored, Begins, ConcernedPCs,
                      EngagedPCs, ExecPCs, ComePCs
  <1>4. TypeOK'
    BY <1>1, <1>2 DEF IInv, TypeOK, RunRecord
  <1>5. RunsShaped' /\ FreshJobs' /\ Newborn' /\ Alone' /\ ActiveNamed'
    BY <1>1, <1>2, <1>3 DEF IInv, RunsShaped, FreshJobs, Newborn, Alone, ActiveNamed
  <1>6. Counted' /\ ReadsCurrent' /\ Ongoing'
    BY <1>1, <1>2, <1>3 DEF IInv, Counted, ReadsCurrent, Ongoing, Told, ToExecutePCs, ComePCs, Updating
  <1>7. AttemptsCountCalls'
    <2> SUFFICES ASSUME faults = 0, NEW i \in Jobs
                 PROVE  \/ attempts[i] = calls[i]
                        \/ attempts[i] = calls[i] + 1 /\ status[i] = "running"
      BY <1>1, <1>2, <1>3 DEF AttemptsCountCalls, Begun, Stored
    <2>1. CASE Begun(i) = {}
      BY <2>1 DEF IInv, AttemptsCountCalls
    <2>2. CASE Begun(i) # {}
      <3>1. PICK r \in Begun(i) : TRUE
        BY <2>2
      <3>2. status[i] = "running"
        BY <3>1 DEF IInv, Ongoing, Told, Begins, Begun, At
      <3>. QED  BY <2>2, <3>2 DEF IInv, AttemptsCountCalls
    <2>. QED  BY <2>1, <2>2
  <1>8. Attended'
    BY <1>1 DEF Attended
  <1>. QED  BY <1>4, <1>5, <1>6, <1>7, <1>8 DEF IInv

LEMMA NextIInv == IInv /\ [Next]_vars => IInv'
  <1> SUFFICES ASSUME IInv, [Next]_vars PROVE IInv'
    OBVIOUS
  <1>1. CASE UNCHANGED vars
    BY <1>1 DEF vars, IInv, TypeOK, RunsShaped, FreshJobs, Newborn, Alone, ActiveNamed, Counted, ReadsCurrent,
                Ongoing, Told, AttemptsCountCalls, Begun, At, Attended, JobOf, Stored, Copied, Begins, Even,
                Engaged, Executes, Concerned
  <1>. QED  BY <1>1, QuietSteps, CommitStep, MarkStep, RequeueStep, CreateStep, RestartStep DEF Next, RunStep

LEMMA InvariantHolds == Spec => []IInv
  BY InitIInv, NextIInv, PTL DEF Spec

\* What a write replaces, while no statement has failed.
LEMMA WritesOverUnfinished ==
  ASSUME IInv, [Next]_vars, faults = 0, NEW j \in Jobs
  PROVE  /\ status[j] \in Terminal => status'[j] = status[j]
         /\ status[j] = "queued" => status'[j] \in {"queued", "running"}
  <1>1. CASE UNCHANGED status
    BY <1>1
  <1>2. ASSUME NEW r \in Runs, Commit(r)
        PROVE  /\ status[j] \in Terminal => status'[j] = status[j]
               /\ status[j] = "queued" => status'[j] \in {"queued", "running"}
    <2>1. PICK s, n : <<run[r].pc, s>> \in Patch /\ Writes(r, s, n)
      BY <1>2 DEF Commit
    <2>2. /\ ~Stored(r) /\ status' = [status EXCEPT ![JobOf(r)] = s]
          /\ status \in [Jobs -> {"absent", "queued", "running"} \cup Terminal]
      BY <2>1 DEF Writes, IInv, TypeOK
    <2>3. CASE j # JobOf(r)
      BY <2>2, <2>3
    <2>4. CASE run[r].pc = "creating"
      BY <2>2, <2>4 DEF IInv, Newborn, Terminal
    <2>5. CASE run[r].pc = "marking"
      <3>1. s = "running" /\ status[JobOf(r)] \in {"queued", "running"}
        BY <2>1, <2>2, <2>5 DEF Patch, IInv, Ongoing, Told
      <3>. QED  BY <2>2, <3>1 DEF Terminal
    <2>6. CASE run[r].pc \in {"requeueing", "completing", "refusing", "failing"}
      <3>1. status[JobOf(r)] = "running"
        BY <2>2, <2>6 DEF IInv, Ongoing, Told
      <3>. QED  BY <2>3, <3>1 DEF Terminal
    <2>. QED  BY <2>1, <2>3, <2>4, <2>5, <2>6 DEF Patch
  <1>3. UNCHANGED status \/ \E r \in Runs : Commit(r)
    BY DEF Next, RunStep, vars, Create, Created, Start, Read, Copy, Mark, CallEnds, Requeue, Complete, Answered,
           TimerFires, MarkFailed, StatementFails, HandlerFails, Restart
  <1>. QED  BY <1>1, <1>2, <1>3

-----------------------------------------------------------------------------
\* Every variable keeps its type.
THEOREM JobsTypeOK == Spec => []TypeOK
  <1>1. IInv => TypeOK
    BY DEF IInv
  <1>. QED  BY <1>1, InvariantHolds, PTL

\* The runs of job-store.ts that execute a job or may begin to are at most one, and
\* activeJobs names the executed jobs, through faults and restarts alike.
THEOREM JobsOneExecution == Spec => []OneExecution
  <1>1. IInv => OneExecution
    <2> SUFFICES ASSUME IInv, NEW j \in Jobs
                 PROVE  /\ Cardinality(Executing(j) \cup Coming(j)) <= 1
                        /\ j \in active <=> Executing(j) # {}
      BY DEF OneExecution
    <2> DEFINE S == Executing(j) \cup Coming(j)
    <2>1. \A r, q \in S : r = q
      BY DEF IInv, Alone, Engaged, EngagedPCs, ExecPCs, ComePCs, Executing, Coming, Updating
    <2>2. j \in active <=> Executing(j) # {}
      BY DEF IInv, ActiveNamed, Executes, ExecPCs, Executing, Updating
    <2> HIDE DEF S
    <2>3. S = {} \/ \E r : S = {r}
      BY <2>1
    <2>4. Cardinality(S) <= 1
      <3>1. CASE S = {}
        BY <3>1, FS_EmptySet
      <3>2. CASE \E r : S = {r}
        <4>1. Cardinality(S) = 1
          BY <3>2, FS_Singleton
        <4>. QED  BY <4>1
      <3>. QED  BY <2>3, <3>1, <3>2
    <2>. QED  BY <2>2, <2>4 DEF S
  <1>. QED  BY <1>1, InvariantHolds, PTL

\* While no store statement has failed the stored attempts are the executions begun, one more
\* exactly while a run stands between updateJob(running) and its call, and one more for good
\* only for a job that a death between the two left running and deserted.
THEOREM JobsAttemptsCountCalls == Spec => []AttemptsCountCalls
  <1>1. IInv => AttemptsCountCalls
    BY DEF IInv
  <1>. QED  BY <1>1, InvariantHolds, PTL

\* While no store statement has failed an outcome is the last word: nothing is written over a
\* finished job, and a requeued one is executed before it can fail (processJob, scheduleJob's
\* handler), for any number of runs, retries and restarts.
THEOREM JobsOutcomeStands == Spec => OutcomeStands
  <1>1. IInv /\ [Next]_vars =>
          [\A j \in Jobs : faults = 0 =>
             /\ status[j] \in Terminal => status'[j] = status[j]
             /\ status[j] = "queued" => status'[j] \in {"queued", "running"}]_vars
    BY WritesOverUnfinished
  <1>. QED  BY <1>1, InvariantHolds, PTL DEF Spec, OutcomeStands

\* While the process lives and the store answers, an unfinished job has a run or a
\* retry timer.
THEOREM JobsNoOrphan == Spec => []NoOrphan
  <1>1. IInv => NoOrphan
    <2> SUFFICES ASSUME IInv, faults = 0, crashes = 0, NEW j \in Jobs, status[j] \in {"queued", "running"}
                 PROVE  Executing(j) \cup Coming(j) \cup {r \in Runs : JobOf(r) = j /\ At(r, "failing")} # {}
      BY DEF NoOrphan
    <2>1. PICK r \in Runs : JobOf(r) = j /\ Concerned(r)
      BY DEF IInv, Attended
    <2>2. r \in Executing(j) \cup Coming(j) \cup {q \in Runs : JobOf(q) = j /\ At(q, "failing")}
      BY <2>1 DEF Executing, Coming, At, Updating, Concerned, ConcernedPCs, EngagedPCs, ExecPCs, ComePCs
    <2>. QED  BY <2>2
  <1>. QED  BY <1>1, InvariantHolds, PTL
=============================================================================
