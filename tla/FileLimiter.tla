------------------------------ MODULE FileLimiter ------------------------------
(***************************************************************************)
(* The file backend of the shared limiter (bots/hub/lib/llm/               *)
(* shared-limiter.ts): owner files elect the one process that may use it,  *)
(* a lease is the file of its slot, and a lock file per slot guards what   *)
(* is done to the lease file.  Each process runs one synchronous function  *)
(* at a time, and other processes come in between any two of its file      *)
(* system calls.  One scope; the composite of scopes is SharedLimiter's.   *)
(***************************************************************************)
EXTENDS Integers, FiniteSets

CONSTANTS
  Procs,    \* processes that share the limiter directory
  Born,     \* startedAtNs of each process
  Calls,    \* calls of acquireSharedLimiterLease; a call's name is its lease id too
  ProcOf,   \* the process of each call
  Limit,    \* slots of the scope
  Retries,  \* releases retried before release() throws, 3 in the code
  Faults,   \* what may go wrong in this instance: "elect", "lock", "take", "drop", "renew": a call of
            \* the file system there throws; "pid": another program gets a dead process's pid
  NoCall, NoProc

ASSUME FileAssumption ==
  /\ ProcOf \in [Calls -> Procs]
  /\ Born \in [Procs -> Int]
  /\ \A p, q \in Procs : Born[p] = Born[q] => p = q
  /\ Limit \in Nat \ {0}
  /\ Retries \in Nat
  /\ NoCall \notin Calls
  /\ NoProc \notin Procs

VARIABLES
  owner,    \* each process's owner file: none, blank (opened, nothing written), full
  ballot,   \* election: owner files still to be read, whether one of them wins over ours
  elders,   \* history: older owners whose file has stood since this election began
  reused,   \* dead processes whose pid another program has now (a later process of the limiter, too)
  contested,\* history: processes in an election since whose beginning another owner's pid was in use
  lease,    \* each slot's lease file: whose, and blank or written
  lock,     \* each slot's lock file: whose, and whether it is past its TTL
  run,      \* the synchronous function each process is in
  status,   \* what each call has been told
  at,       \* the slot of each call's lease
  retries,  \* release retries of each call
  lapsed,   \* leases past their expiresAt
  stolen    \* history: a lock was removed while its holder was in its section

vars == <<owner, ballot, elders, reused, contested, lease, lock, run, status, at, retries, lapsed, stolen>>
history == <<elders, contested>>
election == <<owner, ballot, history, reused>>
calls == <<status, at, retries>>

Slots == 0 .. Limit - 1
NoLease == [by |-> NoCall, blank |-> FALSE]
NoLock == [by |-> NoProc, expired |-> FALSE]
NoBallot == [left |-> {}, beaten |-> FALSE]

\* The frame of a process: where it is, which section it wants the slot's lock for,
\* for which call (NoCall: status only), slot, attempt at the lock, result so far.
At(pc, sec, c, s) == [pc |-> pc, sec |-> sec, call |-> c, slot |-> s, second |-> FALSE, ok |-> FALSE]
Idle == At("idle", "prune", NoCall, 0)
Dead == [Idle EXCEPT !.pc = "dead"]

Init ==
  /\ owner = [p \in Procs |-> "none"]
  /\ ballot = [p \in Procs |-> NoBallot]
  /\ elders = [p \in Procs |-> {}]
  /\ reused = {}
  /\ contested = {}
  /\ lease = [s \in Slots |-> NoLease]
  /\ lock = [s \in Slots |-> NoLock]
  /\ run = [p \in Procs |-> Idle]
  /\ status = [c \in Calls |-> "new"]
  /\ at = [c \in Calls |-> 0]
  /\ retries = [c \in Calls |-> 0]
  /\ lapsed = {}
  /\ stolen = FALSE

Alive(p) == run[p].pc # "dead"

\* isProcessAlive: whether any process has the owner's pid.
PidInUse(p) == Alive(p) \/ p \in reused

Older(q, p) == Born[q] < Born[p]
Tell(c, s) == status' = [status EXCEPT ![c] = s]
Enter(p, f) == run' = [run EXCEPT ![p] = f]
Goto(p, l) == run' = [run EXCEPT ![p].pc = l]

\* expiresAt > Date.now(); a blank file has no expiresAt.
Live(s) == lease[s] # NoLease /\ ~lease[s].blank /\ lease[s].by \notin lapsed

-----------------------------------------------------------------------------
\* Owner election (ensureFileBackendSingleProcessOwner).

\* A new call: the process writes its owner file unless it has one, else lists.
BeginAcquire(p, c) ==
  /\ run[p] = Idle
  /\ ProcOf[c] = p /\ status[c] = "new"
  /\ Tell(c, "asking")
  /\ Enter(p, At(IF owner[p] = "none" THEN "open" ELSE "list", "prune", c, 0))
  /\ elders' = [elders EXCEPT ![p] = {q \in Procs : Older(q, p) /\ owner[q] = "full" /\ Alive(q)}]
  /\ contested' = IF \E q \in Procs \ {p} : PidInUse(q) THEN contested \cup {p} ELSE contested
  /\ UNCHANGED <<owner, ballot, reused, lease, lock, at, retries, lapsed, stolen>>

\* The election of p is over.
Elected(p) ==
  /\ elders' = [elders EXCEPT ![p] = {}]
  /\ contested' = contested \ {p}

\* writeFileSync creates the file ...
OwnerOpen(p) ==
  /\ run[p].pc = "open"
  /\ owner' = [owner EXCEPT ![p] = "blank"]
  /\ Goto(p, "write")
  /\ UNCHANGED <<ballot, history, reused, lease, lock, calls, lapsed, stolen>>

\* ... and writes it;
OwnerWrite(p) ==
  /\ run[p].pc = "write"
  /\ owner' = [owner EXCEPT ![p] = "full"]
  /\ Goto(p, "list")
  /\ UNCHANGED <<ballot, history, reused, lease, lock, calls, lapsed, stolen>>

\* or something throws: shared_limiter_file_owner_check_failed, with the file left as it is.
OwnerCheckFails(p) ==
  /\ "elect" \in Faults
  /\ run[p].pc \in {"open", "write", "list"}
  /\ Tell(run[p].call, "failed")
  /\ Enter(p, Idle)
  /\ Elected(p)
  /\ UNCHANGED <<owner, ballot, reused, lease, lock, at, retries, lapsed, stolen>>

\* readdirSync.
List(p) ==
  /\ run[p].pc = "list"
  /\ ballot' = [ballot EXCEPT ![p].left = {q \in Procs : owner[q] # "none"}]
  /\ Goto(p, "scan")
  /\ UNCHANGED <<owner, history, reused, lease, lock, calls, lapsed, stolen>>

\* Mutant of Beats: the later process comes first.
BeatsReversed(q, p) == owner[q] # "full" \/ Older(p, q)

\* What p reads of a listed owner q sorts before p's own entry: a file that is blank,
\* or gone since, has no start time and no id, which comes first.
Beats(q, p) == owner[q] # "full" \/ Older(q, p)

\* Mutant of Scan: the file of a dead process still counts.
ScanTheDead(p) ==
  /\ run[p].pc = "scan"
  /\ \E q \in ballot[p].left :
       ballot' = [ballot EXCEPT ![p] = [left |-> @.left \ {q}, beaten |-> @.beaten \/ Beats(q, p)]]
  /\ UNCHANGED <<owner, history, reused, lease, lock, run, calls, lapsed, stolen>>

\* One listed owner is read; if nobody has its pid its file is removed, unless that fails.
Scan(p) ==
  /\ run[p].pc = "scan"
  /\ \E q \in ballot[p].left :
       /\ ballot' = [ballot EXCEPT ![p] = [left |-> @.left \ {q}, beaten |-> @.beaten \/ (PidInUse(q) /\ Beats(q, p))]]
       /\ \/ (PidInUse(q) \/ "elect" \in Faults) /\ UNCHANGED owner
          \/ ~PidInUse(q) /\ owner' = [owner EXCEPT ![q] = "none"]
  /\ UNCHANGED <<history, reused, lease, lock, run, calls, lapsed, stolen>>

\* The winner goes on to the slots, a loser removes its own file and is refused.
Decide(p) ==
  /\ run[p].pc = "scan" /\ ballot[p].left = {}
  /\ ballot' = [ballot EXCEPT ![p] = NoBallot]
  /\ contested' = contested \ {p}
  /\ IF ballot[p].beaten
     THEN /\ owner' = [owner EXCEPT ![p] = "none"]
          /\ elders' = [q \in Procs |-> IF q = p THEN {} ELSE elders[q] \ {p}]
          /\ Tell(run[p].call, "outranked")
          /\ Enter(p, Idle)
     ELSE /\ Goto(p, "observe")
          /\ elders' = [elders EXCEPT ![p] = {}]
          /\ UNCHANGED <<owner, status>>
  /\ UNCHANGED <<reused, lease, lock, at, retries, lapsed, stolen>>

-----------------------------------------------------------------------------
\* What follows a section, or the failure to lock for it (ok: what it returned).

\* pruneStaleLeases goes to the next file, then the call to the slots.
PruneDone(p) ==
  LET f == run[p] IN
  /\ Enter(p, IF f.slot + 1 < Limit THEN At("observe", "prune", f.call, f.slot + 1)
              ELSE IF f.call = NoCall THEN Idle ELSE At("look", "take", f.call, 0))
  /\ UNCHANGED calls

\* acquireFileScopeLease: the lease, else the next slot, else full.
TakeDone(p, ok) ==
  LET f == run[p] IN
  /\ UNCHANGED retries
  /\ IF ok
     THEN /\ Tell(f.call, "held")
          /\ at' = [at EXCEPT ![f.call] = f.slot]
          /\ Enter(p, Idle)
     ELSE /\ UNCHANGED at
          /\ IF f.slot + 1 < Limit
             THEN Enter(p, At("look", "take", f.call, f.slot + 1)) /\ UNCHANGED status
             ELSE Enter(p, Idle) /\ Tell(f.call, "full")

\* renewFileScopeLease answers; FALSE makes the caller's lease invalid.
RenewDone(p, ok) ==
  /\ Enter(p, Idle)
  /\ IF ok THEN UNCHANGED status ELSE Tell(run[p].call, "lost")
  /\ UNCHANGED <<at, retries>>

\* releaseFileScopeLease: done, or retryFileScopeLeaseRelease looks, or throws.
ReleaseDone(p, ok) ==
  LET c == run[p].call IN
  /\ UNCHANGED <<at, retries>>
  /\ IF ok THEN Tell(c, "released") /\ Enter(p, Idle)
     ELSE IF retries[c] = Retries THEN Tell(c, "uncertain") /\ Enter(p, Idle)
     ELSE Goto(p, "look") /\ UNCHANGED status

SectionDone(p, ok) ==
  CASE run[p].sec = "prune" -> PruneDone(p)
    [] run[p].sec = "take" -> TakeDone(p, ok)
    [] run[p].sec = "renew" -> RenewDone(p, ok)
    [] run[p].sec = "release" -> ReleaseDone(p, ok)

\* Without the lock: a renewal reads whether the lease is still its own and live.
LockRefused(p) ==
  IF run[p].sec = "renew" THEN Goto(p, "look") /\ UNCHANGED calls ELSE SectionDone(p, FALSE)

-----------------------------------------------------------------------------
\* The slot lock (withFileSlotLock).

Sections == {"recheck", "drop", "create", "fill", "verify", "rewrite", "refill", "unlock"}
InSection(p, s) == run[p].slot = s /\ run[p].pc \in Sections

\* The first step of each section.
Entry == [prune |-> "recheck", take |-> "create", renew |-> "verify", release |-> "recheck"]

\* openSync with wx makes the lock file, at the first attempt or the second; or EEXIST.
Lock(p) ==
  LET s == run[p].slot IN
  /\ run[p].pc = "lock"
  /\ IF lock[s] = NoLock
     THEN /\ lock' = [lock EXCEPT ![s] = [by |-> p, expired |-> FALSE]]
          /\ Enter(p, [run[p] EXCEPT !.pc = Entry[run[p].sec], !.second = FALSE])
     ELSE UNCHANGED lock /\ Goto(p, "inspect")
  /\ UNCHANGED <<election, lease, calls, lapsed, stolen>>

\* The lock file cannot be made, or not written: then it is removed again, unless that fails.
LockFails(p) ==
  LET s == run[p].slot IN
  /\ "lock" \in Faults
  /\ run[p].pc = "lock" /\ lock[s] = NoLock
  /\ lock' \in {lock, [lock EXCEPT ![s] = [by |-> p, expired |-> FALSE]]}
  /\ LockRefused(p)
  /\ UNCHANGED <<election, lease, lapsed, stolen>>

\* Mutant of Inspect: an expired lock is respected like any other.
InspectPatient(p) ==
  /\ run[p].pc = "inspect"
  /\ LockRefused(p)
  /\ UNCHANGED <<election, lease, lock, lapsed, stolen>>

\* The lock file is read: expired (by its contents or, unwritten, by its age), or not, or gone.
Inspect(p) ==
  /\ run[p].pc = "inspect"
  /\ IF lock[run[p].slot].expired
     THEN Goto(p, "evict") /\ UNCHANGED calls
     ELSE LockRefused(p)
  /\ UNCHANGED <<election, lease, lock, lapsed, stolen>>

\* unlinkSync of the lock path, whatever is there by now; one more try, if it was the first.
Evict(p) ==
  LET s == run[p].slot IN
  /\ run[p].pc = "evict"
  /\ lock' = [lock EXCEPT ![s] = NoLock]
  /\ stolen' = (stolen \/ \E q \in Procs : lock[s].by = q /\ InSection(q, s))
  /\ IF lock[s] = NoLock \/ run[p].second THEN LockRefused(p)
     ELSE Enter(p, [run[p] EXCEPT !.pc = "lock", !.second = TRUE]) /\ UNCHANGED calls
  /\ UNCHANGED <<election, lease, lapsed>>

\* That cannot be removed either.
EvictFails(p) ==
  /\ "lock" \in Faults
  /\ run[p].pc = "evict"
  /\ LockRefused(p)
  /\ UNCHANGED <<election, lease, lock, lapsed, stolen>>

\* The finally: the lock file goes if it is still this section's, unless its removal fails.
\* (Reading it and removing it are two calls; a lock taken away in between was stolen anyway.)
Freed(p, s) ==
  {l \in {lock, [lock EXCEPT ![s] = NoLock]} :
     IF lock[s].by = p THEN l = lock => "lock" \in Faults ELSE l = lock}

Unlock(p) ==
  LET s == run[p].slot IN
  /\ run[p].pc = "unlock"
  /\ lock' \in Freed(p, s)
  /\ SectionDone(p, run[p].ok)
  /\ UNCHANGED <<election, lease, lapsed, stolen>>

\* The section returns.
Return(p, ok) == Enter(p, [run[p] EXCEPT !.pc = "unlock", !.ok = ok])

-----------------------------------------------------------------------------
\* What is read before, or instead of, taking the lock.

\* getSharedLimiterState prunes too, in any process and without an election.
BeginStatus(p) ==
  /\ run[p] = Idle
  /\ Enter(p, At("observe", "prune", NoCall, 0))
  /\ UNCHANGED <<election, lease, lock, calls, lapsed, stolen>>

\* pruneStaleLeases passes a slot without a lease file or with a live one.
Observe(p) ==
  LET s == run[p].slot IN
  /\ run[p].pc = "observe"
  /\ IF lease[s] = NoLease \/ Live(s) THEN PruneDone(p) ELSE Goto(p, "lock") /\ UNCHANGED calls
  /\ UNCHANGED <<election, lease, lock, lapsed, stolen>>

\* existsSync of the slot's lease file.
LookFree(p) ==
  /\ run[p].pc = "look" /\ run[p].sec = "take"
  /\ IF lease[run[p].slot] # NoLease THEN TakeDone(p, FALSE) ELSE Goto(p, "lock") /\ UNCHANGED calls
  /\ UNCHANGED <<election, lease, lock, lapsed, stolen>>

\* isOwnedLiveFileLease, for a renewal that did not get the lock.
LookOwned(p) ==
  LET s == run[p].slot IN
  /\ run[p].pc = "look" /\ run[p].sec = "renew"
  /\ RenewDone(p, Live(s) /\ lease[s].by = run[p].call)
  /\ UNCHANGED <<election, lease, lock, lapsed, stolen>>

\* retryFileScopeLeaseRelease: nothing left to release, or sleep and release once more.
LookLeft(p) ==
  LET c == run[p].call IN
  /\ run[p].pc = "look" /\ run[p].sec = "release"
  /\ Tell(c, IF lease[run[p].slot].by = c /\ ~lease[run[p].slot].blank THEN "sleeping" ELSE "released")
  /\ Enter(p, Idle)
  /\ UNCHANGED <<election, lease, lock, at, retries, lapsed, stolen>>

BeginRenew(p, c) ==
  /\ run[p] = Idle
  /\ ProcOf[c] = p /\ status[c] = "held"
  /\ Enter(p, At("lock", "renew", c, at[c]))
  /\ UNCHANGED <<election, lease, lock, calls, lapsed, stolen>>

\* release() of a lease held or found lost, or its retry.
BeginRelease(p, c) ==
  /\ run[p] = Idle
  /\ ProcOf[c] = p /\ status[c] \in {"held", "lost", "sleeping"}
  /\ Enter(p, At("lock", "release", c, at[c]))
  /\ Tell(c, "releasing")
  /\ retries' = IF status[c] = "sleeping" THEN [retries EXCEPT ![c] = @ + 1] ELSE retries
  /\ UNCHANGED <<election, lease, lock, at, lapsed, stolen>>

-----------------------------------------------------------------------------
\* The sections.

\* A call of the file system in the section throws: the section returns FALSE.
Throws(p) ==
  /\ Return(p, FALSE)
  /\ UNCHANGED <<election, lease, lock, calls, lapsed, stolen>>

\* Mutant of Recheck: what was seen before the lock is believed.
RecheckNot(p) ==
  /\ run[p].pc = "recheck"
  /\ Goto(p, "drop")
  /\ UNCHANGED <<election, lease, lock, calls, lapsed, stolen>>

\* A prune reads again that the lease is not live, a release that it is its own.
Recheck(p) ==
  LET s == run[p].slot IN
  /\ run[p].pc = "recheck"
  /\ IF \/ run[p].sec = "prune" /\ ~Live(s)
        \/ run[p].sec = "release" /\ lease[s] = [by |-> run[p].call, blank |-> FALSE]
     THEN Goto(p, "drop") ELSE Return(p, FALSE)
  /\ UNCHANGED <<election, lease, lock, calls, lapsed, stolen>>

\* unlinkSync of the lease file; it throws if there is none.
Drop(p) ==
  LET s == run[p].slot IN
  /\ run[p].pc = "drop"
  /\ lease' = [lease EXCEPT ![s] = NoLease]
  /\ Return(p, lease[s] # NoLease)
  /\ UNCHANGED <<election, lock, calls, lapsed, stolen>>

\* or it throws with the lease file left.
DropFails(p) == "drop" \in Faults /\ run[p].pc = "drop" /\ Throws(p)

\* openSync of the lease file with wx, or EEXIST: somebody was faster.
Create(p) ==
  LET s == run[p].slot IN
  /\ run[p].pc = "create"
  /\ IF lease[s] = NoLease
     THEN lease' = [lease EXCEPT ![s] = [by |-> run[p].call, blank |-> TRUE]] /\ Goto(p, "fill")
     ELSE UNCHANGED lease /\ Return(p, FALSE)
  /\ UNCHANGED <<election, lock, calls, lapsed, stolen>>

\* Its contents are written through the descriptor of the file that was made.
Fill(p) ==
  LET s == run[p].slot IN
  /\ run[p].pc = "fill"
  /\ lease' = IF lease[s].by = run[p].call THEN [lease EXCEPT ![s].blank = FALSE] ELSE lease
  /\ Return(p, TRUE)
  /\ UNCHANGED <<election, lock, calls, lapsed, stolen>>

\* shared_limiter_io_error: the file was not made, or stays blank; the lock goes, the call fails.
FillFails(p) ==
  /\ "take" \in Faults
  /\ run[p].pc \in {"create", "fill"}
  /\ lock' \in Freed(p, run[p].slot)
  /\ Tell(run[p].call, "failed")
  /\ Enter(p, Idle)
  /\ UNCHANGED <<election, lease, at, retries, lapsed, stolen>>

\* A renewal reads that the lease is its own and live;
Verify(p) ==
  LET s == run[p].slot IN
  /\ run[p].pc = "verify"
  /\ IF Live(s) /\ lease[s].by = run[p].call THEN Goto(p, "rewrite") ELSE Return(p, FALSE)
  /\ UNCHANGED <<election, lease, lock, calls, lapsed, stolen>>

\* writeFileSync truncates whatever file is at the path;
Rewrite(p) ==
  /\ run[p].pc = "rewrite"
  /\ lease' = [lease EXCEPT ![run[p].slot] = [by |-> run[p].call, blank |-> TRUE]]
  /\ Goto(p, "refill")
  /\ UNCHANGED <<election, lock, calls, lapsed, stolen>>

\* and writes the new expiry, which revives a lease that lapsed meanwhile; the answer
\* is read back.
Refill(p) ==
  LET s == run[p].slot IN
  /\ run[p].pc = "refill"
  /\ lease' = IF lease[s].by = run[p].call THEN [lease EXCEPT ![s].blank = FALSE] ELSE lease
  /\ lapsed' = lapsed \ {run[p].call}
  /\ Return(p, lease[s].by = run[p].call)
  /\ UNCHANGED <<election, lock, calls, stolen>>

\* writeFileSync throws, before or after it truncated the file: the renewal failed.
RenewFails(p) == "renew" \in Faults /\ run[p].pc \in {"rewrite", "refill"} /\ Throws(p)

-----------------------------------------------------------------------------
\* The environment.

\* A lease's TTL passes.
Lapse(c) ==
  /\ c \notin lapsed
  /\ \E s \in Slots : lease[s] = [by |-> c, blank |-> FALSE]
  /\ lapsed' = lapsed \cup {c}
  /\ UNCHANGED <<election, lease, lock, run, calls, stolen>>

\* FILE_SLOT_LOCK_TTL_MS passes: the lock was left behind, or its holder stalls in its
\* section (bound: until a lock was stolen).
LockExpires(s) ==
  /\ lock[s] # NoLock /\ ~lock[s].expired
  /\ stolen => ~InSection(lock[s].by, s)
  /\ lock' = [lock EXCEPT ![s].expired = TRUE]
  /\ UNCHANGED <<election, lease, run, calls, lapsed, stolen>>

\* A process dies, its calls with it; its files stay.
Die(p) ==
  /\ Alive(p)
  /\ Enter(p, Dead)
  /\ ballot' = [ballot EXCEPT ![p] = NoBallot]
  /\ elders' = [q \in Procs |-> IF q = p THEN {} ELSE elders[q] \ {p}]
  /\ contested' = contested \ {p}
  /\ status' = [c \in Calls |-> IF ProcOf[c] = p THEN "gone" ELSE status[c]]
  /\ UNCHANGED <<owner, reused, lease, lock, at, retries, lapsed, stolen>>

\* The system gives a dead process's pid to another program, which ends some time or never.
Electing == {"open", "write", "list", "scan"}
PidTaken(p) ==
  /\ "pid" \in Faults
  /\ ~PidInUse(p)
  /\ reused' = reused \cup {p}
  /\ contested' = contested \cup {q \in Procs : run[q].pc \in Electing}
  /\ UNCHANGED <<owner, ballot, elders, lease, lock, run, calls, lapsed, stolen>>

PidFreed(p) ==
  /\ p \in reused
  /\ reused' = reused \ {p}
  /\ UNCHANGED <<owner, ballot, history, lease, lock, run, calls, lapsed, stolen>>

-----------------------------------------------------------------------------
Begin(p, c) == BeginAcquire(p, c) \/ BeginRenew(p, c) \/ BeginRelease(p, c)

Elect(p) == OwnerOpen(p) \/ OwnerWrite(p) \/ OwnerCheckFails(p) \/ List(p) \/ Scan(p) \/ Decide(p)
Read(p) == Observe(p) \/ LookFree(p) \/ LookOwned(p) \/ LookLeft(p)
LockStep(p) == Lock(p) \/ LockFails(p) \/ Inspect(p) \/ Evict(p) \/ EvictFails(p) \/ Unlock(p)
Section(p) ==
  \/ Recheck(p) \/ Drop(p) \/ DropFails(p) \/ Create(p) \/ Fill(p) \/ FillFails(p)
  \/ Verify(p) \/ Rewrite(p) \/ Refill(p) \/ RenewFails(p)

Step(p) == Elect(p) \/ Read(p) \/ LockStep(p) \/ Section(p)

Next ==
  \/ \E p \in Procs : BeginStatus(p) \/ Step(p) \/ \E c \in Calls : Begin(p, c)
  \/ \E p \in Procs : Die(p) \/ PidTaken(p) \/ PidFreed(p)
  \/ \E c \in Calls : Lapse(c)
  \/ \E s \in Slots : LockExpires(s)

Spec == Init /\ [][Next]_vars

\* Synchronous code runs on, the clock runs, and every process keeps being asked for
\* its status; making lock files and removing files do not fail every time.  No call need be
\* renewed or released.
LockTaken(p) == Lock(p) /\ lock[run[p].slot] = NoLock

\* The first conjunct is weak fairness of Step(p) \/ BeginStatus(p), without ENABLED: one of
\* them can be taken as long as p lives, and run[p] cannot change for ever without them.
Fairness ==
  /\ \A p \in Procs : []<>~Alive(p) \/ []<><<run'[p] # run[p]>>_run
  /\ SF_vars(\E p \in Procs : LockTaken(p))
  /\ SF_vars(\E p \in Procs : Evict(p))
  /\ SF_vars(\E p \in Procs : Drop(p))
  /\ \A c \in Calls : WF_vars(Lapse(c))
  /\ \A s \in Slots : WF_vars(LockExpires(s))
FairSpec == Spec /\ Fairness

-----------------------------------------------------------------------------
Files == [by : Calls, blank : BOOLEAN] \cup {NoLease}
Locks == [by : Procs, expired : BOOLEAN] \cup {NoLock}
PCs == {"idle", "dead", "open", "write", "list", "scan", "observe", "look", "lock",
        "inspect", "evict"} \cup Sections
Frames == [pc : PCs, sec : DOMAIN Entry, call : Calls \cup {NoCall}, slot : Slots, second : BOOLEAN, ok : BOOLEAN]
Statuses == {"new", "asking", "outranked", "failed", "full", "held", "lost", "releasing",
             "sleeping", "released", "uncertain", "gone"}

\* Every variable has its type; only a status query runs without a call.
TypeOK ==
  /\ owner \in [Procs -> {"none", "blank", "full"}]
  /\ ballot \in [Procs -> [left : SUBSET Procs, beaten : BOOLEAN]]
  /\ elders \in [Procs -> SUBSET Procs]
  /\ reused \subseteq Procs
  /\ contested \subseteq Procs
  /\ lease \in [Slots -> Files]
  /\ lock \in [Slots -> Locks]
  /\ run \in [Procs -> Frames]
  /\ status \in [Calls -> Statuses]
  /\ at \in [Calls -> Slots]
  /\ retries \in [Calls -> 0 .. Retries]
  /\ lapsed \subseteq Calls
  /\ stolen \in BOOLEAN

\* Whose lease counts: told so by a process that lives, and not past its expiry.
Holders == {c \in Calls :
  status[c] \in {"held", "sleeping"} /\ c \notin lapsed /\ Alive(ProcOf[c])}

\* A lease is lost only by lapsing: unless a slot lock was taken from a holder at work,
\* the file of every unexpired lease is there with its id, through prunes that saw an
\* older lease in the slot, torn files, renewals that came too late and dead processes.
OwnsUntilLapsed == ~stolen => \A c \in Holders : lease[at[c]].by = c

\* An older owner whose file stands throughout an election keeps a younger process
\* out of the slots, whatever is opened, removed or unreadable around it.
ElderRespected == [][\A p \in Procs :
  run[p].pc = "scan" /\ run'[p].pc = "observe" => elders[p] = {}]_vars

\* A survivor is not refused for the sake of the dead: a call is outranked only if at some
\* time since its election began another process lived or some program had the pid of a dead
\* one (then the dead owner's file counts, for as long as it has), or because its own file
\* was left blank by an earlier call, which costs one call.
SurvivorServed == [][\A c \in Calls :
  status[c] # "outranked" /\ status'[c] = "outranked"
    => ProcOf[c] \in contested \/ owner[ProcOf[c]] = "blank"]_vars

\* The lease file of a call that will neither renew nor release it is removed in time,
\* locks of dead processes and torn files notwithstanding, while a process lives: there is no
\* time after which such a file stays.
Abandoned(c) == status[c] \in {"failed", "uncertain"} \/ ~Alive(ProcOf[c])
SlotReclaimed ==
  <>[](\E p \in Procs : Alive(p)) =>
    []<>(\A c \in Calls : Abandoned(c) => ~\E s \in Slots : lease[s].by = c)
=============================================================================
