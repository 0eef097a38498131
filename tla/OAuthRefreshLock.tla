--------------------------- MODULE OAuthRefreshLock ---------------------------
(***************************************************************************)
(* The cross-process lock around OAuth token refreshes                     *)
(* (bots/hub/lib/oauth/refresh-lock.ts): a directory made with mkdir is    *)
(* the lock, a directory older than staleMs is removed by whoever finds    *)
(* it, and release removes the directory.  The processes are separate OS   *)
(* processes, so they interleave between any two file system calls.        *)
(***************************************************************************)
EXTENDS Integers, FiniteSets

CONSTANTS
  Procs,   \* processes that run withOAuthRefreshLock for one provider
  NoProc   \* the maker of a directory that is not there

ASSUME LockAssumption == NoProc \notin Procs

VARIABLES
  dir,      \* the lock directory: who made it, and whether it is past staleMs
  pc,       \* where each process stands
  late,     \* its timeoutMs has passed
  janitor,  \* the janitor has listed the directory as stale and will remove it
  slow,     \* history: the work of a living holder has outlasted staleMs
  left,     \* history: a directory outlived its holder, who died or could not remove it
  robbed    \* history: a directory was removed that was not stale

vars == <<dir, pc, late, janitor, slow, left, robbed>>

Absent == [by |-> NoProc, stale |-> FALSE]

\* trying: about to mkdir    checking: EEXIST seen, about to stat
\* removing: about to rm a stale directory    waiting: about to compare the clock
PCs == {"idle", "trying", "checking", "removing", "waiting", "holding", "refused", "dead"}

Init ==
  /\ dir = Absent
  /\ pc = [p \in Procs |-> "idle"]
  /\ late = [p \in Procs |-> FALSE]
  /\ janitor = FALSE
  /\ slow = FALSE
  /\ left = FALSE
  /\ robbed = FALSE

Goto(p, s) == pc' = [pc EXCEPT ![p] = s]

-----------------------------------------------------------------------------
\* acquireOAuthRefreshLock is called.
Begin(p) ==
  /\ pc[p] \in {"idle", "refused"}
  /\ Goto(p, "trying")
  /\ late' = [late EXCEPT ![p] = FALSE]
  /\ UNCHANGED <<dir, janitor, slow, left, robbed>>

\* mkdirSync makes the directory, and the process holds the lock; or EEXIST.
Mkdir(p) ==
  /\ pc[p] = "trying"
  /\ IF dir = Absent
     THEN dir' = [by |-> p, stale |-> FALSE] /\ Goto(p, "holding")
     ELSE UNCHANGED dir /\ Goto(p, "checking")
  /\ UNCHANGED <<late, janitor, slow, left, robbed>>

\* mkdirSync fails otherwise: the acquisition throws.
MkdirThrows(p) ==
  /\ pc[p] = "trying"
  /\ Goto(p, "refused")
  /\ UNCHANGED <<dir, late, janitor, slow, left, robbed>>

\* Mutant of Check: a fresh directory counts as stale.
CheckHasty(p) ==
  /\ pc[p] = "checking"
  /\ Goto(p, IF dir # Absent THEN "removing" ELSE "waiting")
  /\ UNCHANGED <<dir, late, janitor, slow, left, robbed>>

\* lockIsStale: a directory that is gone is not stale.
Check(p) ==
  /\ pc[p] = "checking"
  /\ Goto(p, IF dir.stale THEN "removing" ELSE "waiting")
  /\ UNCHANGED <<dir, late, janitor, slow, left, robbed>>

\* rmSync, best effort, of whatever is at the path by now.
Clear ==
  \/ /\ dir' = Absent
     /\ robbed' = (robbed \/ (dir # Absent /\ ~dir.stale))
  \/ UNCHANGED <<dir, robbed>>

\* The directory was stale: it is removed, and the process tries again.
Remove(p) ==
  /\ pc[p] = "removing"
  /\ Clear
  /\ Goto(p, "trying")
  /\ UNCHANGED <<late, janitor, slow, left>>

\* Mutant of Wait: the clock is not compared.
WaitForEver(p) ==
  /\ pc[p] = "waiting"
  /\ Goto(p, "trying")
  /\ UNCHANGED <<dir, late, janitor, slow, left, robbed>>

\* The timeout error, or sleep(retryMs) and once more.
Wait(p) ==
  /\ pc[p] = "waiting"
  /\ Goto(p, IF late[p] THEN "refused" ELSE "trying")
  /\ UNCHANGED <<dir, late, janitor, slow, left, robbed>>

\* The work settles and `finally` releases: the directory is removed, whose ever,
Release(p) ==
  /\ pc[p] = "holding"
  /\ dir' = Absent
  /\ Goto(p, "idle")
  /\ UNCHANGED <<late, janitor, slow, left, robbed>>

\* or is left to those who find it stale.
ReleaseFails(p) ==
  /\ pc[p] = "holding"
  /\ left' = TRUE
  /\ Goto(p, "idle")
  /\ UNCHANGED <<dir, late, janitor, slow, robbed>>

-----------------------------------------------------------------------------
\* cleanupOAuthRefreshLocks with apply: the list is made, then each entry removed.
JanitorLists ==
  /\ ~janitor
  /\ dir.stale
  /\ janitor' = TRUE
  /\ UNCHANGED <<dir, pc, late, slow, left, robbed>>

JanitorRemoves ==
  /\ janitor
  /\ Clear
  /\ janitor' = FALSE
  /\ UNCHANGED <<pc, late, slow, left>>

-----------------------------------------------------------------------------
\* staleMs passes since the directory was made.
Age ==
  /\ dir # Absent
  /\ ~dir.stale
  /\ dir' = [dir EXCEPT !.stale = TRUE]
  /\ slow' = (slow \/ pc[dir.by] = "holding")
  /\ UNCHANGED <<pc, late, janitor, left, robbed>>

\* timeoutMs passes since the acquisition began.
Late(p) ==
  /\ pc[p] \in {"trying", "checking", "removing", "waiting"}
  /\ ~late[p]
  /\ late' = [late EXCEPT ![p] = TRUE]
  /\ UNCHANGED <<dir, pc, janitor, slow, left, robbed>>

\* A process dies; the directory it made stays.
Die(p) ==
  /\ pc[p] # "dead"
  /\ Goto(p, "dead")
  /\ left' = (left \/ pc[p] = "holding")
  /\ UNCHANGED <<dir, late, janitor, slow, robbed>>

-----------------------------------------------------------------------------
AcquireStep(p) == Mkdir(p) \/ Check(p) \/ Remove(p) \/ Wait(p)

Next ==
  \/ \E p \in Procs : Begin(p) \/ AcquireStep(p) \/ MkdirThrows(p) \/ Release(p) \/ ReleaseFails(p) \/ Late(p) \/ Die(p)
  \/ JanitorLists
  \/ JanitorRemoves
  \/ Age

\* Acquiring processes take their steps and the clock runs; no work need end.
Fairness == \A p \in Procs : WF_vars(AcquireStep(p)) /\ WF_vars(Late(p))

Spec == Init /\ [][Next]_vars
FairSpec == Spec /\ Fairness

-----------------------------------------------------------------------------
\* Every variable has its type.
TypeOK ==
  /\ dir \in [by : Procs, stale : BOOLEAN] \cup {Absent}
  /\ pc \in [Procs -> PCs]
  /\ late \in [Procs -> BOOLEAN]
  /\ janitor \in BOOLEAN
  /\ slow \in BOOLEAN
  /\ left \in BOOLEAN
  /\ robbed \in BOOLEAN

Holders == {p \in Procs : pc[p] = "holding"}

\* The directory is the lock: as long as no work has outlasted staleMs it is there, made
\* by the one holder and fresh, through every retry, stale removal, failed removal, death
\* and janitor run, until somebody removes a directory that is not the stale one seen;
\* and that takes a directory left behind.
DirectoryIsTheLock ==
  ~slow => /\ robbed => left
           /\ ~robbed => \A p \in Holders : dir = [by |-> p, stale |-> FALSE]

\* oauth-refresh-lock-smoke.ts asserts of its contenders that at most one of them is
\* between acquiring and releasing.  Slow work aside, this should survive a
\* directory left behind by a death or a failed removal, which is what staleMs is for.
Serialized == ~slow => \A p, q \in Holders : p = q

\* An acquisition that meets finitely many stale directories comes to an end, even
\* behind a holder that never releases.  (Removing a stale directory goes back to
\* mkdir without looking at the clock.)
AcquireEnds == \A p \in Procs :
  <>[](pc[p] # "removing") => (pc[p] = "trying" ~> pc[p] \in {"holding", "refused", "dead"})
=============================================================================
