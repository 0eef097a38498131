----------------------------- MODULE SharedLimiter -----------------------------
(***************************************************************************)
(* The shared limiter of the Hub LLM gateway with its PostgreSQL backend   *)
(* (bots/hub/lib/llm/shared-limiter.ts).  A scope (global, a team, a       *)
(* provider) is a row of the lease table per slot.  A composite lease      *)
(* takes one slot in each of its scopes, in order, gives them back when a  *)
(* later scope is full, confirms them all, and is then renewed on a timer  *)
(* until its caller releases it.                                           *)
(*                                                                         *)
(* Every SQL statement is one step; any other Hub process may act between  *)
(* two of them.  A row's expires_at is abstracted to whether it has passed *)
(* (live = FALSE): a lease may expire at any moment, because a stalled     *)
(* event loop or database delays its renewal without bound.                *)
(***************************************************************************)
EXTENDS Integers, Sequences, FiniteSets

CONSTANTS
  Calls,     \* calls of acquireSharedLimiterLease, over all Hub processes
  NoCall,    \* the owner of a free slot
  Scopes,    \* the scopes buildScopes can name
  ScopesOf,  \* for each call its scopes, in the order they are acquired
  Limit      \* slots of each scope, at least 1

ASSUME LimiterAssumption ==
  /\ NoCall \notin Calls
  /\ Limit \in [Scopes -> Nat \ {0}]
  /\ ScopesOf \in [Calls -> Seq(Scopes)]
  /\ \A c \in Calls : /\ ScopesOf[c] # <<>>
                      /\ \A i, j \in DOMAIN ScopesOf[c] :
                           ScopesOf[c][i] = ScopesOf[c][j] => i = j

VARIABLES
  rows,     \* the lease table: (scope, slot) -> row
  phase,    \* where each call stands
  got,      \* the slots acquired so far, in the order of ScopesOf
  cursor,   \* the slot the insert loop tries next
  pending,  \* scope indices whose validation or release has not settled
  bad,      \* one of them was lost (validation) or failed (release)
  valid,    \* the composite's `valid` flag; FALSE once its signal is aborted
  tick,     \* scope index renewAll is at, 0 when no renewal is in progress
  lapsed,   \* history: calls of which a row has expired
  stray     \* history: calls whose insert was committed but reported as failed

vars == <<rows, phase, got, cursor, pending, bad, valid, tick, lapsed, stray>>

Free == [owner |-> NoCall, live |-> FALSE]
Row == [owner : Calls \cup {NoCall}, live : BOOLEAN]
Slots(s) == 0..(Limit[s] - 1)
Places == UNION {{s} \X Slots(s) : s \in Scopes}   \* primary keys of the table

Phases == {"idle", "pruning", "inserting", "validating", "held", "undoing",
           "releasing", "rejected", "uncertain", "released", "unreleased", "dead"}

Width(c) == Len(ScopesOf[c])
ScopeAt(c, i) == ScopesOf[c][i]
Current(c) == ScopeAt(c, Len(got[c]) + 1)          \* the scope being acquired
PlaceOf(c, i) == <<ScopeAt(c, i), got[c][i]>>     \* the place of lease i of c
RowOf(c, i) == rows[PlaceOf(c, i)]
Owns(c, i) == RowOf(c, i).owner = c

Init ==
  /\ rows = [p \in Places |-> Free]
  /\ phase = [c \in Calls |-> "idle"]
  /\ got = [c \in Calls |-> <<>>]
  /\ cursor = [c \in Calls |-> 0]
  /\ pending = [c \in Calls |-> {}]
  /\ bad = [c \in Calls |-> FALSE]
  /\ valid = [c \in Calls |-> FALSE]
  /\ tick = [c \in Calls |-> 0]
  /\ lapsed = {}
  /\ stray = {}

Goto(c, p) == phase' = [phase EXCEPT ![c] = p]

\* The call's closure is gone: nothing refers to its leases any more.
Forget(c) ==
  /\ got' = [got EXCEPT ![c] = <<>>]
  /\ cursor' = [cursor EXCEPT ![c] = 0]
  /\ pending' = [pending EXCEPT ![c] = {}]
  /\ bad' = [bad EXCEPT ![c] = FALSE]
  /\ valid' = [valid EXCEPT ![c] = FALSE]
  /\ tick' = [tick EXCEPT ![c] = 0]

-----------------------------------------------------------------------------
\* acquirePgScopeLease for the next scope of the composite.

Begin(c) ==
  /\ phase[c] = "idle"
  /\ Goto(c, "pruning")
  /\ UNCHANGED <<rows, got, cursor, pending, bad, valid, tick, lapsed, stray>>

\* DELETE ... WHERE expires_at <= NOW(), over all scopes.
Prune(c) ==
  /\ phase[c] = "pruning"
  /\ rows' = [p \in Places |-> IF rows[p].live THEN rows[p] ELSE Free]
  /\ Goto(c, "inserting")
  /\ UNCHANGED <<got, cursor, pending, bad, valid, tick, lapsed, stray>>

\* Mutant of Inserted: ON CONFLICT DO UPDATE, the row is taken over.
InsertedOver(c) ==
  LET s == Current(c)  k == cursor[c]  last == Len(got[c]) + 1 = Width(c)
  IN  /\ phase[c] = "inserting"
      /\ k \in Slots(s)
      /\ rows' = [rows EXCEPT ![<<s, k>>] = [owner |-> c, live |-> TRUE]]
      /\ got' = [got EXCEPT ![c] = Append(@, k)]
      /\ Goto(c, IF last THEN "validating" ELSE "pruning")
      /\ pending' = [pending EXCEPT ![c] = IF last THEN 1..Width(c) ELSE {}]
      /\ cursor' = [cursor EXCEPT ![c] = 0]
      /\ UNCHANGED <<bad, valid, tick, lapsed, stray>>

\* The INSERT succeeds: on to the next scope, or to the validation of all.
Inserted(c) ==
  LET s == Current(c)  k == cursor[c]  last == Len(got[c]) + 1 = Width(c)
  IN  /\ phase[c] = "inserting"
      /\ k \in Slots(s)
      /\ rows[<<s, k>>] = Free
      /\ rows' = [rows EXCEPT ![<<s, k>>] = [owner |-> c, live |-> TRUE]]
      /\ got' = [got EXCEPT ![c] = Append(@, k)]
      /\ Goto(c, IF last THEN "validating" ELSE "pruning")
      /\ pending' = [pending EXCEPT ![c] = IF last THEN 1..Width(c) ELSE {}]
      /\ cursor' = [cursor EXCEPT ![c] = 0]
      /\ UNCHANGED <<bad, valid, tick, lapsed, stray>>

\* Mutant of Conflict: the loop does not advance.
ConflictStuck(c) ==
  /\ phase[c] = "inserting"
  /\ cursor[c] \in Slots(Current(c))
  /\ rows[<<Current(c), cursor[c]>>] # Free
  /\ UNCHANGED vars

\* ON CONFLICT DO NOTHING: the slot has a row, expired or not; try the next one.
Conflict(c) ==
  LET s == Current(c)  k == cursor[c]
  IN  /\ phase[c] = "inserting"
      /\ k \in Slots(s)
      /\ rows[<<s, k>>] # Free
      /\ cursor' = [cursor EXCEPT ![c] = k + 1]
      /\ UNCHANGED <<rows, phase, got, pending, bad, valid, tick, lapsed, stray>>

\* Mutant of Refuse: the rollback forgets the lease taken first.
RefuseKeepingFirst(c) ==
  /\ Goto(c, "undoing")
  /\ pending' = [pending EXCEPT ![c] = DOMAIN got[c] \ {1}]
  /\ bad' = [bad EXCEPT ![c] = FALSE]
  /\ cursor' = [cursor EXCEPT ![c] = 0]
  /\ UNCHANGED <<got, valid, tick, lapsed>>

\* The composite is refused; the leases already taken are released.
Refuse(c) ==
  /\ Goto(c, "undoing")
  /\ pending' = [pending EXCEPT ![c] = DOMAIN got[c]]
  /\ bad' = [bad EXCEPT ![c] = FALSE]
  /\ cursor' = [cursor EXCEPT ![c] = 0]
  /\ UNCHANGED <<got, valid, tick, lapsed>>

\* shared_limiter_full.
ScopeFull(c) ==
  /\ phase[c] = "inserting"
  /\ cursor[c] = Limit[Current(c)]
  /\ Refuse(c)
  /\ UNCHANGED <<rows, stray>>

\* shared_limiter_pg_error: a statement fails before it takes effect.
AcquireError(c) ==
  /\ phase[c] \in {"pruning", "inserting"}
  /\ Refuse(c)
  /\ UNCHANGED <<rows, stray>>

\* The INSERT commits but its answer is lost: the row stays, nobody knows it.
AcquireAnswerLost(c) ==
  LET s == Current(c)  k == cursor[c]
  IN  /\ phase[c] = "inserting"
      /\ k \in Slots(s)
      /\ rows[<<s, k>>] = Free
      /\ rows' = [rows EXCEPT ![<<s, k>>] = [owner |-> c, live |-> TRUE]]
      /\ stray' = stray \cup {c}
      /\ Refuse(c)

-----------------------------------------------------------------------------
\* The validation renews every lease; the renewals run concurrently.

Validated(c, i) ==
  /\ phase[c] = "validating"
  /\ i \in pending[c]
  /\ pending' = [pending EXCEPT ![c] = @ \ {i}]
  /\ bad' = [bad EXCEPT ![c] = @ \/ ~(Owns(c, i) /\ RowOf(c, i).live)]
  /\ UNCHANGED <<rows, phase, got, cursor, valid, tick, lapsed, stray>>

\* A validation query rejects, which counts as a lost lease.
ValidationError(c, i) ==
  /\ phase[c] = "validating"
  /\ i \in pending[c]
  /\ pending' = [pending EXCEPT ![c] = @ \ {i}]
  /\ bad' = [bad EXCEPT ![c] = TRUE]
  /\ UNCHANGED <<rows, phase, got, cursor, valid, tick, lapsed, stray>>

\* Every renewal has settled and none was lost: the composite lease is granted.
Granted(c) ==
  /\ phase[c] = "validating"
  /\ pending[c] = {}
  /\ ~bad[c]
  /\ Goto(c, "held")
  /\ valid' = [valid EXCEPT ![c] = TRUE]
  /\ UNCHANGED <<rows, got, cursor, pending, bad, tick, lapsed, stray>>

\* shared_limiter_lease_lost.
LostInValidation(c) ==
  /\ phase[c] = "validating"
  /\ pending[c] = {}
  /\ bad[c]
  /\ Refuse(c)
  /\ UNCHANGED <<rows, stray>>

-----------------------------------------------------------------------------
\* renewAll: started by the interval timer, one UPDATE per scope in order.

RenewStart(c) ==
  /\ phase[c] = "held"
  /\ valid[c]
  /\ tick[c] = 0
  /\ tick' = [tick EXCEPT ![c] = 1]
  /\ UNCHANGED <<rows, phase, got, cursor, pending, bad, valid, lapsed, stray>>

\* Mutant of Renew: an UPDATE of no row counts as renewed.
RenewBlind(c) ==
  /\ tick[c] # 0
  /\ tick' = [tick EXCEPT ![c] = IF tick[c] = Width(c) THEN 0 ELSE tick[c] + 1]
  /\ UNCHANGED <<rows, phase, got, cursor, pending, bad, valid, lapsed, stray>>

\* One UPDATE ... WHERE lease_id and not expired, and what renewAll does with it.
Renew(c) ==
  LET i == tick[c]
  IN  /\ i # 0
      /\ IF Owns(c, i) /\ RowOf(c, i).live
         THEN /\ tick' = [tick EXCEPT ![c] = IF i = Width(c) THEN 0 ELSE i + 1]
              /\ UNCHANGED valid
         ELSE /\ tick' = [tick EXCEPT ![c] = 0]
              /\ valid' = [valid EXCEPT ![c] = FALSE]
      /\ UNCHANGED <<rows, phase, got, cursor, pending, bad, lapsed, stray>>

RenewError(c) ==
  /\ tick[c] # 0
  /\ tick' = [tick EXCEPT ![c] = 0]
  /\ valid' = [valid EXCEPT ![c] = FALSE]
  /\ UNCHANGED <<rows, phase, got, cursor, pending, bad, lapsed, stray>>

-----------------------------------------------------------------------------
\* release() of a granted composite: isValid() is FALSE from now on, the timer is
\* cleared, and what a renewAll still in progress finds no longer matters.
Release(c) ==
  /\ phase[c] = "held"
  /\ Goto(c, "releasing")
  /\ pending' = [pending EXCEPT ![c] = DOMAIN got[c]]
  /\ valid' = [valid EXCEPT ![c] = FALSE]
  /\ tick' = [tick EXCEPT ![c] = 0]
  /\ UNCHANGED <<rows, got, cursor, bad, lapsed, stray>>

\* Mutant of DeleteOwn: the DELETE does not compare lease_id.
DeleteAny(c, i) == rows' = [rows EXCEPT ![PlaceOf(c, i)] = Free]

\* DELETE ... WHERE scope, slot and lease_id: no effect on another lease's row.
DeleteOwn(c, i) ==
  rows' = IF Owns(c, i)
          THEN [rows EXCEPT ![PlaceOf(c, i)] = Free]
          ELSE rows

\* One release (with its retries) succeeds; they all run concurrently.
ReleaseOne(c, i) ==
  /\ phase[c] \in {"undoing", "releasing"}
  /\ i \in pending[c]
  /\ DeleteOwn(c, i)
  /\ pending' = [pending EXCEPT ![c] = @ \ {i}]
  /\ UNCHANGED <<phase, got, cursor, bad, valid, tick, lapsed, stray>>

\* All its attempts fail; the last one may have taken effect unanswered.
ReleaseOneFails(c, i) ==
  /\ phase[c] \in {"undoing", "releasing"}
  /\ i \in pending[c]
  /\ DeleteOwn(c, i) \/ UNCHANGED rows
  /\ pending' = [pending EXCEPT ![c] = @ \ {i}]
  /\ bad' = [bad EXCEPT ![c] = TRUE]
  /\ UNCHANGED <<phase, got, cursor, valid, tick, lapsed, stray>>

\* Promise.allSettled: the rejection, with cleanupUncertain when a release failed.
UndoSettled(c) ==
  /\ phase[c] = "undoing"
  /\ pending[c] = {}
  /\ Goto(c, IF bad[c] THEN "uncertain" ELSE "rejected")
  /\ Forget(c)
  /\ UNCHANGED <<rows, lapsed, stray>>

\* release() resolves, or throws when a release failed.
ReleaseSettled(c) ==
  /\ phase[c] = "releasing"
  /\ pending[c] = {}
  /\ Goto(c, IF bad[c] THEN "unreleased" ELSE "released")
  /\ Forget(c)
  /\ UNCHANGED <<rows, lapsed, stray>>

-----------------------------------------------------------------------------
\* expires_at of a row passes.
Expire(p) ==
  /\ rows[p].live
  /\ rows' = [rows EXCEPT ![p].live = FALSE]
  /\ lapsed' = lapsed \cup {rows[p].owner}
  /\ UNCHANGED <<phase, got, cursor, pending, bad, valid, tick, stray>>

Settled == {"rejected", "uncertain", "released", "unreleased", "dead"}

\* The Hub process running the call dies: its rows stay until they expire.
Crash(c) ==
  /\ phase[c] \notin Settled \cup {"idle"}
  /\ Goto(c, "dead")
  /\ Forget(c)
  /\ UNCHANGED <<rows, lapsed, stray>>

-----------------------------------------------------------------------------
\* The code's own next statement for a call that is acquiring or giving back.
AcquireStep(c) ==
  \/ Prune(c)
  \/ Inserted(c)
  \/ Conflict(c)
  \/ ScopeFull(c)
  \/ \E i \in 1..Width(c) : Validated(c, i)
  \/ Granted(c)
  \/ LostInValidation(c)

RenewStep(c) == RenewStart(c) \/ Renew(c)

GiveBackStep(c) ==
  \/ \E i \in 1..Width(c) : ReleaseOne(c, i)
  \/ UndoSettled(c)
  \/ ReleaseSettled(c)

\* Failing database statements.
ErrorStep(c) ==
  \/ AcquireError(c)
  \/ AcquireAnswerLost(c)
  \/ RenewError(c)
  \/ \E i \in 1..Width(c) : ValidationError(c, i) \/ ReleaseOneFails(c, i)

CallStep(c) ==
  Begin(c) \/ AcquireStep(c) \/ RenewStep(c) \/ Release(c) \/ GiveBackStep(c) \/ ErrorStep(c)

Environment ==
  \/ \E p \in Places : Expire(p)
  \/ \E c \in Calls : Crash(c)

Next == (\E c \in Calls : CallStep(c)) \/ Environment

\* Awaited statements settle (an error also settles them) and the renewal timer
\* fires; nothing forces a caller to release, a row to expire, a process to die.
Fairness == \A c \in Calls :
  /\ WF_vars(AcquireStep(c))
  /\ WF_vars(RenewStep(c))
  /\ WF_vars(GiveBackStep(c))

Spec == Init /\ [][Next]_vars
FairSpec == Spec /\ Fairness

-----------------------------------------------------------------------------
\* Every variable has its type, and leases refer to slots of their scope.
TypeOK ==
  /\ rows \in [Places -> Row]
  /\ phase \in [Calls -> Phases]
  /\ got \in [Calls -> Seq(Nat)]
  /\ \A c \in Calls : /\ Len(got[c]) <= Width(c)
                      /\ \A i \in DOMAIN got[c] : got[c][i] \in Slots(ScopeAt(c, i))
  /\ cursor \in [Calls -> Nat]
  /\ pending \in [Calls -> SUBSET Nat]
  /\ \A c \in Calls : pending[c] \subseteq DOMAIN got[c]
  /\ bad \in [Calls -> BOOLEAN]
  /\ valid \in [Calls -> BOOLEAN]
  /\ tick \in [Calls -> Nat]
  /\ \A c \in Calls : tick[c] <= Len(got[c])
  /\ lapsed \subseteq Calls
  /\ stray \subseteq Calls

\* Call c counts on lease i: taken, and its release not yet answered.
Keeps(c, i) ==
  /\ i \in DOMAIN got[c]
  /\ \/ phase[c] \in {"pruning", "inserting", "validating", "held"}
     \/ phase[c] \in {"undoing", "releasing"} /\ i \in pending[c]

\* A lease is lost only by expiring: whatever other calls prune, insert, undo or
\* release late (even for a slot they once had), the row of a call none of whose
\* rows expired is still its own and live.
OwnsUntilLapsed == \A c \in Calls \ lapsed : \A i \in 1..Width(c) :
  Keeps(c, i) => RowOf(c, i) = [owner |-> c, live |-> TRUE]

\* The limit itself: in no scope do more calls hold an unexpired composite lease
\* than the scope has slots.
CapacityRespected == \A s \in Scopes :
  Cardinality({c \in Calls \ lapsed :
                 phase[c] = "held" /\ \E i \in 1..Width(c) : ScopeAt(c, i) = s}) <= Limit[s]

\* Calls with an unexpired row in scope s.
HoldersOf(s) == {c \in Calls :
  \E k \in Slots(s) : rows[<<s, k>>] = [owner |-> c, live |-> TRUE]}

\* Each scope of the table is a LeasePool: a statement gives a free slot to one
\* call or takes one away, never two at once and never past the limit, although
\* slot search, rollback, pruning and expiry of other calls interleave with it.
ScopePool(s) == INSTANCE LeasePool WITH
  Clients <- Calls, Limit <- Limit[s], holders <- HoldersOf(s)
ScopePools ==
  /\ \A s \in Scopes : ScopePool(s)!Init
  /\ [][\A s \in Scopes : [ScopePool(s)!Next]_(HoldersOf(s))]_vars

\* All or nothing: a call that was refused or released without reporting
\* uncertainty leaves no row behind, unless a lost answer hid that row from it.
CleanSettlement == \A c \in Calls \ stray :
  phase[c] \in {"rejected", "released"} =>
    \A p \in Places : rows[p].owner # c

\* A holder whose lease is gone learns it: the composite is invalidated (its
\* signal aborts) unless the caller releases it or its process dies first.
LostLeaseNoticed == \A c \in Calls :
  (phase[c] = "held" /\ valid[c] /\ \E i \in 1..Width(c) : RowOf(c, i) # [owner |-> c, live |-> TRUE])
    ~> (phase[c] # "held" \/ ~valid[c])

\* Acquisition never blocks: it tries every slot once and answers.
AcquireAnswers == \A c \in Calls :
  phase[c] = "pruning" ~> phase[c] \in {"held"} \cup Settled
=============================================================================
