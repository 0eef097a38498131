-------------------------- MODULE SharedLimiter_proofs --------------------------
(***************************************************************************)
(* The lease table keeps its promise for every number of calls, scopes and *)
(* slots: a lease is lost only by expiring, hence no scope is ever held by *)
(* more unexpired composite leases than it has slots.                      *)
(***************************************************************************)
EXTENDS SharedLimiter, FiniteSetTheorems, SequenceTheorems, TLAPS

\* How far a call has got, as its phase implies.
Progress == \A c \in Calls :
  /\ phase[c] \in {"pruning", "inserting"} => Len(got[c]) < Width(c)
  /\ phase[c] = "idle" => got[c] = <<>>
  /\ phase[c] \in {"validating", "held"} => Len(got[c]) = Width(c)
  /\ tick[c] # 0 => phase[c] = "held"
  /\ phase[c] \notin {"validating", "undoing", "releasing"} => pending[c] = {}

\* A live row belongs to a call.
LiveIsOwned == \A p \in Places : rows[p].live => rows[p].owner \in Calls

IInv == TypeOK /\ Progress /\ LiveIsOwned /\ OwnsUntilLapsed

-----------------------------------------------------------------------------
\* Places are exactly the (scope, slot) pairs.
LEMMA PlacesMembers ==
  ASSUME NEW s \in Scopes, NEW k
  PROVE  <<s, k>> \in Places <=> k \in Slots(s)
  BY DEF Places

\* The place of an acquired lease is a row of the table.
LEMMA LeasePlace ==
  ASSUME TypeOK, NEW c \in Calls, NEW i \in DOMAIN got[c]
  PROVE  /\ ScopeAt(c, i) \in Scopes
         /\ got[c][i] \in Slots(ScopeAt(c, i))
         /\ PlaceOf(c, i) \in Places
         /\ i \in 1..Width(c)
  <1>1. got[c] \in Seq(Nat) /\ Len(got[c]) <= Width(c) /\ got[c][i] \in Slots(ScopeAt(c, i))
    BY DEF TypeOK
  <1>2. ScopesOf[c] \in Seq(Scopes) /\ Width(c) \in Nat /\ DOMAIN ScopesOf[c] = 1..Width(c)
    BY LimiterAssumption DEF Width
  <1>3. i \in 1..Width(c)
    BY <1>1, <1>2
  <1>4. ScopeAt(c, i) \in Scopes
    BY <1>2, <1>3 DEF ScopeAt
  <1>. QED  BY <1>1, <1>3, <1>4, PlacesMembers DEF PlaceOf

\* A call never has two leases at one place: its scopes are distinct.
LEMMA LeasePlacesDistinct ==
  ASSUME TypeOK, NEW c \in Calls, NEW i \in DOMAIN got[c], NEW j \in DOMAIN got[c],
         PlaceOf(c, i) = PlaceOf(c, j)
  PROVE  i = j
  <1>1. i \in 1..Width(c) /\ j \in 1..Width(c) /\ ScopeAt(c, i) = ScopeAt(c, j)
    BY LeasePlace DEF PlaceOf
  <1>2. DOMAIN ScopesOf[c] = 1..Width(c)
    BY LimiterAssumption DEF Width
  <1>. QED  BY <1>1, <1>2, LimiterAssumption DEF ScopeAt

LEMMA InitIInv == Init => IInv
  <1> SUFFICES ASSUME Init PROVE IInv
    OBVIOUS
  <1>1. Free \in Row /\ ~Free.live
    BY DEF Free, Row
  <1>2. \A c \in Calls : Width(c) \in Nat /\ Width(c) > 0
    BY LimiterAssumption DEF Width
  <1>3. TypeOK
    BY <1>1, <1>2 DEF Init, TypeOK, Phases
  <1>4. Progress /\ LiveIsOwned
    BY <1>1, <1>2 DEF Init, Progress, LiveIsOwned
  <1>5. OwnsUntilLapsed
    BY DEF Init, OwnsUntilLapsed, Keeps
  <1>. QED  BY <1>3, <1>4, <1>5 DEF IInv

-----------------------------------------------------------------------------
\* Ownership survives a step of call c that claims no new lease, provided the
\* rows of the leases still kept, by unlapsed calls, are left alone.
LEMMA OwnsFrame ==
  ASSUME OwnsUntilLapsed, NEW c \in Calls, lapsed \subseteq lapsed',
         \A d \in Calls : d # c =>
           phase'[d] = phase[d] /\ got'[d] = got[d] /\ pending'[d] = pending[d],
         \A i \in 1..Width(c) : Keeps(c, i)' => Keeps(c, i) /\ got'[c][i] = got[c][i],
         \A d \in Calls : \A i \in 1..Width(d) :
           d \notin lapsed' /\ Keeps(d, i) /\ Keeps(d, i)' /\ RowOf(d, i) = [owner |-> d, live |-> TRUE]
             => rows'[PlaceOf(d, i)] = rows[PlaceOf(d, i)]
  PROVE  OwnsUntilLapsed'
  <1> SUFFICES ASSUME NEW d \in Calls, d \notin lapsed', NEW i \in 1..Width(d), Keeps(d, i)'
               PROVE  RowOf(d, i)' = [owner |-> d, live |-> TRUE]
    BY DEF OwnsUntilLapsed
  <1>1. Keeps(d, i) /\ got'[d][i] = got[d][i]
    BY DEF Keeps
  <1>2. RowOf(d, i) = [owner |-> d, live |-> TRUE]
    BY <1>1 DEF OwnsUntilLapsed
  <1>3. PlaceOf(d, i)' = PlaceOf(d, i)
    BY <1>1 DEF PlaceOf, ScopeAt
  <1>. QED  BY <1>1, <1>2, <1>3 DEF RowOf

\* The same when the rows do not change at all.
LEMMA OwnsSameRows ==
  ASSUME OwnsUntilLapsed, NEW c \in Calls, UNCHANGED <<rows, lapsed>>,
         \A d \in Calls : d # c =>
           phase'[d] = phase[d] /\ got'[d] = got[d] /\ pending'[d] = pending[d],
         \A i \in 1..Width(c) : Keeps(c, i)' => Keeps(c, i) /\ got'[c][i] = got[c][i]
  PROVE  OwnsUntilLapsed'
  BY OwnsFrame

-----------------------------------------------------------------------------
\* Steps that touch no row and keep got: the phase, the pending set or the
\* renewal state of one call moves on.
LEMMA LocalSteps ==
  ASSUME IInv, NEW c \in Calls, NEW i \in 1..Width(c),
         \/ Begin(c) \/ Conflict(c) \/ ScopeFull(c) \/ AcquireError(c) \/ Validated(c, i)
         \/ ValidationError(c, i) \/ Granted(c) \/ LostInValidation(c) \/ RenewStart(c)
         \/ Renew(c) \/ RenewError(c) \/ Release(c) \/ UndoSettled(c) \/ ReleaseSettled(c)
         \/ Crash(c)
  PROVE  IInv'
  <1>1. /\ phase \in [Calls -> Phases] /\ got \in [Calls -> Seq(Nat)]
        /\ cursor \in [Calls -> Nat] /\ pending \in [Calls -> SUBSET Nat]
        /\ bad \in [Calls -> BOOLEAN] /\ valid \in [Calls -> BOOLEAN] /\ tick \in [Calls -> Nat]
        /\ Width(c) \in Nat /\ Width(c) > 0 /\ DOMAIN got[c] = 1..Len(got[c])
        /\ pending[c] \subseteq DOMAIN got[c]
    BY LimiterAssumption DEF IInv, TypeOK, Width
  <1>2. UNCHANGED <<rows, lapsed>> /\ stray' = stray
    BY DEF Begin, Conflict, ScopeFull, AcquireError, Validated, ValidationError, Granted,
           LostInValidation, RenewStart, Renew, RenewError, Release, UndoSettled,
           ReleaseSettled, Crash, Refuse
  <1>3. LiveIsOwned'
    BY <1>2 DEF IInv, LiveIsOwned
  <1>4. CASE Begin(c)
    <2>1. TypeOK'
      BY <1>1, <1>4 DEF IInv, TypeOK, Begin, Goto, Phases
    <2>2. Progress'
      BY <1>1, <1>4 DEF IInv, Progress, Begin, Goto
    <2>3. OwnsUntilLapsed'
      BY <1>1, <1>2, <1>4, OwnsSameRows DEF IInv, Keeps, Begin, Goto, Progress
    <2>. QED  BY <1>3, <2>1, <2>2, <2>3 DEF IInv
  <1>5. CASE Conflict(c)
    <2>1. TypeOK'
      BY <1>1, <1>5, LimiterAssumption DEF IInv, TypeOK, Conflict, Slots
    <2>2. Progress' /\ OwnsUntilLapsed'
      BY <1>1, <1>2, <1>5, OwnsSameRows DEF IInv, Conflict, Progress, Keeps
    <2>. QED  BY <1>3, <2>1, <2>2 DEF IInv
  <1>6. CASE ScopeFull(c) \/ AcquireError(c) \/ LostInValidation(c)
    <2>1. /\ phase[c] \in {"pruning", "inserting", "validating"}
          /\ phase' = [phase EXCEPT ![c] = "undoing"]
          /\ pending' = [pending EXCEPT ![c] = DOMAIN got[c]]
          /\ bad' = [bad EXCEPT ![c] = FALSE]
          /\ cursor' = [cursor EXCEPT ![c] = 0]
          /\ UNCHANGED <<got, valid, tick>>
      BY <1>6 DEF ScopeFull, AcquireError, LostInValidation, Refuse, Goto
    <2>2. TypeOK'
      BY <1>1, <1>2, <2>1 DEF IInv, TypeOK, Phases
    <2>3. Progress'
      BY <1>1, <2>1 DEF IInv, Progress
    <2>4. OwnsUntilLapsed'
      BY <1>1, <1>2, <2>1, OwnsSameRows DEF IInv, Keeps
    <2>. QED  BY <1>3, <2>2, <2>3, <2>4 DEF IInv
  <1>7. CASE Validated(c, i) \/ ValidationError(c, i)
    <2>1. /\ phase[c] = "validating" /\ UNCHANGED <<phase, got, cursor, valid, tick>>
          /\ pending' = [pending EXCEPT ![c] = @ \ {i}]
          /\ bad' \in [Calls -> BOOLEAN]
      BY <1>1, <1>7 DEF Validated, ValidationError
    <2>2. TypeOK'
      BY <1>1, <1>2, <2>1 DEF IInv, TypeOK
    <2>3. Progress'
      BY <1>1, <2>1 DEF IInv, Progress
    <2>4. OwnsUntilLapsed'
      BY <1>1, <1>2, <2>1, OwnsSameRows DEF IInv, Keeps
    <2>. QED  BY <1>3, <2>2, <2>3, <2>4 DEF IInv
  <1>8. CASE Granted(c)
    <2>1. /\ phase[c] = "validating" /\ pending[c] = {} /\ phase' = [phase EXCEPT ![c] = "held"]
          /\ valid' = [valid EXCEPT ![c] = TRUE] /\ UNCHANGED <<got, cursor, pending, bad, tick>>
      BY <1>8 DEF Granted, Goto
    <2>2. TypeOK'
      BY <1>1, <1>2, <2>1 DEF IInv, TypeOK, Phases
    <2>3. Progress'
      BY <1>1, <2>1 DEF IInv, Progress
    <2>4. OwnsUntilLapsed'
      BY <1>1, <1>2, <2>1, OwnsSameRows DEF IInv, Keeps
    <2>. QED  BY <1>3, <2>2, <2>3, <2>4 DEF IInv
  <1>9. CASE RenewStart(c) \/ Renew(c) \/ RenewError(c)
    <2>1. /\ UNCHANGED <<phase, got, cursor, pending, bad>> /\ valid' \in [Calls -> BOOLEAN]
          /\ phase[c] = "held" /\ Len(got[c]) = Width(c)
      BY <1>1, <1>9 DEF RenewStart, Renew, RenewError, IInv, Progress
    <2>2. PICK t \in 0..Width(c) : tick' = [tick EXCEPT ![c] = t]
      <3>1. CASE RenewStart(c)
        <4>1. 1 \in 0..Width(c) /\ tick' = [tick EXCEPT ![c] = 1]
          BY <1>1, <3>1 DEF RenewStart
        <4>. QED  BY <4>1
      <3>2. CASE RenewError(c)
        <4>1. 0 \in 0..Width(c) /\ tick' = [tick EXCEPT ![c] = 0]
          BY <1>1, <3>2 DEF RenewError
        <4>. QED  BY <4>1
      <3>3. CASE Renew(c)
        <4>1. tick[c] \in 1..Width(c)
          BY <1>1, <2>1, <3>3 DEF Renew, IInv, TypeOK
        <4>2. (IF tick[c] = Width(c) THEN 0 ELSE tick[c] + 1) \in 0..Width(c)
          BY <1>1, <4>1
        <4>. QED  BY <1>1, <3>3, <4>1, <4>2 DEF Renew
      <3>. QED  BY <1>9, <3>1, <3>2, <3>3
    <2>3. TypeOK'
      BY <1>1, <1>2, <2>1, <2>2 DEF IInv, TypeOK
    <2>4. Progress'
      BY <1>1, <2>1, <2>2 DEF IInv, Progress
    <2>5. OwnsUntilLapsed'
      BY <1>1, <1>2, <2>1, OwnsSameRows DEF IInv, Keeps
    <2>. QED  BY <1>3, <2>3, <2>4, <2>5 DEF IInv
  <1>10. CASE Release(c)
    <2>1. /\ phase[c] = "held" /\ phase' = [phase EXCEPT ![c] = "releasing"]
          /\ pending' = [pending EXCEPT ![c] = DOMAIN got[c]]
          /\ valid' = [valid EXCEPT ![c] = FALSE] /\ tick' = [tick EXCEPT ![c] = 0]
          /\ UNCHANGED <<got, cursor, bad>>
      BY <1>10 DEF Release, Goto
    <2>2. TypeOK'
      BY <1>1, <1>2, <2>1 DEF IInv, TypeOK, Phases
    <2>3. Progress'
      BY <1>1, <2>1 DEF IInv, Progress
    <2>4. OwnsUntilLapsed'
      BY <1>1, <1>2, <2>1, OwnsSameRows DEF IInv, Keeps
    <2>. QED  BY <1>3, <2>2, <2>3, <2>4 DEF IInv
  <1>11. CASE UndoSettled(c) \/ ReleaseSettled(c) \/ Crash(c)
    <2>1. PICK q \in {"uncertain", "rejected", "unreleased", "released", "dead"} :
            phase' = [phase EXCEPT ![c] = q]
      BY <1>11 DEF UndoSettled, ReleaseSettled, Crash, Goto
    <2>2. Forget(c)
      BY <1>11 DEF UndoSettled, ReleaseSettled, Crash
    <2>3. TypeOK'
      BY <1>1, <1>2, <2>1, <2>2 DEF IInv, TypeOK, Phases, Forget
    <2>4. Progress'
      BY <1>1, <2>1, <2>2 DEF IInv, Progress, Forget
    <2>5. OwnsUntilLapsed'
      BY <1>1, <1>2, <2>1, <2>2, OwnsSameRows DEF IInv, Keeps, Forget
    <2>. QED  BY <1>3, <2>3, <2>4, <2>5 DEF IInv
  <1>. QED  BY <1>4, <1>5, <1>6, <1>7, <1>8, <1>9, <1>10, <1>11

-----------------------------------------------------------------------------
\* Steps that change rows.

LEMMA PruneStep ==
  ASSUME IInv, NEW c \in Calls, Prune(c)
  PROVE  IInv'
  <1>1. /\ phase[c] = "pruning" /\ phase' = [phase EXCEPT ![c] = "inserting"]
        /\ rows' = [p \in Places |-> IF rows[p].live THEN rows[p] ELSE Free]
        /\ UNCHANGED <<got, cursor, pending, bad, valid, tick, lapsed, stray>>
        /\ rows \in [Places -> Row] /\ phase \in [Calls -> Phases]
    BY DEF Prune, Goto, IInv, TypeOK
  <1>2. Free \in Row
    BY DEF Free, Row
  <1>3. TypeOK'
    BY <1>1, <1>2 DEF IInv, TypeOK, Phases
  <1>4. Progress'
    BY <1>1 DEF IInv, Progress
  <1>5. LiveIsOwned'
    BY <1>1 DEF IInv, LiveIsOwned, Free
  <1>6. OwnsUntilLapsed'
    <2>1. \A d \in Calls : \A i \in 1..Width(d) :
            Keeps(d, i) /\ RowOf(d, i) = [owner |-> d, live |-> TRUE]
              => rows'[PlaceOf(d, i)] = rows[PlaceOf(d, i)]
      BY <1>1, LeasePlace DEF IInv, Keeps, RowOf
    <2>2. \A i \in 1..Width(c) : Keeps(c, i)' => Keeps(c, i) /\ got'[c][i] = got[c][i]
      BY <1>1 DEF Keeps
    <2>. QED  BY <1>1, <2>1, <2>2, OwnsFrame DEF IInv
  <1>. QED  BY <1>3, <1>4, <1>5, <1>6 DEF IInv

\* A new row only ever takes a free place, so it displaces nobody's.
LEMMA NewRowDisplacesNobody ==
  ASSUME IInv, NEW c \in Calls, NEW s \in Scopes, NEW k \in Slots(s),
         rows[<<s, k>>] = Free, rows' = [rows EXCEPT ![<<s, k>>] = [owner |-> c, live |-> TRUE]]
  PROVE  /\ rows' \in [Places -> Row]
         /\ LiveIsOwned'
         /\ \A d \in Calls : \A i \in 1..Width(d) :
              Keeps(d, i) /\ RowOf(d, i) = [owner |-> d, live |-> TRUE]
                => rows'[PlaceOf(d, i)] = rows[PlaceOf(d, i)]
  <1>1. rows \in [Places -> Row] /\ <<s, k>> \in Places
    BY PlacesMembers DEF IInv, TypeOK
  <1>2. [owner |-> c, live |-> TRUE] \in Row
    BY DEF Row
  <1>3. LiveIsOwned'
    BY <1>1 DEF IInv, LiveIsOwned
  <1>4. ASSUME NEW d \in Calls, NEW i \in 1..Width(d), Keeps(d, i),
               RowOf(d, i) = [owner |-> d, live |-> TRUE]
        PROVE  rows'[PlaceOf(d, i)] = rows[PlaceOf(d, i)]
    <2>1. PlaceOf(d, i) \in Places
      BY <1>4, LeasePlace DEF IInv, Keeps
    <2>2. PlaceOf(d, i) # <<s, k>>
      BY <1>4 DEF RowOf, Free
    <2>. QED  BY <1>1, <2>1, <2>2
  <1>. QED  BY <1>1, <1>2, <1>3, <1>4

LEMMA InsertedStep ==
  ASSUME IInv, NEW c \in Calls, Inserted(c)
  PROVE  IInv'
  <1> DEFINE s == Current(c)
             k == cursor[c]
             n == Len(got[c])
             last == n + 1 = Width(c)
  <1>1. /\ phase[c] = "inserting" /\ k \in Slots(s) /\ rows[<<s, k>>] = Free
        /\ rows' = [rows EXCEPT ![<<s, k>>] = [owner |-> c, live |-> TRUE]]
        /\ got' = [got EXCEPT ![c] = Append(got[c], k)]
        /\ phase' = [phase EXCEPT ![c] = IF last THEN "validating" ELSE "pruning"]
        /\ pending' = [pending EXCEPT ![c] = IF last THEN 1..Width(c) ELSE {}]
        /\ cursor' = [cursor EXCEPT ![c] = 0]
        /\ UNCHANGED <<bad, valid, tick, lapsed, stray>>
    BY DEF Inserted, Goto
  <1>2. /\ phase \in [Calls -> Phases] /\ got \in [Calls -> Seq(Nat)] /\ got[c] \in Seq(Nat)
        /\ cursor \in [Calls -> Nat] /\ pending \in [Calls -> SUBSET Nat]
        /\ Width(c) \in Nat /\ n \in Nat /\ DOMAIN got[c] = 1..n
        /\ ScopesOf[c] \in [1..Width(c) -> Scopes]
    BY LimiterAssumption DEF IInv, TypeOK, Width
  <1>3. n < Width(c)
    BY <1>1 DEF IInv, Progress
  <1>4. n + 1 \in 1..Width(c) /\ s = ScopeAt(c, n + 1) /\ s \in Scopes /\ k \in Nat
    BY <1>2, <1>3 DEF Current, ScopeAt, IInv, TypeOK
  <1>5. /\ got'[c] \in Seq(Nat) /\ Len(got'[c]) = n + 1 /\ DOMAIN got'[c] = 1..(n + 1)
        /\ got'[c][n + 1] = k /\ \A i \in 1..n : got'[c][i] = got[c][i]
        /\ \A d \in Calls : d # c => got'[d] = got[d]
    BY <1>1, <1>2, <1>4
  <1> HIDE DEF s, k, n, last
  <1>6. /\ rows' \in [Places -> Row] /\ LiveIsOwned'
        /\ \A d \in Calls : \A i \in 1..Width(d) :
             Keeps(d, i) /\ RowOf(d, i) = [owner |-> d, live |-> TRUE]
               => rows'[PlaceOf(d, i)] = rows[PlaceOf(d, i)]
    BY <1>1, <1>4, NewRowDisplacesNobody
  <1>7. TypeOK'
    <2>1. ASSUME NEW d \in Calls
          PROVE  /\ Len(got'[d]) <= Width(d) /\ tick'[d] <= Len(got'[d])
                 /\ pending'[d] \subseteq DOMAIN got'[d]
                 /\ \A i \in DOMAIN got'[d] : got'[d][i] \in Slots(ScopeAt(d, i))
      <3>1. CASE d # c
        BY <1>1, <1>5, <1>2, <3>1 DEF IInv, TypeOK
      <3>2. CASE d = c
        <4>1. \A i \in 1..(n + 1) : i \in 1..n \/ i = n + 1
          BY <1>2
        <4>2. \A i \in 1..n : got[c][i] \in Slots(ScopeAt(c, i))
          BY <1>2 DEF IInv, TypeOK
        <4>3. \A i \in 1..(n + 1) : got'[c][i] \in Slots(ScopeAt(c, i))
          BY <1>1, <1>4, <1>5, <4>1, <4>2
        <4>4. tick[c] <= n /\ tick[c] \in Nat
          BY DEF IInv, TypeOK, n
        <4>5. pending'[c] \subseteq 1..(n + 1)
          BY <1>1, <1>2 DEF last
        <4>. QED  BY <1>1, <1>2, <1>3, <1>5, <3>2, <4>3, <4>4, <4>5
      <3>. QED  BY <3>1, <3>2
    <2>2. got' \in [Calls -> Seq(Nat)] /\ cursor' \in [Calls -> Nat] /\ phase' \in [Calls -> Phases]
      BY <1>1, <1>2, <1>5 DEF Phases
    <2>3. pending' \in [Calls -> SUBSET Nat]
      BY <1>1, <1>2
    <2>. QED  BY <1>1, <1>6, <2>1, <2>2, <2>3 DEF IInv, TypeOK
  <1>8. Progress'
    <2>1. last <=> Len(got'[c]) = Width(c)
      BY <1>5 DEF last
    <2>2. tick[c] = 0
      BY <1>1 DEF IInv, Progress, TypeOK
    <2>. QED  BY <1>1, <1>2, <1>3, <1>5, <2>1, <2>2 DEF IInv, Progress
  <1>9. OwnsUntilLapsed'
    <2> SUFFICES ASSUME NEW d \in Calls, d \notin lapsed', NEW i \in 1..Width(d), Keeps(d, i)'
                 PROVE  RowOf(d, i)' = [owner |-> d, live |-> TRUE]
      BY DEF OwnsUntilLapsed
    <2>1. CASE d = c /\ i = n + 1
      <3>1. PlaceOf(d, i)' = <<s, k>>
        BY <1>4, <1>5, <2>1 DEF PlaceOf, ScopeAt
      <3>2. <<s, k>> \in Places /\ rows \in [Places -> Row]
        BY <1>1, <1>4, PlacesMembers DEF IInv, TypeOK
      <3>. QED  BY <1>1, <2>1, <3>1, <3>2 DEF RowOf
    <2>2. CASE ~(d = c /\ i = n + 1)
      <3>1. Keeps(d, i) /\ got'[d][i] = got[d][i]
        <4>1. CASE d # c
          BY <1>1, <1>2, <1>5, <4>1 DEF Keeps
        <4>2. CASE d = c
          <5>1. i \in 1..n
            BY <1>2, <1>5, <2>2, <4>2 DEF Keeps
          <5>. QED  BY <1>1, <1>2, <1>5, <4>2, <5>1 DEF Keeps
        <4>. QED  BY <4>1, <4>2
      <3>2. RowOf(d, i) = [owner |-> d, live |-> TRUE]
        BY <1>1, <3>1 DEF IInv, OwnsUntilLapsed
      <3>3. PlaceOf(d, i)' = PlaceOf(d, i)
        BY <3>1 DEF PlaceOf, ScopeAt
      <3>. QED  BY <1>6, <3>1, <3>2, <3>3 DEF RowOf
    <2>. QED  BY <2>1, <2>2
  <1>. QED  BY <1>6, <1>7, <1>8, <1>9 DEF IInv

LEMMA AnswerLostStep ==
  ASSUME IInv, NEW c \in Calls, AcquireAnswerLost(c)
  PROVE  IInv'
  <1> DEFINE s == Current(c)
             k == cursor[c]
  <1>1. /\ phase[c] = "inserting" /\ k \in Slots(s) /\ rows[<<s, k>>] = Free
        /\ rows' = [rows EXCEPT ![<<s, k>>] = [owner |-> c, live |-> TRUE]]
        /\ phase' = [phase EXCEPT ![c] = "undoing"]
        /\ pending' = [pending EXCEPT ![c] = DOMAIN got[c]]
        /\ bad' = [bad EXCEPT ![c] = FALSE] /\ cursor' = [cursor EXCEPT ![c] = 0]
        /\ stray' = stray \cup {c} /\ UNCHANGED <<got, valid, tick, lapsed>>
    BY DEF AcquireAnswerLost, Refuse, Goto
  <1>2. /\ phase \in [Calls -> Phases] /\ got \in [Calls -> Seq(Nat)]
        /\ DOMAIN got[c] = 1..Len(got[c]) /\ Len(got[c]) \in Nat
        /\ cursor \in [Calls -> Nat] /\ pending \in [Calls -> SUBSET Nat]
        /\ bad \in [Calls -> BOOLEAN]
        /\ Width(c) \in Nat /\ ScopesOf[c] \in [1..Width(c) -> Scopes]
        /\ Len(got[c]) < Width(c)
    <2>1. /\ phase \in [Calls -> Phases] /\ got \in [Calls -> Seq(Nat)] /\ got[c] \in Seq(Nat)
          /\ cursor \in [Calls -> Nat] /\ pending \in [Calls -> SUBSET Nat]
          /\ bad \in [Calls -> BOOLEAN]
      BY DEF IInv, TypeOK
    <2>2. Width(c) \in Nat /\ ScopesOf[c] \in [1..Width(c) -> Scopes]
      BY LimiterAssumption DEF Width
    <2>3. Len(got[c]) < Width(c)
      BY <1>1 DEF IInv, Progress
    <2>. QED  BY <2>1, <2>2, <2>3
  <1>3. s \in Scopes
    <2>1. Len(got[c]) + 1 \in 1..Width(c)
      BY <1>2
    <2>. QED  BY <1>2, <2>1 DEF Current, ScopeAt
  <1> HIDE DEF s, k
  <1>4. /\ rows' \in [Places -> Row] /\ LiveIsOwned'
        /\ \A d \in Calls : \A i \in 1..Width(d) :
             Keeps(d, i) /\ RowOf(d, i) = [owner |-> d, live |-> TRUE]
               => rows'[PlaceOf(d, i)] = rows[PlaceOf(d, i)]
    BY <1>1, <1>3, NewRowDisplacesNobody
  <1>5. TypeOK'
    BY <1>1, <1>2, <1>4 DEF IInv, TypeOK, Phases
  <1>6. Progress'
    BY <1>1, <1>2 DEF IInv, Progress
  <1>7. OwnsUntilLapsed'
    <2>1. \A i \in 1..Width(c) : Keeps(c, i)' => Keeps(c, i) /\ got'[c][i] = got[c][i]
      BY <1>1, <1>2 DEF Keeps
    <2>2. \A d \in Calls : d # c =>
            phase'[d] = phase[d] /\ got'[d] = got[d] /\ pending'[d] = pending[d]
      BY <1>1, <1>2
    <2>. QED  BY <1>1, <1>4, <2>1, <2>2, OwnsFrame DEF IInv
  <1>. QED  BY <1>4, <1>5, <1>6, <1>7 DEF IInv

\* A release deletes the caller's own row or nothing.
LEMMA ReleaseStep ==
  ASSUME IInv, NEW c \in Calls, NEW i \in 1..Width(c), ReleaseOne(c, i) \/ ReleaseOneFails(c, i)
  PROVE  IInv'
  <1>1. /\ phase[c] \in {"undoing", "releasing"} /\ i \in pending[c]
        /\ DeleteOwn(c, i) \/ UNCHANGED rows
        /\ pending' = [pending EXCEPT ![c] = pending[c] \ {i}]
        /\ UNCHANGED <<phase, got, cursor, valid, tick, lapsed, stray>>
        /\ bad' \in [Calls -> BOOLEAN]
    BY DEF ReleaseOne, ReleaseOneFails, IInv, TypeOK
  <1>2. /\ rows \in [Places -> Row] /\ pending \in [Calls -> SUBSET Nat]
        /\ pending[c] \subseteq DOMAIN got[c] /\ i \in DOMAIN got[c]
    BY <1>1 DEF IInv, TypeOK
  <1>3. PlaceOf(c, i) \in Places
    BY <1>2, LeasePlace DEF IInv
  <1>4. \/ UNCHANGED rows
        \/ /\ rows[PlaceOf(c, i)].owner = c
           /\ rows' = [rows EXCEPT ![PlaceOf(c, i)] = Free]
    BY <1>1 DEF DeleteOwn, Owns, RowOf
  <1>5. rows' \in [Places -> Row] /\ LiveIsOwned'
    <2>1. Free \in Row /\ ~Free.live
      BY DEF Free, Row
    <2>2. rows' \in [Places -> Row]
      BY <1>2, <1>3, <1>4, <2>1
    <2>3. \A p \in Places : rows'[p] = rows[p] \/ rows'[p] = Free
      BY <1>2, <1>3, <1>4
    <2>. QED  BY <2>1, <2>2, <2>3 DEF IInv, LiveIsOwned
  <1>6. TypeOK'
    BY <1>1, <1>2, <1>5 DEF IInv, TypeOK
  <1>7. Progress'
    BY <1>1, <1>2 DEF IInv, Progress
  <1>8. OwnsUntilLapsed'
    <2>1. ASSUME NEW d \in Calls, NEW j \in 1..Width(d), Keeps(d, j), Keeps(d, j)',
                 RowOf(d, j) = [owner |-> d, live |-> TRUE]
          PROVE  rows'[PlaceOf(d, j)] = rows[PlaceOf(d, j)]
      <3>1. PlaceOf(d, j) \in Places /\ j \in DOMAIN got[d]
        BY <2>1, LeasePlace DEF IInv, Keeps
      <3>2. CASE d # c
        <4>1. rows[PlaceOf(d, j)].owner # c
          BY <2>1, <3>2 DEF RowOf
        <4>. QED  BY <1>2, <1>3, <1>4, <3>1, <4>1
      <3>3. CASE d = c
        <4>1. j # i
          BY <1>1, <1>2, <2>1, <3>3 DEF Keeps
        <4>2. PlaceOf(d, j) # PlaceOf(c, i)
          BY <1>2, <3>1, <3>3, <4>1, LeasePlacesDistinct DEF IInv
        <4>. QED  BY <1>2, <1>3, <1>4, <3>1, <4>2
      <3>. QED  BY <3>2, <3>3
    <2>2. \A j \in 1..Width(c) : Keeps(c, j)' => Keeps(c, j) /\ got'[c][j] = got[c][j]
      BY <1>1, <1>2 DEF Keeps
    <2>3. \A d \in Calls : d # c =>
            phase'[d] = phase[d] /\ got'[d] = got[d] /\ pending'[d] = pending[d]
      BY <1>1, <1>2
    <2>. QED  BY <1>1, <2>1, <2>2, <2>3, OwnsFrame DEF IInv
  <1>. QED  BY <1>5, <1>6, <1>7, <1>8 DEF IInv

LEMMA ExpireStep ==
  ASSUME IInv, NEW p \in Places, Expire(p)
  PROVE  IInv'
  <1>1. /\ rows[p].live /\ rows' = [rows EXCEPT ![p].live = FALSE]
        /\ lapsed' = lapsed \cup {rows[p].owner} /\ rows[p].owner \in Calls
        /\ UNCHANGED <<phase, got, cursor, pending, bad, valid, tick, stray>>
        /\ rows \in [Places -> Row]
    BY DEF Expire, IInv, TypeOK, LiveIsOwned
  <1>2. rows' \in [Places -> Row]
    BY <1>1 DEF Row
  <1>3. TypeOK'
    BY <1>1, <1>2 DEF IInv, TypeOK
  <1>4. Progress'
    BY <1>1 DEF IInv, Progress
  <1>5. LiveIsOwned'
    BY <1>1 DEF IInv, LiveIsOwned, Row
  <1>6. OwnsUntilLapsed'
    <2> SUFFICES ASSUME NEW d \in Calls, d \notin lapsed', NEW i \in 1..Width(d), Keeps(d, i)'
                 PROVE  RowOf(d, i)' = [owner |-> d, live |-> TRUE]
      BY DEF OwnsUntilLapsed
    <2>1. Keeps(d, i) /\ d \notin lapsed /\ d # rows[p].owner /\ PlaceOf(d, i)' = PlaceOf(d, i)
      BY <1>1 DEF Keeps, PlaceOf, ScopeAt
    <2>2. RowOf(d, i) = [owner |-> d, live |-> TRUE]
      BY <2>1 DEF IInv, OwnsUntilLapsed
    <2>3. PlaceOf(d, i) # p /\ PlaceOf(d, i) \in Places
      BY <2>1, <2>2, LeasePlace DEF IInv, Keeps, RowOf
    <2>. QED  BY <1>1, <2>1, <2>2, <2>3 DEF RowOf
  <1>. QED  BY <1>3, <1>4, <1>5, <1>6 DEF IInv

LEMMA NextIInv == IInv /\ [Next]_vars => IInv'
  <1> SUFFICES ASSUME IInv, [Next]_vars PROVE IInv'
    OBVIOUS
  <1>1. CASE UNCHANGED vars
    <2>1. TypeOK' /\ Progress' /\ LiveIsOwned'
      BY <1>1 DEF vars, IInv, TypeOK, Progress, LiveIsOwned
    <2>2. OwnsUntilLapsed'
      BY <1>1 DEF vars, IInv, OwnsUntilLapsed, Keeps, RowOf, PlaceOf, ScopeAt
    <2>. QED  BY <2>1, <2>2 DEF IInv
  <1>2. ASSUME NEW c \in Calls, CallStep(c) \/ Crash(c)
        PROVE  IInv'
    <2>1. 1 \in 1..Width(c)
      BY LimiterAssumption DEF Width
    <2>. QED  BY <1>2, <2>1, LocalSteps, PruneStep, InsertedStep, AnswerLostStep, ReleaseStep
              DEF CallStep, AcquireStep, RenewStep, GiveBackStep, ErrorStep
  <1>. QED  BY <1>1, <1>2, ExpireStep DEF Next, Environment

-----------------------------------------------------------------------------
\* Every variable keeps its type.
THEOREM LimiterTypeOK == Spec => []TypeOK
  <1>1. IInv => TypeOK
    BY DEF IInv
  <1>. QED  BY <1>1, InitIInv, NextIInv, PTL DEF Spec

\* A lease is lost only by expiring: late releases, undone acquisitions and the
\* pruning of other calls never touch it.
THEOREM LimiterOwnership == Spec => []OwnsUntilLapsed
  <1>1. IInv => OwnsUntilLapsed
    BY DEF IInv
  <1>. QED  BY <1>1, InitIInv, NextIInv, PTL DEF Spec

\* The slots of the holders of a scope are pairwise different, hence the limit.
LEMMA OwnershipBoundsHolders == IInv => CapacityRespected
  <1> SUFFICES ASSUME IInv, NEW s \in Scopes
               PROVE  Cardinality({c \in Calls \ lapsed :
                        phase[c] = "held" /\ \E i \in 1..Width(c) : ScopeAt(c, i) = s}) <= Limit[s]
    BY DEF CapacityRespected
  <1> DEFINE H == {c \in Calls \ lapsed :
                     phase[c] = "held" /\ \E i \in 1..Width(c) : ScopeAt(c, i) = s}
             at(c) == CHOOSE i \in 1..Width(c) : ScopeAt(c, i) = s
             f == [c \in H |-> got[c][at(c)]]
  <1>1. \A c \in H : /\ at(c) \in 1..Width(c) /\ ScopeAt(c, at(c)) = s
                     /\ at(c) \in DOMAIN got[c] /\ got[c][at(c)] \in Slots(s)
                     /\ RowOf(c, at(c)) = [owner |-> c, live |-> TRUE]
    <2> TAKE c \in H
    <2>1. at(c) \in 1..Width(c) /\ ScopeAt(c, at(c)) = s
      OBVIOUS
    <2> HIDE DEF at
    <2>2. Len(got[c]) = Width(c) /\ DOMAIN got[c] = 1..Len(got[c])
      BY DEF IInv, Progress, TypeOK
    <2>3. at(c) \in DOMAIN got[c] /\ got[c][at(c)] \in Slots(s)
      BY <2>1, <2>2, LeasePlace DEF IInv
    <2>4. RowOf(c, at(c)) = [owner |-> c, live |-> TRUE]
      BY <2>1, <2>3 DEF IInv, OwnsUntilLapsed, Keeps
    <2>. QED  BY <2>1, <2>3, <2>4
  <1> HIDE DEF at
  <1>2. \A c, d \in H : f[c] = f[d] => c = d
    <2> SUFFICES ASSUME NEW c \in H, NEW d \in H, f[c] = f[d] PROVE c = d
      OBVIOUS
    <2>1. got[c][at(c)] = got[d][at(d)]
      OBVIOUS
    <2>2. PlaceOf(c, at(c)) = PlaceOf(d, at(d))
      BY <1>1, <2>1 DEF PlaceOf
    <2>3. RowOf(c, at(c)).owner = c /\ RowOf(d, at(d)).owner = d
      BY <1>1
    <2>. QED  BY <2>2, <2>3 DEF RowOf
  <1>3. f \in Injection(H, Slots(s))
    BY <1>1, <1>2 DEF Injection, IsInjective
  <1>4. Limit[s] \in Nat \ {0}
    BY LimiterAssumption
  <1>5. IsFiniteSet(Slots(s)) /\ Cardinality(Slots(s)) = Limit[s]
    <2> DEFINE b == Limit[s] - 1
    <2>1. 0 \in Int /\ b \in Int /\ ~(0 > b) /\ b - 0 + 1 = Limit[s]
      BY <1>4
    <2> HIDE DEF b
    <2>2. IsFiniteSet(0..b) /\ Cardinality(0..b) = b - 0 + 1
      BY <2>1, FS_Interval
    <2>. QED  BY <2>1, <2>2 DEF Slots, b
  <1> HIDE DEF f, H
  <1>6. Cardinality(H) <= Cardinality(Slots(s))
    BY <1>3, <1>5, FS_Injection
  <1>. QED  BY <1>5, <1>6 DEF H

\* No scope is held by more unexpired composite leases than it has slots.
THEOREM LimiterCapacity == Spec => []CapacityRespected
  BY InitIInv, NextIInv, OwnershipBoundsHolders, PTL DEF Spec

-----------------------------------------------------------------------------
\* The instances of LeasePool count as this module does.
LEMMA InstanceCardinality ==
  \A s, S : ScopePool(s)!Cardinality(S) = Cardinality(S)
  BY DEF Cardinality, ScopePool!Cardinality

\* A row that stops being live takes at most its owner out of the holders.
LEMMA RowDropped ==
  ASSUME IInv, NEW p \in Places, NEW r \in Row, ~r.live, rows' = [rows EXCEPT ![p] = r],
         NEW s \in Scopes
  PROVE  \/ HoldersOf(s)' = HoldersOf(s)
         \/ \E d \in Calls : d \in HoldersOf(s) /\ HoldersOf(s)' = HoldersOf(s) \ {d}
  <1> DEFINE d == rows[p].owner
  <1>1. rows \in [Places -> Row] /\ \A k \in Slots(s) : <<s, k>> \in Places
    BY PlacesMembers DEF IInv, TypeOK
  <1>2. \A k \in Slots(s) : rows'[<<s, k>>] = rows[<<s, k>>] \/ <<s, k>> = p
    BY <1>1
  <1>3. \A k \in Slots(s), e \in Calls : <<s, k>> = p => rows'[<<s, k>>] # [owner |-> e, live |-> TRUE]
    BY <1>1
  <1>4. HoldersOf(s)' \subseteq HoldersOf(s)
    BY <1>2, <1>3 DEF HoldersOf
  <1>5. \A e \in HoldersOf(s) : e # d => e \in HoldersOf(s)'
    <2> SUFFICES ASSUME NEW e \in Calls, NEW k \in Slots(s),
                        rows[<<s, k>>] = [owner |-> e, live |-> TRUE], e # d
                 PROVE  rows'[<<s, k>>] = [owner |-> e, live |-> TRUE]
      BY DEF HoldersOf
    <2>. QED  BY <1>2
  <1> HIDE DEF d
  <1>6. HoldersOf(s) \subseteq Calls
    BY DEF HoldersOf
  <1>. QED  BY <1>4, <1>5, <1>6

\* A row inserted where there was none: its owner has taken a free slot.
LEMMA RowAdded ==
  ASSUME IInv, NEW c \in Calls, NEW t \in Scopes, NEW k \in Slots(t), rows[<<t, k>>] = Free,
         rows' = [rows EXCEPT ![<<t, k>>] = [owner |-> c, live |-> TRUE]], NEW s \in Scopes
  PROVE  \/ HoldersOf(s)' = HoldersOf(s)
         \/ /\ c \notin HoldersOf(s) /\ Cardinality(HoldersOf(s)) < Limit[s]
            /\ HoldersOf(s)' = HoldersOf(s) \cup {c}
  <1>1. rows \in [Places -> Row] /\ \A x \in Scopes : \A j \in Slots(x) : <<x, j>> \in Places
    BY PlacesMembers DEF IInv, TypeOK
  <1>2. CASE s # t
    <2>1. \A j \in Slots(s) : rows'[<<s, j>>] = rows[<<s, j>>]
      BY <1>1, <1>2
    <2>. QED  BY <2>1 DEF HoldersOf
  <1>3. CASE s = t
    <2>1. \A j \in Slots(s) : j # k => rows'[<<s, j>>] = rows[<<s, j>>]
      BY <1>1, <1>3
    <2>2. rows'[<<s, k>>] = [owner |-> c, live |-> TRUE]
      BY <1>1, <1>3
    <2>3. \A e \in Calls : rows[<<s, k>>] # [owner |-> e, live |-> TRUE]
      BY <1>3 DEF Free
    <2>4. HoldersOf(s)' = HoldersOf(s) \cup {c}
      <3>1. HoldersOf(s)' \subseteq HoldersOf(s) \cup {c}
        <4> SUFFICES ASSUME NEW e \in Calls, NEW j \in Slots(s), e # c,
                            rows'[<<s, j>>] = [owner |-> e, live |-> TRUE]
                     PROVE  rows[<<s, j>>] = [owner |-> e, live |-> TRUE]
          BY DEF HoldersOf
        <4>. QED  BY <2>1, <2>2
      <3>2. HoldersOf(s) \subseteq HoldersOf(s)'
        <4> SUFFICES ASSUME NEW e \in Calls, NEW j \in Slots(s),
                            rows[<<s, j>>] = [owner |-> e, live |-> TRUE]
                     PROVE  rows'[<<s, j>>] = [owner |-> e, live |-> TRUE]
          BY DEF HoldersOf
        <4>. QED  BY <2>1, <2>3
      <3>3. c \in HoldersOf(s)'
        BY <1>3, <2>2 DEF HoldersOf
      <3>. QED  BY <3>1, <3>2, <3>3
    <2>5. Cardinality(HoldersOf(s)) < Limit[s]
      <3> DEFINE at(e) == CHOOSE j \in Slots(s) : rows[<<s, j>>] = [owner |-> e, live |-> TRUE]
                 f == [e \in HoldersOf(s) |-> at(e)]
      <3>1. \A e \in HoldersOf(s) : /\ at(e) \in Slots(s) \ {k}
                                    /\ rows[<<s, at(e)>>] = [owner |-> e, live |-> TRUE]
        BY <2>3 DEF HoldersOf
      <3> HIDE DEF at
      <3>2. \A d, e \in HoldersOf(s) : f[d] = f[e] => d = e
        <4> SUFFICES ASSUME NEW d \in HoldersOf(s), NEW e \in HoldersOf(s), at(d) = at(e)
                     PROVE  d = e
          OBVIOUS
        <4>1. /\ rows[<<s, at(d)>>] = [owner |-> d, live |-> TRUE]
              /\ rows[<<s, at(e)>>] = [owner |-> e, live |-> TRUE]
          BY <3>1
        <4>2. [owner |-> d, live |-> TRUE] = [owner |-> e, live |-> TRUE]
          BY <4>1
        <4>. QED  BY <4>2
      <3>3. f \in Injection(HoldersOf(s), Slots(s) \ {k})
        BY <3>1, <3>2 DEF Injection, IsInjective
      <3>4. Limit[s] \in Nat \ {0}
        BY LimiterAssumption
      <3>5. IsFiniteSet(Slots(s)) /\ Cardinality(Slots(s)) = Limit[s]
        <4> DEFINE b == Limit[s] - 1
        <4>1. 0 \in Int /\ b \in Int /\ ~(0 > b) /\ b - 0 + 1 = Limit[s]
          BY <3>4
        <4> HIDE DEF b
        <4>2. IsFiniteSet(0..b) /\ Cardinality(0..b) = b - 0 + 1
          BY <4>1, FS_Interval
        <4>. QED  BY <4>1, <4>2 DEF Slots, b
      <3>6. IsFiniteSet(Slots(s) \ {k}) /\ Cardinality(Slots(s) \ {k}) = Limit[s] - 1
        BY <1>3, <3>5, FS_RemoveElement
      <3> HIDE DEF f
      <3>7. IsFiniteSet(HoldersOf(s)) /\ Cardinality(HoldersOf(s)) <= Limit[s] - 1
        BY <3>3, <3>6, FS_Injection
      <3>. QED  BY <3>4, <3>7, FS_CardinalityType
    <2>. QED  BY <2>4, <2>5
  <1>. QED  BY <1>2, <1>3

\* Pruning takes expired rows only.
LEMMA PruneKeepsHolders ==
  ASSUME IInv, NEW c \in Calls, Prune(c), NEW s \in Scopes
  PROVE  HoldersOf(s)' = HoldersOf(s)
  <1>1. \A k \in Slots(s) : <<s, k>> \in Places
    BY PlacesMembers
  <1>2. \A k \in Slots(s) : rows'[<<s, k>>] = IF rows[<<s, k>>].live THEN rows[<<s, k>>] ELSE Free
    BY <1>1 DEF Prune
  <1>3. \A k \in Slots(s), d \in Calls :
          rows'[<<s, k>>] = [owner |-> d, live |-> TRUE] <=> rows[<<s, k>>] = [owner |-> d, live |-> TRUE]
    BY <1>2 DEF Free
  <1>. QED  BY <1>3 DEF HoldersOf

\* The three ways a step can change the holders of a scope.
LEMMA StepOnScope ==
  ASSUME IInv, [Next]_vars, NEW s \in Scopes
  PROVE  [ScopePool(s)!Next]_(HoldersOf(s))
  <1> DEFINE same == HoldersOf(s)' = HoldersOf(s)
             less == \E d \in Calls : d \in HoldersOf(s) /\ HoldersOf(s)' = HoldersOf(s) \ {d}
             more == \E d \in Calls : /\ d \notin HoldersOf(s) /\ Cardinality(HoldersOf(s)) < Limit[s]
                                      /\ HoldersOf(s)' = HoldersOf(s) \cup {d}
  <1>1. ASSUME rows' = rows PROVE same
    BY <1>1 DEF HoldersOf
  <1>2. ASSUME NEW c \in Calls, CallStep(c) \/ Crash(c)
        PROVE  same \/ less \/ more
    <2>1. CASE Prune(c)
      BY <2>1, PruneKeepsHolders
    <2>2. CASE Inserted(c) \/ AcquireAnswerLost(c)
      <3>1. /\ phase[c] = "inserting" /\ cursor[c] \in Slots(Current(c))
            /\ rows[<<Current(c), cursor[c]>>] = Free
            /\ rows' = [rows EXCEPT ![<<Current(c), cursor[c]>>] = [owner |-> c, live |-> TRUE]]
        BY <2>2 DEF Inserted, AcquireAnswerLost
      <3>2. Len(got[c]) + 1 \in 1..Width(c)
        <4>1. Len(got[c]) < Width(c) /\ got[c] \in Seq(Nat) /\ Width(c) \in Nat
          BY <3>1, LimiterAssumption DEF IInv, Progress, TypeOK, Width
        <4>. QED  BY <4>1
      <3>3. Current(c) \in Scopes
        BY <3>2, LimiterAssumption DEF Current, ScopeAt, Width
      <3>. QED  BY <3>1, <3>3, RowAdded
    <2>3. ASSUME NEW i \in 1..Width(c), ReleaseOne(c, i) \/ ReleaseOneFails(c, i)
          PROVE  same \/ less
      <3>1. \/ rows' = rows
            \/ i \in pending[c] /\ rows' = [rows EXCEPT ![PlaceOf(c, i)] = Free]
        BY <2>3 DEF ReleaseOne, ReleaseOneFails, DeleteOwn
      <3>2. i \in pending[c] => PlaceOf(c, i) \in Places
        BY LeasePlace DEF IInv, TypeOK
      <3>3. Free \in Row /\ ~Free.live
        BY DEF Free, Row
      <3>. QED  BY <1>1, <3>1, <3>2, <3>3, RowDropped
    <2>4. CASE \/ Begin(c) \/ Conflict(c) \/ ScopeFull(c) \/ AcquireError(c) \/ Granted(c)
               \/ LostInValidation(c) \/ RenewStart(c) \/ Renew(c) \/ RenewError(c)
               \/ Release(c) \/ UndoSettled(c) \/ ReleaseSettled(c) \/ Crash(c)
      BY <1>1, <2>4 DEF Begin, Conflict, ScopeFull, AcquireError, Granted, LostInValidation,
           RenewStart, Renew, RenewError, Release, UndoSettled, ReleaseSettled, Crash
    <2>5. ASSUME NEW i \in 1..Width(c), Validated(c, i) \/ ValidationError(c, i)
          PROVE  same
      BY <1>1, <2>5 DEF Validated, ValidationError
    <2>. QED  BY <1>2, <2>1, <2>2, <2>3, <2>4, <2>5
              DEF CallStep, AcquireStep, RenewStep, GiveBackStep, ErrorStep
  <1>3. ASSUME NEW p \in Places, Expire(p)
        PROVE  same \/ less
    <2>1. rows[p] \in Row /\ rows' = [rows EXCEPT ![p] = [rows[p] EXCEPT !.live = FALSE]]
      BY <1>3 DEF Expire, IInv, TypeOK
    <2>2. [rows[p] EXCEPT !.live = FALSE] \in Row /\ ~[rows[p] EXCEPT !.live = FALSE].live
      BY <2>1 DEF Row
    <2>. QED  BY <2>1, <2>2, RowDropped
  <1>4. ASSUME UNCHANGED vars PROVE same
    BY <1>1, <1>4 DEF vars
  <1> HIDE DEF same, less, more
  <1>5. same \/ less \/ more
    BY <1>2, <1>3, <1>4 DEF Next, Environment
  <1>. QED  BY <1>5, InstanceCardinality DEF ScopePool!Next, ScopePool!Take, ScopePool!Give,
                                               same, less, more

\* Every scope of the lease table implements LeasePool: each statement of each call,
\* prunes and expiries included, gives a free slot to one call or takes one away.
THEOREM LimiterImplementsPools == Spec => ScopePools
  <1>1. Init => \A s \in Scopes : ScopePool(s)!Init
    <2> SUFFICES ASSUME Init, NEW s \in Scopes PROVE ScopePool(s)!Init
      OBVIOUS
    <2>1. \A k \in Slots(s) : rows[<<s, k>>] = Free
      BY PlacesMembers DEF Init
    <2>2. \A d \in Calls : Free # [owner |-> d, live |-> TRUE]
      BY DEF Free
    <2>3. HoldersOf(s) = {}
      BY <2>1, <2>2 DEF HoldersOf
    <2>. QED  BY <2>3 DEF ScopePool!Init
  <1>2. IInv /\ [Next]_vars => [\A s \in Scopes : [ScopePool(s)!Next]_(HoldersOf(s))]_vars
    BY StepOnScope
  <1>. QED  BY <1>1, <1>2, InitIInv, NextIInv, PTL DEF Spec, ScopePools

-----------------------------------------------------------------------------
\* Why call c may have a row at p: it ended without settling its leases, it still
\* counts on the lease there, or the release of one of its leases has failed.
Accounted(c, p) ==
  \/ phase[c] \in {"uncertain", "unreleased", "dead"}
  \/ \E i \in DOMAIN got[c] :
       /\ PlaceOf(c, i) = p
       /\ \/ Keeps(c, i)
          \/ phase[c] \in {"undoing", "releasing"} /\ bad[c]

RowsAccounted == \A p \in Places, c \in Calls \ stray :
  rows[p].owner = c => Accounted(c, p)

\* Only the rows of the call that steps need an account anew.
LEMMA AccountFrame ==
  ASSUME RowsAccounted, NEW c \in Calls, stray \subseteq stray',
         \A d \in Calls : d # c =>
           phase'[d] = phase[d] /\ got'[d] = got[d] /\ pending'[d] = pending[d] /\ bad'[d] = bad[d],
         \A p \in Places, d \in Calls : d # c /\ rows'[p].owner = d => rows[p].owner = d,
         \A p \in Places : c \notin stray' /\ rows'[p].owner = c => Accounted(c, p)'
  PROVE  RowsAccounted'
  <1> SUFFICES ASSUME NEW p \in Places, NEW d \in Calls, d \notin stray', rows'[p].owner = d, d # c
               PROVE  Accounted(d, p)'
    BY DEF RowsAccounted
  <1>1. Accounted(d, p)
    BY DEF RowsAccounted
  <1>. QED  BY <1>1 DEF Accounted, Keeps, PlaceOf, ScopeAt

LEMMA InsertAccounted ==
  ASSUME IInv, RowsAccounted, NEW c \in Calls, Inserted(c) \/ AcquireAnswerLost(c)
  PROVE  RowsAccounted'
  <1> DEFINE q == <<Current(c), cursor[c]>>
  <1>0. PICK n \in Nat : n = Len(got[c])
    BY DEF IInv, TypeOK
  <1>1. /\ phase[c] = "inserting" /\ rows[q] = Free
        /\ rows' = [rows EXCEPT ![q] = [owner |-> c, live |-> TRUE]]
    BY DEF Inserted, AcquireAnswerLost
  <1>2. /\ phase \in [Calls -> Phases] /\ got \in [Calls -> Seq(Nat)] /\ got[c] \in Seq(Nat)
        /\ pending \in [Calls -> SUBSET Nat] /\ bad \in [Calls -> BOOLEAN]
        /\ rows \in [Places -> Row] /\ DOMAIN got[c] = 1..n
    BY <1>0 DEF IInv, TypeOK
  <1> HIDE DEF q
  <1>3. \A p \in Places : p # q => rows'[p] = rows[p]
    BY <1>1, <1>2
  <1>4. \A p \in Places, d \in Calls : d # c /\ rows'[p].owner = d => rows[p].owner = d
    BY <1>1, <1>2
  <1>5. \A d \in Calls : d # c =>
           phase'[d] = phase[d] /\ got'[d] = got[d] /\ pending'[d] = pending[d] /\ bad'[d] = bad[d]
    BY <1>2 DEF Inserted, AcquireAnswerLost, Goto, Refuse
  <1>6. CASE AcquireAnswerLost(c)
    BY <1>4, <1>5, <1>6, AccountFrame DEF AcquireAnswerLost
  <1>7. CASE Inserted(c)
    <2>1. /\ got'[c] = Append(got[c], cursor[c]) /\ phase'[c] \in {"validating", "pruning"}
          /\ stray' = stray
      BY <1>2, <1>7 DEF Inserted, Goto
    <2>2. /\ DOMAIN got'[c] = 1..(n + 1) /\ got'[c][n + 1] = cursor[c]
          /\ \A i \in 1..n : got'[c][i] = got[c][i]
      <3>1. cursor[c] \in Nat
        BY DEF IInv, TypeOK
      <3>. QED  BY <1>0, <1>2, <2>1, <3>1
    <2>3. ASSUME NEW p \in Places, c \notin stray, rows'[p].owner = c
          PROVE  \E i \in 1..(n + 1) : PlaceOf(c, i)' = p
      <3>1. CASE p = q
        <4>1. PlaceOf(c, n + 1)' = q
          BY <1>0, <2>2 DEF PlaceOf, Current, ScopeAt, q
        <4>. QED  BY <1>2, <3>1, <4>1
      <3>2. CASE p # q
        <4>1. Accounted(c, p)
          BY <1>3, <2>3, <3>2 DEF RowsAccounted
        <4>2. PICK i \in 1..n : PlaceOf(c, i) = p
          BY <1>1, <1>2, <4>1 DEF Accounted
        <4>3. PlaceOf(c, i)' = p
          BY <2>2, <4>2 DEF PlaceOf, ScopeAt
        <4>. QED  BY <1>2, <4>3
      <3>. QED  BY <3>1, <3>2
    <2>4. \A p \in Places : c \notin stray' /\ rows'[p].owner = c => Accounted(c, p)'
      BY <2>1, <2>2, <2>3 DEF Accounted, Keeps
    <2>. QED  BY <1>4, <1>5, <2>1, <2>4, AccountFrame
  <1>. QED  BY <1>6, <1>7

LEMMA ReleaseAccounted ==
  ASSUME IInv, RowsAccounted, NEW c \in Calls, NEW i \in 1..Width(c),
         ReleaseOne(c, i) \/ ReleaseOneFails(c, i)
  PROVE  RowsAccounted'
  <1>1. /\ phase[c] \in {"undoing", "releasing"} /\ i \in pending[c]
        /\ pending' = [pending EXCEPT ![c] = pending[c] \ {i}]
        /\ UNCHANGED <<phase, got, stray>>
        /\ \/ DeleteOwn(c, i) /\ bad' = bad
           \/ (DeleteOwn(c, i) \/ UNCHANGED rows) /\ bad' = [bad EXCEPT ![c] = TRUE]
    BY DEF ReleaseOne, ReleaseOneFails
  <1>2. /\ rows \in [Places -> Row] /\ pending \in [Calls -> SUBSET Nat]
        /\ bad \in [Calls -> BOOLEAN] /\ i \in DOMAIN got[c]
    BY <1>1 DEF IInv, TypeOK
  <1>3. PlaceOf(c, i) \in Places /\ Free.owner \notin Calls
    BY <1>2, LeasePlace, LimiterAssumption DEF IInv, Free
  <1>4. \A p \in Places : rows'[p] = rows[p] \/ rows'[p] = Free
    BY <1>1, <1>2, <1>3 DEF DeleteOwn
  <1>5. DeleteOwn(c, i) => rows'[PlaceOf(c, i)].owner # c
    BY <1>2, <1>3 DEF DeleteOwn, Owns, RowOf
  <1>6. \A p \in Places, d \in Calls : rows'[p].owner = d => rows[p].owner = d
    BY <1>3, <1>4
  <1>7. \A d \in Calls : d # c =>
           phase'[d] = phase[d] /\ got'[d] = got[d] /\ pending'[d] = pending[d] /\ bad'[d] = bad[d]
    BY <1>1, <1>2
  <1>8. ASSUME NEW p \in Places, c \notin stray, rows'[p].owner = c
        PROVE  Accounted(c, p)'
    <2>1. Accounted(c, p)
      BY <1>6, <1>8 DEF RowsAccounted
    <2>2. PICK j \in DOMAIN got[c] : PlaceOf(c, j) = p /\ (Keeps(c, j) \/ bad[c])
      BY <1>1, <2>1 DEF Accounted
    <2>3. CASE bad'[c]
      BY <1>1, <2>2, <2>3 DEF Accounted, PlaceOf, ScopeAt
    <2>4. CASE ~bad'[c]
      <3>1. DeleteOwn(c, i) /\ ~bad[c]
        BY <1>1, <1>2, <2>4
      <3>2. j # i
        BY <1>5, <1>8, <2>2, <3>1
      <3>3. Keeps(c, j)'
        BY <1>1, <1>2, <2>2, <3>1, <3>2 DEF Keeps
      <3>. QED  BY <1>1, <2>2, <3>3 DEF Accounted, PlaceOf, ScopeAt
    <2>. QED  BY <2>3, <2>4
  <1>. QED  BY <1>1, <1>6, <1>7, <1>8, AccountFrame

\* Steps that insert nothing and release nothing.
LEMMA LocalAccounted ==
  ASSUME IInv, RowsAccounted, NEW c \in Calls, NEW i \in 1..Width(c),
         \/ Begin(c) \/ Prune(c) \/ Conflict(c) \/ ScopeFull(c) \/ AcquireError(c)
         \/ Validated(c, i) \/ ValidationError(c, i) \/ Granted(c) \/ LostInValidation(c)
         \/ RenewStart(c) \/ Renew(c) \/ RenewError(c) \/ Release(c) \/ UndoSettled(c)
         \/ ReleaseSettled(c) \/ Crash(c)
  PROVE  RowsAccounted'
  <1>1. /\ phase \in [Calls -> Phases] /\ got \in [Calls -> Seq(Nat)] /\ bad \in [Calls -> BOOLEAN]
        /\ pending \in [Calls -> SUBSET Nat] /\ rows \in [Places -> Row]
        /\ pending[c] \subseteq DOMAIN got[c]
    BY DEF IInv, TypeOK
  <1>2. /\ stray' = stray
        /\ \A d \in Calls : d # c =>
             phase'[d] = phase[d] /\ got'[d] = got[d] /\ pending'[d] = pending[d] /\ bad'[d] = bad[d]
    BY <1>1 DEF Begin, Prune, Conflict, ScopeFull, AcquireError, Validated, ValidationError, Granted,
           LostInValidation, RenewStart, Renew, RenewError, Release, UndoSettled, ReleaseSettled,
           Crash, Refuse, Forget, Goto
  <1>3. \A p \in Places : rows'[p] = rows[p] \/ rows'[p] = Free
    BY DEF Begin, Prune, Conflict, ScopeFull, AcquireError, Validated, ValidationError, Granted,
           LostInValidation, RenewStart, Renew, RenewError, Release, UndoSettled, ReleaseSettled,
           Crash
  <1>4. \A p \in Places, d \in Calls : rows'[p].owner = d => rows[p].owner = d
    BY <1>3, LimiterAssumption DEF Free
  <1>5. ASSUME NEW p \in Places, Accounted(c, p)
        PROVE  Accounted(c, p)'
    <2>1. CASE Crash(c)
      BY <1>1, <2>1 DEF Crash, Goto, Accounted
    <2>2. CASE UndoSettled(c) \/ ReleaseSettled(c)
      <3>1. phase[c] \in {"undoing", "releasing"} /\ pending[c] = {}
        BY <2>2 DEF UndoSettled, ReleaseSettled
      <3>2. bad[c]
        BY <1>5, <3>1 DEF Accounted, Keeps
      <3>. QED  BY <1>1, <2>2, <3>2 DEF UndoSettled, ReleaseSettled, Goto, Accounted
    <2>3. CASE ~(Crash(c) \/ UndoSettled(c) \/ ReleaseSettled(c))
      <3>1. got' = got
        BY <2>3 DEF Begin, Prune, Conflict, ScopeFull, AcquireError, Validated, ValidationError, Granted,
           LostInValidation, RenewStart, Renew, RenewError, Release, Refuse
      <3>2. \A j \in DOMAIN got[c] : PlaceOf(c, j)' = PlaceOf(c, j)
        BY <3>1 DEF PlaceOf, ScopeAt
      <3>3. phase[c] \notin {"uncertain", "unreleased", "dead"} \/ phase'[c] = phase[c]
        BY <1>1, <2>3 DEF Begin, Prune, Conflict, ScopeFull, AcquireError, Validated, ValidationError,
           Granted, LostInValidation, RenewStart, Renew, RenewError, Release, Refuse, Goto,
           IInv, Progress
      <3>4. phase[c] \notin {"undoing", "releasing"} \/ (phase' = phase /\ pending' = pending /\ bad' = bad)
        BY <2>3 DEF Begin, Prune, Conflict, ScopeFull, AcquireError, Validated, ValidationError,
           Granted, LostInValidation, RenewStart, Renew, RenewError, Release, Refuse,
           IInv, Progress
      <3>5. ASSUME NEW j \in DOMAIN got[c], phase[c] \in {"pruning", "inserting", "validating", "held"}
            PROVE  Keeps(c, j)'
        BY <1>1, <2>3, <3>1, <3>5 DEF Begin, Prune, Conflict, ScopeFull, AcquireError, Validated,
           ValidationError, Granted, LostInValidation, RenewStart, Renew, RenewError, Release, Refuse,
           Goto, Keeps
      <3>6. CASE phase[c] \in {"uncertain", "unreleased", "dead"}
        BY <3>3, <3>6 DEF Accounted
      <3>7. CASE phase[c] \notin {"uncertain", "unreleased", "dead"}
        <4>1. PICK j \in DOMAIN got[c] :
                /\ PlaceOf(c, j) = p
                /\ \/ Keeps(c, j)
                   \/ phase[c] \in {"undoing", "releasing"} /\ bad[c]
          BY <1>5, <3>7 DEF Accounted
        <4>2. CASE phase[c] \in {"undoing", "releasing"}
          BY <3>1, <3>2, <3>4, <4>1, <4>2 DEF Accounted, Keeps
        <4>3. CASE phase[c] \notin {"undoing", "releasing"}
          <5>1. Keeps(c, j)'
            BY <3>5, <4>1, <4>3 DEF Keeps
          <5>. QED  BY <3>1, <3>2, <4>1, <5>1 DEF Accounted
        <4>. QED  BY <4>2, <4>3
      <3>. QED  BY <3>6, <3>7
    <2>. QED  BY <2>1, <2>2, <2>3
  <1>6. \A p \in Places : c \notin stray' /\ rows'[p].owner = c => Accounted(c, p)'
    BY <1>2, <1>4, <1>5 DEF RowsAccounted
  <1>. QED  BY <1>2, <1>4, <1>6, AccountFrame

LEMMA NextAccounted == IInv /\ RowsAccounted /\ [Next]_vars => RowsAccounted'
  <1> SUFFICES ASSUME IInv, RowsAccounted, [Next]_vars PROVE RowsAccounted'
    OBVIOUS
  <1>1. CASE UNCHANGED vars
    BY <1>1 DEF vars, RowsAccounted, Accounted, Keeps, PlaceOf, ScopeAt
  <1>2. ASSUME NEW c \in Calls, CallStep(c) \/ Crash(c)
        PROVE  RowsAccounted'
    <2>1. 1 \in 1..Width(c)
      BY LimiterAssumption DEF Width
    <2>. QED  BY <1>2, <2>1, LocalAccounted, InsertAccounted, ReleaseAccounted
              DEF CallStep, AcquireStep, RenewStep, GiveBackStep, ErrorStep
  <1>3. ASSUME NEW p \in Places, Expire(p)
        PROVE  RowsAccounted'
    <2>1. \A q \in Places : rows'[q].owner = rows[q].owner
      BY <1>3 DEF Expire, IInv, TypeOK, Row
    <2>. QED  BY <1>3, <2>1 DEF Expire, RowsAccounted, Accounted, Keeps, PlaceOf, ScopeAt
  <1>. QED  BY <1>1, <1>2, <1>3 DEF Next, Environment

\* A composite that was refused or released without reporting uncertainty leaves no
\* row behind, unless an insert's lost answer hid that row from it.
THEOREM LimiterCleanSettlement == Spec => []CleanSettlement
  <1>1. Init => RowsAccounted
    BY LimiterAssumption DEF Init, RowsAccounted, Free
  <1>2. IInv /\ RowsAccounted => CleanSettlement
    BY DEF RowsAccounted, Accounted, Keeps, CleanSettlement
  <1>. QED  BY <1>1, <1>2, InitIInv, NextIInv, NextAccounted, PTL DEF Spec
=============================================================================
