------------------------ MODULE OAuthRefreshLock_proofs ------------------------
(***************************************************************************)
(* For any number of processes: as long as no work has outlasted staleMs   *)
(* the directory is the lock until a directory is removed that was not     *)
(* stale, and until one is left behind nobody does that.  So the lock is a *)
(* LeasePool of one slot, through deaths and failing removals.             *)
(***************************************************************************)
EXTENDS OAuthRefreshLock, FiniteSetTheorems, TLAPS

\* Every process at work made the directory, which is fresh.
Held == \A p \in Procs : pc[p] = "holding" => dir = [by |-> p, stale |-> FALSE]

\* Nothing was left: a directory is fresh and its maker at work, and nobody is about to
\* remove one.
Tidy ==
  /\ dir # Absent => pc[dir.by] = "holding" /\ ~dir.stale
  /\ \A p \in Procs : pc[p] # "removing"
  /\ ~janitor

Orderly ==
  /\ robbed => left
  /\ ~left => Tidy
  /\ ~robbed => Held

IInv == TypeOK /\ (~slow => Orderly)

LEMMA AbsentIs == Absent.by = NoProc /\ ~Absent.stale /\ NoProc \notin Procs
  BY LockAssumption DEF Absent

LEMMA InitIInv == Init => IInv
  BY AbsentIs DEF Init, IInv, TypeOK, Orderly, Tidy, Held, PCs

-----------------------------------------------------------------------------
\* p goes from one place to another, and the others stay where they are.
Moves(p, from, to) ==
  /\ pc[p] \in from
  /\ pc' \in [Procs -> PCs]
  /\ pc'[p] \in to
  /\ \A q \in Procs : q # p => pc'[q] = pc[q]

LEMMA Going ==
  ASSUME TypeOK, NEW p \in Procs, NEW from, pc[p] \in from, NEW s \in PCs, Goto(p, s)
  PROVE  Moves(p, from, {s})
  BY DEF TypeOK, Goto, Moves

\* Steps that leave the directory alone and neither begin nor end a work or a removal.
LEMMA Quiet ==
  ASSUME IInv, NEW p \in Procs,
         Moves(p, {"idle", "trying", "checking", "waiting", "refused"},
                  {"trying", "checking", "waiting", "refused"}),
         late' \in [Procs -> BOOLEAN], UNCHANGED <<dir, janitor, slow, left, robbed>>
  PROVE  IInv'
  BY DEF IInv, TypeOK, Orderly, Tidy, Held, Moves

LEMMA TriesKeep ==
  ASSUME IInv, NEW p \in Procs, Begin(p) \/ MkdirThrows(p) \/ Wait(p)
  PROVE  IInv'
  <1>1. TypeOK /\ late' \in [Procs -> BOOLEAN] /\ UNCHANGED <<dir, janitor, slow, left, robbed>>
    BY DEF IInv, TypeOK, Begin, MkdirThrows, Wait
  <1>2. pc[p] \in {"idle", "trying", "checking", "waiting", "refused"}
    BY DEF Begin, MkdirThrows, Wait
  <1>3. PICK s \in {"trying", "refused"} : Goto(p, s)
    BY DEF Begin, MkdirThrows, Wait
  <1>4. s \in PCs
    BY DEF PCs
  <1>5. Moves(p, {"idle", "trying", "checking", "waiting", "refused"}, {s})
    BY <1>1, <1>2, <1>3, <1>4, Going
  <1> QED
    BY <1>1, <1>5, Quiet DEF Moves

LEMMA MkdirKeeps ==
  ASSUME IInv, NEW p \in Procs, Mkdir(p)
  PROVE  IInv'
  <1>1. TypeOK /\ UNCHANGED <<late, janitor, slow, left, robbed>> /\ pc[p] = "trying"
    BY DEF IInv, Mkdir
  <1>2. CASE dir = Absent
    <2>1. dir' = [by |-> p, stale |-> FALSE] /\ Goto(p, "holding")
      BY <1>2 DEF Mkdir
    <2>2. Moves(p, {"trying"}, {"holding"})
      BY <1>1, <2>1, Going DEF PCs
    <2>3. TypeOK'
      BY <1>1, <2>1, <2>2 DEF TypeOK, Moves
    <2>4. ASSUME Orderly PROVE Orderly'
      <3>1. dir'.by = p /\ ~dir'.stale
        BY <2>1
      <3>2. Tidy => Tidy'
        BY <1>1, <2>2, <3>1 DEF Tidy, Moves
      <3>3. ASSUME ~robbed PROVE Held'
        <4>1. \A q \in Procs : pc[q] # "holding"
          <5> SUFFICES ASSUME NEW q \in Procs, dir = [by |-> q, stale |-> FALSE] PROVE FALSE
            BY <2>4, <3>3 DEF Orderly, Held
          <5>1. dir.by = q
            OBVIOUS
          <5> QED
            BY <1>2, <5>1, AbsentIs
        <4> QED
          BY <2>1, <2>2, <4>1 DEF Held, Moves
      <3> QED
        BY <1>1, <2>4, <3>2, <3>3 DEF Orderly
    <2> QED
      BY <1>1, <2>3, <2>4 DEF IInv
  <1>3. CASE dir # Absent
    <2>1. dir' = dir /\ Goto(p, "checking")
      BY <1>3 DEF Mkdir
    <2>2. Moves(p, {"idle", "trying", "checking", "waiting", "refused"}, {"checking"})
      BY <1>1, <2>1, Going DEF PCs
    <2> QED
      BY <1>1, <2>1, <2>2, Quiet DEF Moves, TypeOK
  <1> QED
    BY <1>2, <1>3

LEMMA CheckKeeps ==
  ASSUME IInv, NEW p \in Procs, Check(p)
  PROVE  IInv'
  <1>1. TypeOK /\ UNCHANGED <<dir, late, janitor, slow, left, robbed>> /\ pc[p] = "checking"
    BY DEF IInv, Check
  <1>2. CASE dir.stale
    <2>1. Goto(p, "removing")
      BY <1>2 DEF Check
    <2>2. Moves(p, {"checking"}, {"removing"})
      BY <1>1, <2>1, Going DEF PCs
    <2>3. ~Tidy
      BY <1>2, AbsentIs DEF Tidy
    <2> QED
      BY <1>1, <2>2, <2>3 DEF IInv, TypeOK, Orderly, Held, Moves
  <1>3. CASE ~dir.stale
    <2>1. Goto(p, "waiting")
      BY <1>3 DEF Check
    <2>2. Moves(p, {"idle", "trying", "checking", "waiting", "refused"}, {"waiting"})
      BY <1>1, <2>1, Going DEF PCs
    <2> QED
      BY <1>1, <2>2, Quiet DEF Moves, TypeOK
  <1> QED
    BY <1>2, <1>3

\* A removal, of a stale directory or of one that robs.
LEMMA ClearKeeps ==
  ASSUME IInv, Clear, pc' \in [Procs -> PCs], \A q \in Procs : pc'[q] = "holding" => pc[q] = "holding",
         ~Tidy, janitor' \in BOOLEAN, UNCHANGED <<late, slow, left>>
  PROVE  IInv'
  <1>1. TypeOK'
    BY DEF IInv, TypeOK, Clear
  <1>2. ASSUME Orderly PROVE Orderly'
    <2>1. left
      BY <1>2 DEF Orderly
    <2>2. ASSUME ~robbed' PROVE Held'
      <3>1. ~robbed /\ Held
        BY <1>2, <2>2 DEF Clear, IInv, TypeOK, Orderly
      <3>2. CASE dir' = Absent /\ (dir = Absent \/ dir.stale)
        <4>1. \A q \in Procs : pc[q] # "holding"
          <5> SUFFICES ASSUME NEW q \in Procs, dir = [by |-> q, stale |-> FALSE] PROVE FALSE
            BY <3>1 DEF Held
          <5>1. dir.by = q /\ ~dir.stale
            OBVIOUS
          <5> QED
            BY <3>2, <5>1, AbsentIs
        <4> QED
          BY <4>1 DEF Held
      <3>3. CASE dir' = dir
        BY <3>1, <3>3 DEF Held
      <3> QED
        BY <2>2, <3>2, <3>3 DEF Clear
    <2> QED
      BY <2>1, <2>2 DEF Orderly
  <1> QED
    BY <1>1, <1>2 DEF IInv

LEMMA RemoveKeeps ==
  ASSUME IInv, NEW p \in Procs, Remove(p)
  PROVE  IInv'
  <1>1. TypeOK /\ Moves(p, {"removing"}, {"trying"})
    BY Going DEF IInv, Remove, PCs
  <1>2. ~Tidy
    BY DEF Tidy, Remove
  <1>3. \A q \in Procs : pc'[q] = "holding" => pc[q] = "holding"
    BY <1>1 DEF Moves
  <1> QED
    BY <1>1, <1>2, <1>3, ClearKeeps DEF Remove, Moves, IInv, TypeOK

\* The work ends, its directory is removed or left.
LEMMA ReleaseKeeps ==
  ASSUME IInv, NEW p \in Procs, Release(p) \/ ReleaseFails(p)
  PROVE  IInv'
  <1>1. TypeOK /\ Moves(p, {"holding"}, {"idle"}) /\ UNCHANGED <<late, janitor, slow, robbed>>
    BY Going DEF IInv, Release, ReleaseFails, PCs
  <1>2. TypeOK'
    BY <1>1 DEF TypeOK, Moves, Release, ReleaseFails
  <1>3. CASE ReleaseFails(p)
    BY <1>1, <1>2, <1>3 DEF ReleaseFails, IInv, Orderly, Held, Moves
  <1>4. CASE Release(p)
    <2>1. dir' = Absent /\ left' = left
      BY <1>4 DEF Release
    <2>2. ASSUME Held PROVE Held'
      <3>1. dir.by = p /\ \A q \in Procs : pc[q] = "holding" => dir.by = q
        BY <1>1, <2>2 DEF Held, Moves
      <3>2. \A q \in Procs : pc'[q] # "holding"
        BY <1>1, <3>1 DEF Moves
      <3> QED
        BY <3>2 DEF Held
    <2>3. Tidy => Tidy'
      BY <1>1, <2>1 DEF Tidy, Moves
    <2> QED
      BY <1>1, <1>2, <2>1, <2>2, <2>3 DEF IInv, Orderly
  <1> QED
    BY <1>3, <1>4

LEMMA DieKeeps ==
  ASSUME IInv, NEW p \in Procs, Die(p)
  PROVE  IInv'
  <1>1. TypeOK /\ Moves(p, PCs, {"dead"}) /\ UNCHANGED <<dir, late, janitor, slow, robbed>>
    BY Going DEF IInv, Die, PCs, TypeOK
  <1>2. left' = (left \/ pc[p] = "holding")
    BY DEF Die
  <1>3. TypeOK'
    BY <1>1, <1>2 DEF TypeOK, Moves
  <1>4. Held => Held'
    BY <1>1 DEF Held, Moves
  <1>5. Tidy /\ pc[p] # "holding" => Tidy'
    BY <1>1, AbsentIs DEF Tidy, Moves, TypeOK
  <1> QED
    BY <1>1, <1>2, <1>3, <1>4, <1>5 DEF IInv, Orderly

LEMMA LateKeeps ==
  ASSUME IInv, NEW p \in Procs, Late(p)
  PROVE  IInv'
  BY DEF Late, IInv, TypeOK, Orderly, Tidy, Held

LEMMA JanitorKeeps ==
  ASSUME IInv, JanitorLists \/ JanitorRemoves
  PROVE  IInv'
  <1>1. CASE JanitorLists
    BY <1>1, AbsentIs DEF JanitorLists, IInv, TypeOK, Orderly, Tidy, Held
  <1>2. CASE JanitorRemoves
    <2>1. ~Tidy /\ UNCHANGED pc /\ janitor' = FALSE
      BY <1>2 DEF JanitorRemoves, Tidy
    <2> QED
      BY <1>2, <2>1, ClearKeeps DEF JanitorRemoves, IInv, TypeOK
  <1> QED
    BY <1>1, <1>2

LEMMA AgeKeeps ==
  ASSUME IInv, Age
  PROVE  IInv'
  <1>1. /\ dir \in [by : Procs, stale : BOOLEAN] /\ dir' = [dir EXCEPT !.stale = TRUE]
        /\ slow' = (slow \/ pc[dir.by] = "holding")
        /\ UNCHANGED <<pc, late, janitor, left, robbed>>
    BY DEF IInv, TypeOK, Age
  <1>2. TypeOK'
    BY <1>1 DEF IInv, TypeOK
  <1>3. ASSUME ~slow' PROVE Orderly'
    <2>1. Orderly /\ pc[dir.by] # "holding"
      BY <1>1, <1>3 DEF IInv
    <2>2. left
      BY <2>1 DEF Orderly, Tidy, Age
    <2>3. ASSUME Held PROVE \A p \in Procs : pc[p] # "holding"
      <3> SUFFICES ASSUME NEW p \in Procs, dir = [by |-> p, stale |-> FALSE], pc[p] = "holding" PROVE FALSE
        BY <2>3 DEF Held
      <3>1. dir.by = p
        OBVIOUS
      <3> QED
        BY <2>1, <3>1
    <2> QED
      BY <1>1, <2>1, <2>2, <2>3 DEF Orderly, Held
  <1> QED
    BY <1>2, <1>3 DEF IInv

LEMMA NextIInv == IInv /\ [Next]_vars => IInv'
  <1> SUFFICES ASSUME IInv, [Next]_vars PROVE IInv'
    OBVIOUS
  <1>1. CASE UNCHANGED vars
    BY <1>1 DEF vars, IInv, TypeOK, Orderly, Tidy, Held
  <1> QED
    BY <1>1, TriesKeep, MkdirKeeps, CheckKeeps, RemoveKeeps, ReleaseKeeps, DieKeeps, LateKeeps,
       JanitorKeeps, AgeKeeps DEF Next, AcquireStep

LEMMA Inductive == Spec => []IInv
  BY InitIInv, NextIInv, PTL DEF Spec

-----------------------------------------------------------------------------
\* Every variable keeps its type.
THEOREM LockTypeOK == Spec => []TypeOK
  <1>1. IInv => TypeOK
    BY DEF IInv
  <1> QED
    BY <1>1, Inductive, PTL

\* No retry, stale removal, death or janitor run of others takes the directory from a
\* holder whose work ends within staleMs, unless a directory was left behind and one was
\* removed that had been made since.
THEOREM LockDirectoryIsTheLock == Spec => []DirectoryIsTheLock
  <1>1. IInv => DirectoryIsTheLock
    BY DEF IInv, Orderly, Held, DirectoryIsTheLock, Holders
  <1> QED
    BY <1>1, Inductive, PTL

-----------------------------------------------------------------------------
\* The abstract lock: a LeasePool of one slot.
Mutex == INSTANCE LeasePool WITH Clients <- Procs, Limit <- 1, holders <- Holders

\* Work begins when nobody is at work, and only one process comes or goes in a step.
LockMutex == [][~slow' /\ ~robbed' => Mutex!Next]_Holders

LEMMA MutexCardinality == \A S : Mutex!Cardinality(S) = Cardinality(S)
  BY DEF Cardinality, Mutex!Cardinality

LEMMA HistoriesStay == TypeOK /\ [Next]_vars => (slow => slow') /\ (robbed => robbed')
  BY DEF TypeOK, Next, vars, AcquireStep, Begin, Mkdir, MkdirThrows, Check, Remove, Clear, Wait, Release,
     ReleaseFails, JanitorLists, JanitorRemoves, Age, Late, Die

\* A process that comes or goes.
LEMMA Comings ==
  ASSUME NEW p \in Procs, \A q \in Procs : q # p => pc'[q] = pc[q]
  PROVE  /\ pc[p] = "holding" /\ pc'[p] # "holding" => Mutex!Give(p)
         /\ (pc[p] = "holding" <=> pc'[p] = "holding") => Holders' = Holders
         /\ Holders = {} /\ pc'[p] = "holding" => Mutex!Take(p)
  <1>1. ASSUME pc[p] = "holding", pc'[p] # "holding" PROVE Mutex!Give(p)
    BY <1>1 DEF Holders, Mutex!Give
  <1>2. ASSUME pc[p] = "holding" <=> pc'[p] = "holding" PROVE Holders' = Holders
    BY <1>2 DEF Holders
  <1>3. ASSUME Holders = {}, pc'[p] = "holding" PROVE Mutex!Take(p)
    <2>1. Holders' = Holders \cup {p} /\ p \notin Holders
      BY <1>3 DEF Holders
    <2>2. Cardinality(Holders) < 1
      BY <1>3, FS_EmptySet
    <2> QED
      BY <2>1, <2>2, MutexCardinality DEF Mutex!Take
  <1> QED
    BY <1>1, <1>2, <1>3

LEMMA StepIsTheMutexs ==
  ASSUME IInv, [Next]_vars, ~slow', ~robbed'
  PROVE  Holders' = Holders \/ Mutex!Next
  <1>1. TypeOK /\ Held
    BY HistoriesStay DEF IInv, Orderly
  <1>2. CASE UNCHANGED pc
    BY <1>2 DEF Holders
  <1>3. UNCHANGED vars \/ JanitorLists \/ JanitorRemoves \/ Age => UNCHANGED pc
    BY DEF vars, JanitorLists, JanitorRemoves, Age
  <1>4. ASSUME NEW p \in Procs, pc[p] # "holding" \/ pc'[p] # "holding",
               Begin(p) \/ AcquireStep(p) \/ MkdirThrows(p) \/ Release(p) \/ ReleaseFails(p) \/ Late(p) \/ Die(p)
        PROVE  Holders' = Holders \/ Mutex!Next
    <2>1. \A q \in Procs : q # p => pc'[q] = pc[q]
      BY <1>1, <1>4 DEF TypeOK, Begin, AcquireStep, Mkdir, MkdirThrows, Check, Remove, Wait, Release,
         ReleaseFails, Late, Die, Goto
    <2>2. CASE pc[p] = "holding"
      BY <1>4, <2>1, <2>2, Comings DEF Mutex!Next
    <2>3. CASE pc[p] # "holding" /\ pc'[p] # "holding"
      BY <2>1, <2>3, Comings
    <2>4. CASE pc[p] # "holding" /\ pc'[p] = "holding"
      <3>1. dir = Absent
        BY <1>1, <1>4, <2>4 DEF TypeOK, Begin, AcquireStep, Mkdir, MkdirThrows, Check, Remove, Wait, Release,
           ReleaseFails, Late, Die, Goto
      <3>2. Holders = {}
        <4> SUFFICES ASSUME NEW q \in Procs, dir = [by |-> q, stale |-> FALSE] PROVE FALSE
          BY <1>1 DEF Holders, Held
        <4>1. dir.by = q
          OBVIOUS
        <4> QED
          BY <3>1, <4>1, AbsentIs
      <3> QED
        BY <2>1, <2>4, <3>2, Comings DEF Mutex!Next
    <2> QED
      BY <2>2, <2>3, <2>4
  <1>5. ASSUME NEW p \in Procs, pc[p] = "holding", pc'[p] = "holding",
               Begin(p) \/ AcquireStep(p) \/ MkdirThrows(p) \/ Release(p) \/ ReleaseFails(p) \/ Late(p) \/ Die(p)
        PROVE  FALSE
    BY <1>1, <1>5 DEF TypeOK, Begin, AcquireStep, Mkdir, MkdirThrows, Check, Remove, Wait, Release,
       ReleaseFails, Late, Die, Goto
  <1> QED
    BY <1>2, <1>3, <1>4, <1>5 DEF Next

\* As long as no work has outlasted staleMs and no fresh directory was removed, the lock
\* implements mutual exclusion, through deaths, failing removals and stale takeovers.
THEOREM LockImplementsMutex == Spec => Mutex!Init /\ LockMutex
  <1>1. Init => Mutex!Init
    BY DEF Init, Mutex!Init, Holders
  <1>2. IInv /\ [Next]_vars => [~slow' /\ ~robbed' => Mutex!Next]_Holders
    BY StepIsTheMutexs
  <1> QED
    BY <1>1, <1>2, Inductive, PTL DEF Spec, LockMutex
=============================================================================
