------------------------ MODULE AdmissionControl_proofs ------------------------
(***************************************************************************)
(* Safety of the admission gate for every set of requests (finite or not)  *)
(* and every pair of limits: the slot counter is exact and bounded, nobody *)
(* waits while a slot is free, and the queue holds exactly the waiters.    *)
(*                                                                         *)
(* The three properties are only inductive together: handing a slot over   *)
(* needs the queue's contents, and that at most one waiter is woken needs  *)
(* both the exact counter and the absence of idle slots.                   *)
(***************************************************************************)
EXTENDS AdmissionControl, FiniteSetTheorems, SequenceTheorems, TLAPS

\* releaseOnce has only run for requests whose listeners were armed.
ReleasedOnlyArmed == \A r \in Requests : released[r] => pc[r] \in {"serving", "served"}

\* The types of what the connection, and not the gate, decides.
ExchangeTyped ==
  /\ closed \in [Requests -> BOOLEAN]
  /\ over \in [Requests -> BOOLEAN]
  /\ unheard \subseteq Requests

\* The inductive invariant.
IInv ==
  /\ TypeOK
  /\ IsFiniteSet(Holders)
  /\ SlotAccounting
  /\ NoIdleSlotWhileWaiting
  /\ QueueHoldsWaiting
  /\ ReleasedOnlyArmed

-----------------------------------------------------------------------------
\* What the drain loop does in a reachable state: it wakes at most one waiter,
\* the head, which takes over the slot just given back.
LEMMA ReleaseShape ==
  ASSUME IInv, NEW r \in Requests, Charged(r), NEW to \in States, ReleaseSlot(r, to)
  PROVE  \/ /\ waiters = <<>>
            /\ waiters' = <<>>
            /\ inFlight' = inFlight - 1
            /\ inFlight > 0
            /\ pc' = [pc EXCEPT ![r] = to]
         \/ /\ waiters # <<>>
            /\ waiters' = Tail(waiters)
            /\ inFlight' = inFlight
            /\ pc' = [pc EXCEPT ![r] = to, ![Head(waiters)] = AfterSlot(Head(waiters))]
  <1> DEFINE freed == IF inFlight > 0 THEN inFlight - 1 ELSE 0
             n == Min2(MaxInFlight - freed, Len(waiters))
             granted == {waiters[i] : i \in 1..n}
  <1>1. inFlight > 0
    <2>1. r \in Holders
      BY DEF Holders
    <2>2. Cardinality(Holders) # 0
      BY <2>1, FS_EmptySet DEF IInv
    <2>. QED  BY <2>2 DEF IInv, SlotAccounting, TypeOK
  <1>2. freed = inFlight - 1
    BY <1>1
  <1>3. /\ inFlight' = freed + n
        /\ waiters' = SubSeq(waiters, n + 1, Len(waiters))
        /\ pc' = [q \in Requests |-> IF q \in granted THEN AfterSlot(q)
                                     ELSE IF q = r THEN to ELSE pc[q]]
    BY DEF ReleaseSlot
  <1>4. waiters \in Seq(Requests) /\ inFlight \in Nat /\ inFlight <= MaxInFlight
    BY DEF IInv, TypeOK, SlotAccounting
  <1>5. CASE waiters = <<>>
    <2>1. n = 0
      BY <1>4, <1>5, <1>2, AdmissionAssumption DEF Min2
    <2>2. granted = {} /\ waiters' = <<>>
      BY <2>1, <1>3, <1>5
    <2>. HIDE DEF freed, n, granted
    <2>3. pc' = [pc EXCEPT ![r] = to]
      BY <2>2, <1>3 DEF IInv, TypeOK
    <2>4. inFlight' = inFlight - 1
      BY <1>2, <1>3, <1>4, <2>1
    <2>. QED  BY <1>1, <1>5, <2>2, <2>3, <2>4
  <1>6. CASE waiters # <<>>
    <2>1. inFlight = MaxInFlight /\ Len(waiters) >= 1
      BY <1>6, <1>4 DEF IInv, NoIdleSlotWhileWaiting
    <2>2. n = 1
      BY <2>1, <1>2, <1>4 DEF Min2
    <2>3. waiters' = Tail(waiters)
      BY <2>2, <1>3, <1>4, <1>6, TailIsSubSeq
    <2>4. granted = {Head(waiters)}
      BY <2>2, <1>4, <1>6
    <2>5. Head(waiters) # r
      <3>1. Head(waiters) = waiters[1] /\ 1 \in DOMAIN waiters
        BY <1>4, <1>6, <2>1
      <3>2. pc[Head(waiters)] = "queued"
        BY <3>1 DEF IInv, QueueHoldsWaiting
      <3>. QED  BY <3>2 DEF Charged
    <2>. HIDE DEF freed, n, granted
    <2>6. pc' = [pc EXCEPT ![r] = to, ![Head(waiters)] = AfterSlot(Head(waiters))]
      BY <2>4, <2>5, <1>3, <1>4, <1>6, HeadTailProperties DEF IInv, TypeOK
    <2>7. inFlight' = inFlight
      BY <1>2, <1>3, <1>4, <2>2
    <2>. QED  BY <1>6, <2>3, <2>6, <2>7
  <1>. QED  BY <1>5, <1>6

-----------------------------------------------------------------------------
\* A slot given back (by a rejected lease or by releaseOnce) keeps the invariant:
\* it is either free again or held by the waiter that was first in line.
LEMMA SlotGiven ==
  ASSUME IInv, NEW r \in Requests, Charged(r),
         NEW to \in {"rejected", "serving", "served"}, ReleaseSlot(r, to),
         ExchangeTyped', released' \in [Requests -> BOOLEAN],
         \A q \in Requests : q # r => released'[q] = released[q],
         released'[r] <=> to # "rejected"
  PROVE  IInv'
  <1>1. /\ waiters \in Seq(Requests) /\ inFlight \in Nat /\ inFlight <= MaxInFlight
        /\ pc \in [Requests -> States] /\ released \in [Requests -> BOOLEAN]
        /\ IsFiniteSet(Holders) /\ inFlight = Cardinality(Holders)
        /\ r \in Holders /\ to \in States /\ pc[r] # "queued"
    BY DEF IInv, TypeOK, SlotAccounting, Holders, Charged, States
  <1>2. CASE waiters = <<>>
    <2>1. /\ waiters' = <<>>
          /\ inFlight' = inFlight - 1 /\ inFlight > 0
          /\ pc' = [pc EXCEPT ![r] = to]
      BY <1>1, <1>2, ReleaseShape
    <2>2. Holders' = Holders \ {r}
      BY <1>1, <2>1 DEF Holders, Charged
    <2>3. IsFiniteSet(Holders)' /\ Cardinality(Holders)' = Cardinality(Holders) - 1
      BY <1>1, <2>2, FS_RemoveElement
    <2>4. TypeOK'
      BY <1>1, <2>1 DEF TypeOK, ExchangeTyped
    <2>5. SlotAccounting' /\ NoIdleSlotWhileWaiting'
      BY <1>1, <2>1, <2>3, AdmissionAssumption DEF SlotAccounting, NoIdleSlotWhileWaiting
    <2>6. QueueHoldsWaiting'
      BY <1>1, <1>2, <2>1 DEF IInv, QueueHoldsWaiting
    <2>7. ReleasedOnlyArmed'
      BY <1>1, <2>1 DEF IInv, ReleasedOnlyArmed
    <2>. QED  BY <2>3, <2>4, <2>5, <2>6, <2>7 DEF IInv
  <1>3. CASE waiters # <<>>
    <2> DEFINE h == Head(waiters)
    <2>1. /\ waiters' = Tail(waiters)
          /\ inFlight' = inFlight
          /\ pc' = [pc EXCEPT ![r] = to, ![h] = AfterSlot(h)]
      BY <1>1, <1>3, ReleaseShape
    <2>2. /\ Len(waiters) >= 1 /\ Len(waiters) \in Nat
          /\ h = waiters[1] /\ h \in Requests
          /\ Tail(waiters) \in Seq(Requests)
          /\ Len(Tail(waiters)) = Len(waiters) - 1
          /\ \A i \in 1..Len(Tail(waiters)) : Tail(waiters)[i] = waiters[i + 1]
      BY <1>1, <1>3, HeadTailProperties
    <2>3. pc[h] = "queued" /\ h # r /\ ~released[h]
      BY <1>1, <2>2 DEF IInv, QueueHoldsWaiting, ReleasedOnlyArmed
    <2> HIDE DEF h
    <2>4. Holders' = (Holders \ {r}) \cup {h}
      BY <1>1, <2>1, <2>2, <2>3 DEF Holders, Charged, AfterSlot
    <2>5. IsFiniteSet(Holders)' /\ Cardinality(Holders)' = Cardinality(Holders)
      <3>1. h \notin Holders \ {r}
        BY <2>3 DEF Holders, Charged
      <3>2. /\ IsFiniteSet(Holders \ {r})
            /\ Cardinality(Holders \ {r}) = Cardinality(Holders) - 1
        BY <1>1, FS_RemoveElement
      <3>3. /\ IsFiniteSet((Holders \ {r}) \cup {h})
            /\ Cardinality((Holders \ {r}) \cup {h}) = Cardinality(Holders) - 1 + 1
        BY <3>1, <3>2, FS_AddElement
      <3>4. Cardinality(Holders) \in Nat
        BY <1>1
      <3>. QED  BY <2>4, <3>3, <3>4
    <2>6. TypeOK'
      BY <1>1, <2>1, <2>2 DEF TypeOK, ExchangeTyped, AfterSlot, States
    <2>7. SlotAccounting' /\ NoIdleSlotWhileWaiting'
      BY <1>1, <1>3, <2>1, <2>5 DEF IInv, SlotAccounting, NoIdleSlotWhileWaiting
    <2>8. QueueHoldsWaiting'
      <3>1. /\ \A i \in 1..Len(waiters) : pc[waiters[i]] = "queued" 
            /\ \A i \in 1..Len(waiters) : waiters[i] \in Requests
            /\ \A q \in Requests : pc[q] = "queued" => \E i \in 1..Len(waiters) : waiters[i] = q
            /\ \A i, j \in 1..Len(waiters) : waiters[i] = waiters[j] => i = j
            /\ Len(waiters) <= MaxQueue
        BY <1>1 DEF IInv, QueueHoldsWaiting
      <3>2. \A q \in Requests : pc'[q] = "queued" <=> pc[q] = "queued" /\ q # h
        <4>1. AfterSlot(h) # "queued" /\ to # "queued"
          BY DEF AfterSlot
        <4>. QED  BY <1>1, <2>1, <2>2, <2>3, <4>1
      <3>3. DOMAIN waiters' = 1..(Len(waiters) - 1) /\ Len(waiters') = Len(waiters) - 1
        BY <2>1, <2>2
      <3>4. \A i \in 1..(Len(waiters) - 1) : waiters'[i] = waiters[i + 1]
        BY <2>1, <2>2
      <3>5. \A i \in 1..(Len(waiters) - 1) : waiters[i + 1] # h
        BY <2>2, <3>1
      <3>6. ASSUME NEW q \in Requests, pc'[q] = "queued"
            PROVE  \E i \in 1..(Len(waiters) - 1) : waiters'[i] = q
        <4>1. PICK k \in 1..Len(waiters) : waiters[k] = q
          BY <3>1, <3>2, <3>6
        <4>2. k # 1 /\ k - 1 \in 1..(Len(waiters) - 1) /\ (k - 1) + 1 = k
          BY <2>2, <3>2, <3>6, <4>1
        <4>. QED  BY <3>4, <4>1, <4>2
      <3>a. ASSUME NEW i \in 1..(Len(waiters) - 1)
            PROVE  /\ i + 1 \in 1..Len(waiters)
                   /\ waiters'[i] \in Requests
                   /\ pc'[waiters'[i]] = "queued"
        <4>1. i + 1 \in 1..Len(waiters)
          BY <2>2
        <4>. QED  BY <3>1, <3>2, <3>4, <3>5, <4>1
      <3>7. {waiters'[i] : i \in DOMAIN waiters'} = {q \in Requests : pc'[q] = "queued"}
        <4>1. \A i \in DOMAIN waiters' : waiters'[i] \in {q \in Requests : pc'[q] = "queued"}
          BY <3>3, <3>a
        <4>2. \A q \in {x \in Requests : pc'[x] = "queued"} :
                \E i \in DOMAIN waiters' : waiters'[i] = q
          BY <3>3, <3>6
        <4>. QED  BY <4>1, <4>2
      <3>8. \A i, j \in DOMAIN waiters' : waiters'[i] = waiters'[j] => i = j
        <4>1. SUFFICES ASSUME NEW i \in 1..(Len(waiters) - 1), NEW j \in 1..(Len(waiters) - 1),
                              waiters'[i] = waiters'[j]
                       PROVE  i = j
          BY <3>3
        <4>2. i + 1 = j + 1
          BY <3>1, <3>4, <3>a, <4>1
        <4>. QED  BY <4>2
      <3>9. Len(waiters') <= MaxQueue
        BY <2>2, <3>1, <3>3, AdmissionAssumption
      <3>. QED  BY <3>7, <3>8, <3>9 DEF QueueHoldsWaiting
    <2>9. ReleasedOnlyArmed'
      BY <1>1, <2>1, <2>2, <2>3 DEF IInv, ReleasedOnlyArmed
    <2>. QED  BY <2>5, <2>6, <2>7, <2>8, <2>9 DEF IInv
  <1>. QED  BY <1>2, <1>3

\* A step that moves one request between states outside the queue and changes
\* neither the queue nor who holds a slot.
LEMMA QuietMove ==
  ASSUME IInv, NEW r \in Requests, NEW to \in States,
         pc[r] # "queued", to # "queued", pc' = [pc EXCEPT ![r] = to],
         UNCHANGED <<inFlight, waiters, released>>, ExchangeTyped',
         Charged(r)' <=> Charged(r), released[r] => to \in {"serving", "served"}
  PROVE  IInv'
  <1>1. pc \in [Requests -> States]
    BY DEF IInv, TypeOK
  <1>2. Holders' = Holders
    BY <1>1 DEF Holders, Charged
  <1>3. TypeOK'
    BY <1>1 DEF IInv, TypeOK, ExchangeTyped
  <1>4. IsFiniteSet(Holders)' /\ SlotAccounting' /\ NoIdleSlotWhileWaiting'
    BY <1>2 DEF IInv, SlotAccounting, NoIdleSlotWhileWaiting
  <1>5. {q \in Requests : pc[q] = "queued"}' = {q \in Requests : pc[q] = "queued"}
    BY <1>1
  <1>6. QueueHoldsWaiting'
    BY <1>5 DEF IInv, QueueHoldsWaiting
  <1>7. ReleasedOnlyArmed'
    BY <1>1 DEF IInv, ReleasedOnlyArmed
  <1>. QED  BY <1>2, <1>3, <1>4, <1>6, <1>7 DEF IInv

\* A 'close' event that nobody hears.
LEMMA ClosedOnly ==
  ASSUME IInv, UNCHANGED <<inFlight, waiters, pc, released>>, ExchangeTyped'
  PROVE  IInv'
  <1>1. Holders' = Holders /\ TypeOK' /\ ReleasedOnlyArmed'
    BY DEF Holders, Charged, IInv, TypeOK, ExchangeTyped, ReleasedOnlyArmed
  <1>. QED  BY <1>1 DEF IInv, SlotAccounting, NoIdleSlotWhileWaiting, QueueHoldsWaiting

\* A waiter that leaves without a slot (timer, client) leaves the others in place.
LEMMA WaiterGone ==
  ASSUME IInv, NEW r \in Requests, pc[r] = "queued", Dequeue(r),
         pc' = [pc EXCEPT ![r] = "rejected"],
         UNCHANGED <<inFlight, released>>, ExchangeTyped'
  PROVE  IInv'
  <1> DEFINE w == waiters
             m == Len(waiters)
  <1>1. /\ w \in Seq(Requests) /\ m \in Nat /\ DOMAIN w = 1..m
        /\ pc \in [Requests -> States] /\ ~released[r]
        /\ released \in [Requests -> BOOLEAN]
    <2>1. w \in Seq(Requests) /\ pc \in [Requests -> States] /\ released \in [Requests -> BOOLEAN]
      BY DEF IInv, TypeOK
    <2>2. ~released[r]
      BY DEF IInv, ReleasedOnlyArmed
    <2>. QED  BY <2>1, <2>2
  <1>2. PICK k \in 1..m : /\ w[k] = r
                         /\ w' = [j \in 1..(m - 1) |-> w[IF j < k THEN j ELSE j + 1]]
    BY <1>1 DEF Dequeue
  <1>3. /\ \A i \in 1..m : w[i] \in Requests /\ pc[w[i]] = "queued"
        /\ \A q \in Requests : pc[q] = "queued" => \E i \in 1..m : w[i] = q
        /\ \A i, j \in 1..m : w[i] = w[j] => i = j
        /\ m <= MaxQueue
    BY <1>1 DEF IInv, QueueHoldsWaiting
  <1>4. Holders' = Holders
    BY <1>1 DEF Holders, Charged
  <1>5. m >= 1 /\ m - 1 \in Nat
    BY <1>1, <1>2
  <1> HIDE DEF m
  <1>6. \A j \in 1..(m - 1) :
          /\ (IF j < k THEN j ELSE j + 1) \in 1..m
          /\ (IF j < k THEN j ELSE j + 1) # k
    BY <1>1, <1>2, <1>5
  <1>7. w' \in Seq(Requests) /\ Len(w') = m - 1 /\ DOMAIN w' = 1..(m - 1)
    <2>1. w' \in [1..(m - 1) -> Requests]
      BY <1>2, <1>3, <1>6
    <2>. QED  BY <1>5, <2>1
  <1>8. TypeOK'
    BY <1>1, <1>7 DEF IInv, TypeOK, ExchangeTyped, States
  <1>9. IsFiniteSet(Holders)' /\ SlotAccounting'
    BY <1>4 DEF IInv, SlotAccounting
  <1>10. NoIdleSlotWhileWaiting'
    <2>1. w # <<>>
      BY <1>1, <1>5 DEF m
    <2>. QED  BY <2>1 DEF IInv, NoIdleSlotWhileWaiting
  <1>11. QueueHoldsWaiting'
    <2>1. \A j \in 1..(m - 1) : w'[j] \in {q \in Requests : pc'[q] = "queued"}
      <3>1. \A j \in 1..(m - 1) : w'[j] # r /\ w'[j] \in Requests /\ pc[w'[j]] = "queued"
        BY <1>2, <1>3, <1>6
      <3>. QED  BY <1>1, <3>1
    <2>2. ASSUME NEW q \in Requests, pc'[q] = "queued"
          PROVE  \E j \in 1..(m - 1) : w'[j] = q
      <3>1. q # r /\ pc[q] = "queued"
        BY <1>1, <2>2
      <3>2. PICK i \in 1..m : w[i] = q
        BY <1>3, <3>1
      <3>3. i # k
        BY <1>2, <3>1, <3>2
      <3>4. CASE i < k
        <4>1. i \in 1..(m - 1)
          BY <1>1, <1>2, <3>4
        <4>. QED  BY <1>2, <3>2, <3>4, <4>1
      <3>5. CASE i > k
        <4>1. i - 1 \in 1..(m - 1) /\ ~(i - 1 < k) /\ (i - 1) + 1 = i
          BY <1>1, <1>2, <3>5
        <4>. QED  BY <1>2, <3>2, <4>1
      <3>. QED  BY <3>3, <3>4, <3>5
    <2>3. ASSUME NEW i \in 1..(m - 1), NEW j \in 1..(m - 1), w'[i] = w'[j]
          PROVE  i = j
      <3>1. (IF i < k THEN i ELSE i + 1) = (IF j < k THEN j ELSE j + 1)
        BY <1>2, <1>3, <1>6, <2>3
      <3>. QED  BY <3>1
    <2>4. {w'[j] : j \in DOMAIN w'} = {q \in Requests : pc'[q] = "queued"}
      BY <1>7, <2>1, <2>2
    <2>5. Len(w') <= MaxQueue
      BY <1>1, <1>3, <1>7, AdmissionAssumption
    <2>. QED  BY <1>7, <2>3, <2>4, <2>5 DEF QueueHoldsWaiting
  <1>12. ReleasedOnlyArmed'
    BY <1>1 DEF IInv, ReleasedOnlyArmed
  <1>. QED  BY <1>4, <1>8, <1>9, <1>10, <1>11, <1>12 DEF IInv

-----------------------------------------------------------------------------
\* A slot taken by a newcomer.
LEMMA DirectTaken ==
  ASSUME IInv, NEW r \in Requests, AcquireDirect(r)
  PROVE  IInv'
  <1>1. /\ pc[r] = "budget" /\ inFlight < MaxInFlight /\ inFlight' = inFlight + 1
        /\ pc' = [pc EXCEPT ![r] = AfterSlot(r)]
        /\ UNCHANGED <<waiters, closed, released, over, unheard>>
        /\ pc \in [Requests -> States] /\ inFlight \in Nat
        /\ AfterSlot(r) \in {"leasing", "serving"}
    BY DEF AcquireDirect, AfterSlot, IInv, TypeOK
  <1>2. ~released[r] /\ r \notin Holders
    BY <1>1 DEF IInv, ReleasedOnlyArmed, Holders, Charged
  <1>3. Holders' = Holders \cup {r}
    BY <1>1, <1>2 DEF Holders, Charged
  <1>4. IsFiniteSet(Holders)' /\ Cardinality(Holders)' = Cardinality(Holders) + 1
    BY <1>2, <1>3, FS_AddElement DEF IInv
  <1>5. TypeOK'
    BY <1>1 DEF IInv, TypeOK, States
  <1>6. SlotAccounting'
    BY <1>1, <1>4, AdmissionAssumption DEF IInv, SlotAccounting
  <1>7. waiters = <<>>
    BY <1>1, AdmissionAssumption DEF IInv, NoIdleSlotWhileWaiting
  <1>8. NoIdleSlotWhileWaiting'
    BY <1>1, <1>7 DEF NoIdleSlotWhileWaiting
  <1>9. {q \in Requests : pc[q] = "queued"}' = {q \in Requests : pc[q] = "queued"}
    BY <1>1
  <1>10. QueueHoldsWaiting'
    BY <1>1, <1>9 DEF IInv, QueueHoldsWaiting
  <1>11. ReleasedOnlyArmed'
    BY <1>1, <1>2 DEF IInv, ReleasedOnlyArmed
  <1>. QED  BY <1>4, <1>5, <1>6, <1>8, <1>10, <1>11 DEF IInv

\* A newcomer that joins the queue.
LEMMA Joined ==
  ASSUME IInv, NEW r \in Requests, Enqueue(r)
  PROVE  IInv'
  <1> DEFINE m == Len(waiters)
  <1>1. /\ pc[r] = "budget" /\ inFlight >= MaxInFlight /\ m < MaxQueue
        /\ waiters' = Append(waiters, r) /\ pc' = [pc EXCEPT ![r] = "queued"]
        /\ UNCHANGED <<inFlight, closed, released, unheard>>
        /\ over' \in [Requests -> BOOLEAN]
        /\ waiters \in Seq(Requests) /\ pc \in [Requests -> States] /\ inFlight \in Nat
        /\ inFlight <= MaxInFlight
    BY DEF Enqueue, IInv, TypeOK, SlotAccounting
  <1>2. Holders' = Holders
    BY <1>1 DEF Holders, Charged
  <1>3. /\ waiters' \in Seq(Requests) /\ Len(waiters') = m + 1 /\ m \in Nat
        /\ DOMAIN waiters = 1..m /\ DOMAIN waiters' = 1..(m + 1)
        /\ \A i \in 1..m : waiters'[i] = waiters[i]
        /\ waiters'[m + 1] = r
    BY <1>1
  <1>4. TypeOK'
    BY <1>1, <1>3 DEF IInv, TypeOK, States
  <1>5. IsFiniteSet(Holders)' /\ SlotAccounting'
    BY <1>1, <1>2 DEF IInv, SlotAccounting
  <1>6. NoIdleSlotWhileWaiting'
    BY <1>1, AdmissionAssumption DEF NoIdleSlotWhileWaiting
  <1>7. /\ \A i \in 1..m : waiters[i] \in Requests /\ pc[waiters[i]] = "queued"
        /\ \A q \in Requests : pc[q] = "queued" => \E i \in 1..m : waiters[i] = q
        /\ \A i, j \in 1..m : waiters[i] = waiters[j] => i = j
    BY <1>3 DEF IInv, QueueHoldsWaiting
  <1> HIDE DEF m
  <1>8. \A i \in 1..(m + 1) : i \in 1..m \/ i = m + 1
    BY <1>3
  <1>9. {waiters'[i] : i \in DOMAIN waiters'} = {q \in Requests : pc'[q] = "queued"}
    <2>1. \A i \in DOMAIN waiters' : waiters'[i] \in {q \in Requests : pc'[q] = "queued"}
      BY <1>1, <1>3, <1>7, <1>8
    <2>2. \A q \in {x \in Requests : pc'[x] = "queued"} : \E i \in DOMAIN waiters' : waiters'[i] = q
      <3>1. 1..m \subseteq 1..(m + 1) /\ m + 1 \in 1..(m + 1)
        BY <1>3
      <3>. QED  BY <1>1, <1>3, <1>7, <3>1
    <2>. QED  BY <2>1, <2>2
  <1>10. \A i, j \in DOMAIN waiters' : waiters'[i] = waiters'[j] => i = j
    <2>1. \A i \in 1..m : waiters'[i] # r
      BY <1>1, <1>3, <1>7
    <2>. QED  BY <1>3, <1>7, <1>8, <2>1
  <1>11. Len(waiters') <= MaxQueue
    BY <1>1, <1>3, AdmissionAssumption DEF m
  <1>12. QueueHoldsWaiting'
    BY <1>9, <1>10, <1>11 DEF QueueHoldsWaiting
  <1>13. ReleasedOnlyArmed'
    BY <1>1 DEF IInv, ReleasedOnlyArmed
  <1>. QED  BY <1>2, <1>4, <1>5, <1>6, <1>12, <1>13 DEF IInv

\* releaseOnce, run by either of its two events.
LEMMA ReleasedOnce ==
  ASSUME IInv, NEW r \in Requests, pc[r] \in {"serving", "served"},
         NEW to \in {"serving", "served"}, ReleaseOnce(r, to),
         ExchangeTyped'
  PROVE  IInv'
  <1>1. CASE released[r]
    <2>1. pc' = [pc EXCEPT ![r] = to] /\ UNCHANGED <<inFlight, waiters, released>>
      BY <1>1 DEF ReleaseOnce
    <2>2. ~Charged(r) /\ ~Charged(r)'
      BY <1>1, <2>1 DEF Charged, IInv, TypeOK
    <2>. QED  BY <2>1, <2>2, QuietMove DEF States
  <1>2. CASE ~released[r]
    <2>1. released' = [released EXCEPT ![r] = TRUE] /\ ReleaseSlot(r, to)
      BY <1>2 DEF ReleaseOnce
    <2>2. /\ released' \in [Requests -> BOOLEAN] /\ released'[r]
          /\ \A q \in Requests : q # r => released'[q] = released[q]
      BY <2>1 DEF IInv, TypeOK
    <2>3. Charged(r)
      BY <1>2 DEF Charged
    <2>. QED  BY <2>1, <2>2, <2>3, SlotGiven
  <1>. QED  BY <1>1, <1>2

-----------------------------------------------------------------------------
LEMMA InitIInv == Init => IInv
  <1> SUFFICES ASSUME Init PROVE IInv
    OBVIOUS
  <1>1. Holders = {}
    BY DEF Init, Holders, Charged
  <1>2. IsFiniteSet(Holders) /\ Cardinality(Holders) = 0
    BY <1>1, FS_EmptySet
  <1>3. TypeOK
    BY DEF Init, TypeOK, States
  <1>4. SlotAccounting /\ NoIdleSlotWhileWaiting
    BY <1>2, AdmissionAssumption DEF Init, SlotAccounting, NoIdleSlotWhileWaiting
  <1>5. QueueHoldsWaiting /\ ReleasedOnlyArmed
    BY AdmissionAssumption DEF Init, QueueHoldsWaiting, ReleasedOnlyArmed
  <1>. QED  BY <1>2, <1>3, <1>4, <1>5 DEF IInv

LEMMA NextIInv == IInv /\ [Next]_vars => IInv'
  <1> SUFFICES ASSUME IInv, [Next]_vars PROVE IInv'
    OBVIOUS
  <1>1. CASE UNCHANGED vars
    BY <1>1, ClosedOnly DEF vars, IInv, TypeOK, ExchangeTyped
  <1>2. ASSUME NEW r \in Requests,
               \/ Arrive(r) \/ BudgetReject(r) \/ QueueFull(r) \/ OverflowSettles(r)
        PROVE  IInv'
    <2>1. /\ pc[r] \in {"new", "budget", "overflow"}
          /\ UNCHANGED <<inFlight, waiters, closed, released, over, unheard>>
      BY <1>2 DEF Arrive, BudgetReject, QueueFull, OverflowSettles
    <2>2. PICK to \in {"budget", "rejected", "overflow", "accepted"} :
            pc' = [pc EXCEPT ![r] = to]
      BY <1>2 DEF Arrive, BudgetReject, QueueFull, OverflowSettles
    <2>3. ~Charged(r) /\ ~Charged(r)' /\ ~released[r]
      BY <2>1, <2>2 DEF Charged, IInv, TypeOK, ReleasedOnlyArmed
    <2>. QED  BY <2>1, <2>2, <2>3, QuietMove DEF States, IInv, TypeOK, ExchangeTyped
  <1>3. ASSUME NEW r \in Requests, LeaseGranted(r) \/ LeaseThrows(r)
        PROVE  IInv'
    <2>1. pc[r] = "leasing" /\ UNCHANGED <<inFlight, waiters, closed, released, over, unheard>>
      BY <1>3 DEF LeaseGranted, LeaseThrows
    <2>2. PICK to \in {"serving", "leaked"} : pc' = [pc EXCEPT ![r] = to]
      BY <1>3 DEF LeaseGranted, LeaseThrows
    <2>3. ~released[r] /\ Charged(r) /\ Charged(r)'
      BY <2>1, <2>2 DEF Charged, IInv, TypeOK, ReleasedOnlyArmed
    <2>. QED  BY <2>1, <2>2, <2>3, QuietMove DEF States, IInv, TypeOK, ExchangeTyped
  <1>4. ASSUME NEW r \in Requests, LeaseRejected(r)
        PROVE  IInv'
    <2>1. /\ pc[r] = "leasing" /\ ReleaseSlot(r, "rejected") /\ UNCHANGED <<closed, released, over, unheard>>
          /\ ~released[r] /\ Charged(r)
      BY <1>4 DEF LeaseRejected, Charged, IInv, ReleasedOnlyArmed
    <2>. QED  BY <2>1, SlotGiven DEF IInv, TypeOK, ExchangeTyped
  <1>5. ASSUME NEW r \in Requests, QueueTimeout(r)
        PROVE  IInv'
    BY <1>5, WaiterGone DEF QueueTimeout, IInv, TypeOK, ExchangeTyped
  <1>6. ASSUME NEW r \in Requests, Finish(r)
        PROVE  IInv'
    <2>1. CASE closed[r]
      <3>1. /\ pc[r] = "serving" /\ pc' = [pc EXCEPT ![r] = "served"]
            /\ UNCHANGED <<inFlight, waiters, released, closed, over, unheard>>
        BY <1>6, <2>1 DEF Finish
      <3>2. Charged(r)' <=> Charged(r)
        BY <3>1 DEF Charged, IInv, TypeOK
      <3>. QED  BY <3>1, <3>2, QuietMove DEF States, IInv, TypeOK, ExchangeTyped
    <2>2. CASE ~closed[r]
      BY <1>6, <2>2, ReleasedOnce DEF Finish, IInv, TypeOK, ExchangeTyped
    <2>. QED  BY <2>1, <2>2
  <1>7. ASSUME NEW r \in Requests, Close(r)
        PROVE  IInv'
    <2>1. ExchangeTyped'
      BY <1>7 DEF Close, CloseEvent, IInv, TypeOK, ExchangeTyped
    <2>2. CASE pc[r] = "queued"
      <3>1. CASE UNCHANGED <<inFlight, waiters, pc, released>>
        BY <2>1, <3>1, ClosedOnly
      <3>2. CASE Dequeue(r) /\ pc' = [pc EXCEPT ![r] = "rejected"] /\ UNCHANGED <<inFlight, released>>
        BY <2>1, <2>2, <3>2, WaiterGone
      <3>. QED  BY <1>7, <2>2, <3>1, <3>2 DEF Close, Listened
    <2>3. CASE pc[r] \in {"serving", "served"}
      <3>1. ReleaseOnce(r, pc[r])
        BY <1>7, <2>3 DEF Close, Listened
      <3>. QED  BY <2>1, <2>3, <3>1, ReleasedOnce
    <2>4. CASE pc[r] \notin {"queued", "serving", "served"}
      <3>1. UNCHANGED <<inFlight, waiters, pc, released>>
        BY <1>7, <2>4 DEF Close, Listened
      <3>2. pc' = [pc EXCEPT ![r] = pc[r]] /\ pc[r] \in States
        BY <3>1 DEF IInv, TypeOK
      <3>3. Charged(r)' <=> Charged(r)
        BY <3>1 DEF Charged
      <3>4. ~released[r]
        BY <2>4 DEF IInv, ReleasedOnlyArmed
      <3>. QED  BY <2>1, <2>4, <3>1, <3>2, <3>3, <3>4, QuietMove
    <2>. QED  BY <2>2, <2>3, <2>4
  <1>. QED  BY <1>1, <1>2, <1>3, <1>4, <1>5, <1>6, <1>7, DirectTaken, Joined DEF Next

\* The admission gate keeps its counter exact and within the limit.
THEOREM AdmissionSlotAccounting == Spec => []SlotAccounting
  <1>1. IInv => SlotAccounting
    BY DEF IInv
  <1>. QED  BY <1>1, InitIInv, NextIInv, PTL DEF Spec

\* No request waits while a slot is free.
THEOREM AdmissionNoIdleSlot == Spec => []NoIdleSlotWhileWaiting
  <1>1. IInv => NoIdleSlotWhileWaiting
    BY DEF IInv
  <1>. QED  BY <1>1, InitIInv, NextIInv, PTL DEF Spec

\* The waiters array holds exactly the waiting requests, once each.
THEOREM AdmissionQueueHoldsWaiting == Spec => []QueueHoldsWaiting
  <1>1. IInv => QueueHoldsWaiting
    BY DEF IInv
  <1>. QED  BY <1>1, InitIInv, NextIInv, PTL DEF Spec

\* Every variable keeps its type.
THEOREM AdmissionTypeOK == Spec => []TypeOK
  <1>1. IInv => TypeOK
    BY DEF IInv
  <1>. QED  BY <1>1, InitIInv, NextIInv, PTL DEF Spec

-----------------------------------------------------------------------------
\* Moving one request that is neither new in line nor waiting, or moving it to a
\* state without a slot, overtakes nobody.
LEMMA OrderQuiet ==
  ASSUME IInv, NEW r \in Requests, NEW to \in States, pc' = [pc EXCEPT ![r] = to],
         \/ pc[r] \notin {"budget", "queued"}
         \/ to \notin {"leasing", "serving"}
         \/ waiters = <<>> /\ pc[r] = "budget"
  PROVE  InOrderStep
  <1>1. /\ pc \in [Requests -> States]
        /\ \A i \in DOMAIN waiters : waiters[i] \in Requests /\ pc[waiters[i]] = "queued"
    BY DEF IInv, TypeOK, QueueHoldsWaiting
  <1>2. \A q \in Requests : pc[q] = "budget" /\ pc'[q] \in {"leasing", "serving"} => waiters = <<>>
    BY <1>1
  <1>3. \A j \in DOMAIN waiters : pc'[waiters[j]] \notin {"leasing", "serving"}
    BY <1>1
  <1>. QED  BY <1>2, <1>3 DEF InOrderStep

LEMMA OrderKept ==
  ASSUME IInv, NEW r \in Requests, Charged(r),
         NEW to \in {"rejected", "serving", "served"}, ReleaseSlot(r, to)
  PROVE  InOrderStep
  <1>1. to \in States /\ pc[r] \notin {"budget", "queued"}
    BY DEF States, Charged
  <1>2. CASE waiters = <<>>
    BY <1>1, <1>2, ReleaseShape, OrderQuiet
  <1>3. CASE waiters # <<>>
    <2> DEFINE h == Head(waiters)
    <2>1. pc' = [pc EXCEPT ![r] = to, ![h] = AfterSlot(h)]
      BY <1>1, <1>3, ReleaseShape
    <2>2. /\ pc \in [Requests -> States] /\ waiters \in Seq(Requests)
          /\ DOMAIN waiters = 1..Len(waiters) /\ Len(waiters) \in Nat
          /\ h = waiters[1] /\ 1 \in DOMAIN waiters
      BY <1>3 DEF IInv, TypeOK
    <2>3. /\ \A i \in DOMAIN waiters : waiters[i] \in Requests /\ pc[waiters[i]] = "queued"
          /\ \A i, j \in DOMAIN waiters : waiters[i] = waiters[j] => i = j
      BY DEF IInv, QueueHoldsWaiting
    <2>4. h \in Requests /\ pc[h] = "queued" /\ AfterSlot(h) # "queued" /\ h # r
      BY <1>1, <2>2, <2>3 DEF AfterSlot
    <2> HIDE DEF h
    <2>5. \A q \in Requests : pc[q] = "budget" => pc'[q] = "budget"
      BY <1>1, <2>1, <2>2, <2>4
    <2>6. \A i, j \in DOMAIN waiters : i < j => waiters[j] # h
      BY <2>2, <2>3
    <2>7. \A i, j \in DOMAIN waiters : i < j => pc'[waiters[j]] = "queued"
      BY <1>1, <2>1, <2>2, <2>3, <2>6
    <2>. QED  BY <2>5, <2>7 DEF InOrderStep
  <1>. QED  BY <1>2, <1>3

LEMMA NextInOrder == IInv /\ [Next]_vars => [InOrderStep]_vars
  <1> SUFFICES ASSUME IInv, Next PROVE InOrderStep
    OBVIOUS
  <1>1. ASSUME NEW r \in Requests,
               \/ Arrive(r) \/ BudgetReject(r) \/ QueueFull(r) \/ OverflowSettles(r)
               \/ Enqueue(r) \/ QueueTimeout(r) \/ LeaseGranted(r) \/ LeaseThrows(r)
        PROVE  InOrderStep
    <2>1. PICK to \in States : /\ pc' = [pc EXCEPT ![r] = to]
                               /\ pc[r] = "leasing" \/ to \notin {"leasing", "serving"}
      BY <1>1 DEF Arrive, BudgetReject, QueueFull, OverflowSettles, Enqueue, QueueTimeout,
                  LeaseGranted, LeaseThrows, States
    <2>. QED  BY <2>1, OrderQuiet
  <1>2. ASSUME NEW r \in Requests, AcquireDirect(r)
        PROVE  InOrderStep
    <2>1. waiters = <<>> /\ pc[r] = "budget"
      BY <1>2, AdmissionAssumption DEF AcquireDirect, IInv, NoIdleSlotWhileWaiting
    <2>2. AfterSlot(r) \in States /\ pc' = [pc EXCEPT ![r] = AfterSlot(r)]
      BY <1>2 DEF AcquireDirect, AfterSlot, States
    <2>. QED  BY <2>1, <2>2, OrderQuiet
  <1>3. ASSUME NEW r \in Requests, LeaseRejected(r)
        PROVE  InOrderStep
    BY <1>3, OrderKept DEF LeaseRejected, Charged
  <1>4. ASSUME NEW r \in Requests, NEW to \in {"serving", "served"},
               pc[r] \in {"serving", "served"}, ReleaseOnce(r, to)
        PROVE  InOrderStep
    <2>1. CASE released[r]
      BY <1>4, <2>1, OrderQuiet DEF ReleaseOnce, States
    <2>2. CASE ~released[r]
      BY <1>4, <2>2, OrderKept DEF ReleaseOnce, Charged
    <2>. QED  BY <2>1, <2>2
  <1>5. ASSUME NEW r \in Requests, Finish(r)
        PROVE  InOrderStep
    BY <1>5, <1>4, OrderQuiet DEF Finish, States
  <1>6. ASSUME NEW r \in Requests, Close(r)
        PROVE  InOrderStep
    <2>1. CASE pc[r] = "queued"
      <3>1. CASE UNCHANGED pc
        BY <3>1 DEF InOrderStep, IInv, QueueHoldsWaiting
      <3>2. CASE pc' = [pc EXCEPT ![r] = "rejected"]
        BY <2>1, <3>2, OrderQuiet DEF States
      <3>. QED  BY <1>6, <2>1, <3>1, <3>2 DEF Close, Listened
    <2>2. CASE pc[r] \in {"serving", "served"}
      BY <1>6, <2>2, <1>4 DEF Close, Listened
    <2>3. CASE pc[r] \notin {"queued", "serving", "served"}
      <3>1. UNCHANGED pc
        BY <1>6, <2>3 DEF Close, Listened
      <3>. QED  BY <3>1 DEF InOrderStep, IInv, QueueHoldsWaiting
    <2>. QED  BY <2>1, <2>2, <2>3
  <1>. QED  BY <1>1, <1>2, <1>3, <1>5, <1>6 DEF Next

\* Slots are handed out in arrival order.
THEOREM AdmissionGrantsInOrder == Spec => GrantsInOrder
  BY InitIInv, NextIInv, NextInOrder, PTL DEF Spec, GrantsInOrder

-----------------------------------------------------------------------------
\* Before a request has ended: the states in which its exchange matters to the gate.
Inside == {"budget", "queued", "leasing", "serving", "served", "leaked"}

\* The inductive form of GoneOnlyUnheard: from its arrival on, a request still inside,
\* with its slot not given back, does not know of the end of its exchange unless nobody
\* listened; and only a closed exchange ends its handler without a release.
UnheardInv == \A r \in Requests :
  /\ pc[r] = "new" => ~closed[r]
  /\ closed[r] /\ pc[r] \in Inside /\ ~released[r] => r \in unheard
  /\ pc[r] = "served" /\ ~released[r] => closed[r]

\* A slot given back wakes waiters and moves nobody else but its holder.
LEMMA SlotOthers ==
  ASSUME IInv, NEW r \in Requests, pc[r] # "queued", NEW to, ReleaseSlot(r, to)
  PROVE  /\ pc'[r] = to
         /\ \A q \in Requests \ {r} : \/ pc'[q] = pc[q]
                                      \/ pc[q] = "queued" /\ pc'[q] \in {"leasing", "serving"}
  <1> DEFINE freed == IF inFlight > 0 THEN inFlight - 1 ELSE 0
             n == Min2(MaxInFlight - freed, Len(waiters))
             granted == {waiters[i] : i \in 1..n}
  <1>1. /\ waiters \in Seq(Requests) /\ inFlight \in Nat
        /\ \A i \in DOMAIN waiters : pc[waiters[i]] = "queued"
    BY DEF IInv, TypeOK, QueueHoldsWaiting
  <1>2. n \in Int /\ n <= Len(waiters)
    BY <1>1, AdmissionAssumption DEF Min2
  <1>3. \A q \in granted : pc[q] = "queued"
    BY <1>1, <1>2
  <1>4. pc' = [q \in Requests |-> IF q \in granted THEN AfterSlot(q)
                                  ELSE IF q = r THEN to ELSE pc[q]]
    BY DEF ReleaseSlot
  <1>. HIDE DEF granted
  <1>. QED  BY <1>3, <1>4 DEF AfterSlot

\* releaseOnce, on top of that, leaves r released and nobody else.
LEMMA OnceOthers ==
  ASSUME IInv, NEW r \in Requests, pc[r] # "queued", NEW to, ReleaseOnce(r, to)
  PROVE  /\ released'[r]
         /\ pc'[r] = to
         /\ \A q \in Requests \ {r} :
              /\ released'[q] = released[q]
              /\ \/ pc'[q] = pc[q]
                 \/ pc[q] = "queued" /\ pc'[q] \in {"leasing", "serving"}
  <1>1. pc \in [Requests -> States] /\ released \in [Requests -> BOOLEAN]
    BY DEF IInv, TypeOK
  <1>2. CASE released[r]
    BY <1>1, <1>2 DEF ReleaseOnce
  <1>3. CASE ~released[r]
    <2>1. released' = [released EXCEPT ![r] = TRUE] /\ ReleaseSlot(r, to)
      BY <1>3 DEF ReleaseOnce
    <2>. QED  BY <1>1, <2>1, SlotOthers
  <1>. QED  BY <1>2, <1>3

LEMMA NextUnheard == IInv /\ UnheardInv /\ [Next]_vars => UnheardInv'
  <1> SUFFICES ASSUME IInv, UnheardInv, [Next]_vars
               PROVE  UnheardInv'
    OBVIOUS
  <1>1. /\ pc \in [Requests -> States] /\ released \in [Requests -> BOOLEAN]
        /\ closed \in [Requests -> BOOLEAN]
    BY DEF IInv, TypeOK
  <1>2. CASE UNCHANGED vars
    BY <1>2 DEF vars, UnheardInv
  <1>3. ASSUME NEW r \in Requests,
               \/ Arrive(r) \/ BudgetReject(r) \/ AcquireDirect(r) \/ Enqueue(r) \/ QueueFull(r)
               \/ OverflowSettles(r) \/ QueueTimeout(r) \/ LeaseGranted(r) \/ LeaseThrows(r)
        PROVE  UnheardInv'
    <2>1. /\ UNCHANGED <<closed, released, unheard>>
          /\ \E to \in States \ {"new", "served"} :
               /\ pc' = [pc EXCEPT ![r] = to]
               /\ to \in Inside => pc[r] \in Inside \cup {"new"}
      BY <1>3 DEF Arrive, BudgetReject, AcquireDirect, AfterSlot, Enqueue, QueueFull,
                  OverflowSettles, QueueTimeout, LeaseGranted, LeaseThrows, States, Inside
    <2>. QED  BY <1>1, <2>1 DEF UnheardInv
  <1>4. ASSUME NEW r \in Requests, LeaseRejected(r)
        PROVE  UnheardInv'
    <2>1. /\ UNCHANGED <<closed, released, unheard>>
          /\ pc'[r] = "rejected"
          /\ \A q \in Requests \ {r} : \/ pc'[q] = pc[q]
                                       \/ pc[q] = "queued" /\ pc'[q] \in {"leasing", "serving"}
      BY <1>4, SlotOthers DEF LeaseRejected
    <2>. QED  BY <1>1, <2>1 DEF UnheardInv, Inside
  <1>5. ASSUME NEW r \in Requests, Finish(r)
        PROVE  UnheardInv'
    <2>1. UNCHANGED <<closed, unheard>> /\ pc[r] = "serving"
      BY <1>5 DEF Finish
    <2>2. CASE closed[r]
      <3>1. pc' = [pc EXCEPT ![r] = "served"] /\ UNCHANGED released
        BY <1>5, <2>2 DEF Finish
      <3>. QED  BY <1>1, <2>1, <2>2, <3>1 DEF UnheardInv, Inside
    <2>3. CASE ~closed[r]
      <3>1. ReleaseOnce(r, "served")
        BY <1>5, <2>3 DEF Finish
      <3>. QED  BY <2>1, <3>1, OnceOthers DEF UnheardInv, Inside
    <2>. QED  BY <2>2, <2>3
  <1>6. ASSUME NEW r \in Requests, Close(r)
        PROVE  UnheardInv'
    <2>1. /\ closed' = [closed EXCEPT ![r] = TRUE]
          /\ pc[r] # "new"
          /\ unheard \subseteq unheard' /\ (~Listened(r) => r \in unheard')
      BY <1>6 DEF Close, CloseEvent
    <2>2. CASE pc[r] \in {"serving", "served"}
      <3>1. ReleaseOnce(r, pc[r])
        BY <1>6, <2>2 DEF Close, Listened
      <3>. QED  BY <1>1, <2>1, <2>2, <3>1, OnceOthers DEF UnheardInv, Inside
    <2>3. CASE pc[r] = "queued" /\ ~over[r]
      <3>1. UNCHANGED released /\ pc' = [pc EXCEPT ![r] = "rejected"]
        BY <1>6, <2>3 DEF Close, Listened
      <3>. QED  BY <1>1, <2>1, <2>3, <3>1 DEF UnheardInv, Inside
    <2>4. CASE ~Listened(r)
      <3>1. UNCHANGED <<released, pc>>
        BY <1>6, <2>4 DEF Close, Listened
      <3>. QED  BY <1>1, <2>1, <2>4, <3>1 DEF UnheardInv
    <2>. QED  BY <2>2, <2>3, <2>4 DEF Listened
  <1>. QED  BY <1>2, <1>3, <1>4, <1>5, <1>6 DEF Next

\* A place in the queue or a slot kept for a client that has gone is one whose 'close'
\* came before anybody listened: every close under a listener is acted upon.
THEOREM AdmissionGoneOnlyUnheard == Spec => []GoneOnlyUnheard
  <1>1. Init => UnheardInv
    BY DEF Init, UnheardInv
  <1>2. IInv /\ UnheardInv => GoneOnlyUnheard
    BY DEF IInv, ReleasedOnlyArmed, UnheardInv, GoneOnlyUnheard, Charged, Inside
  <1>. QED  BY <1>1, <1>2, InitIInv, NextIInv, NextUnheard, PTL DEF Spec
=============================================================================
