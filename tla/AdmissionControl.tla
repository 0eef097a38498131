--------------------------- MODULE AdmissionControl ---------------------------
(***************************************************************************)
(* The in-process admission gate in front of the Hub LLM endpoints         *)
(* (bots/hub/lib/llm/admission-control.ts): at most MaxInFlight requests   *)
(* hold a slot, at most MaxQueue wait for one in arrival order, a waiter   *)
(* gives up on its timer or when its client goes away, and a slot is given *)
(* back when the response finishes or its connection closes.               *)
(*                                                                         *)
(* The middleware is one JavaScript function cut by awaits.  Everything    *)
(* between two awaits is one step; the environment (clients, timers, the   *)
(* shared limiter, the response handler) may act at every await.           *)
(***************************************************************************)
EXTENDS Integers, Sequences, FiniteSets

CONSTANTS
  Requests,          \* identities of HTTP exchanges; each runs the middleware once
  SharedRequests,    \* those that go through llmAdmissionMiddleware (shared lease)
  OverflowRequests,  \* those shouldOverflowToJob accepts
  MaxInFlight,       \* HUB_LLM_MAX_IN_FLIGHT, at least 1
  MaxQueue           \* HUB_LLM_MAX_QUEUE, possibly 0

ASSUME AdmissionAssumption ==
  /\ SharedRequests \subseteq Requests
  /\ OverflowRequests \subseteq Requests
  /\ MaxInFlight \in Nat \ {0}
  /\ MaxQueue \in Nat

VARIABLES
  inFlight,   \* the module's counter of taken slots
  waiters,    \* the module's FIFO array of waiting requests
  pc,         \* where each request's middleware call stands
  closed,     \* the 'close' event of the exchange has been emitted
  released,   \* the request's releaseOnce has run
  over,       \* the request stream emitted its own 'close' before the request waits
  unheard     \* history: exchanges that closed while nobody listened

vars == <<inFlight, waiters, pc, closed, released, over, unheard>>

\* budget: awaiting the cycle budget report     queued: in waiters
\* leasing: slot taken, awaiting the shared lease
\* serving: listeners armed, next() called      served: the handler has ended
\* overflow: awaiting createLlmJob              accepted: answered 202 with a job
\* rejected: answered 429/503 or client gone    leaked: lease call threw, slot kept
States == {"new", "budget", "queued", "leasing", "serving", "served",
           "overflow", "accepted", "rejected", "leaked"}

Min2(a, b) == IF a <= b THEN a ELSE b

\* The continuation after a slot is taken: the shared lease when the variant
\* uses it, otherwise the listeners are armed and next() is called at once.
AfterSlot(r) == IF r \in SharedRequests THEN "leasing" ELSE "serving"

Init ==
  /\ inFlight = 0
  /\ waiters = <<>>
  /\ pc = [r \in Requests |-> "new"]
  /\ closed = [r \in Requests |-> FALSE]
  /\ released = [r \in Requests |-> FALSE]
  /\ over = [r \in Requests |-> FALSE]
  /\ unheard = {}

-----------------------------------------------------------------------------
\* Mutant of ReleaseSlot: the counter goes down but the queue is not drained.
ReleaseSlotNoDrain(r, to) ==
  /\ inFlight' = inFlight - 1
  /\ pc' = [pc EXCEPT ![r] = to]
  /\ UNCHANGED waiters

\* Mutant of ReleaseSlot: drainQueue pops the newest waiter instead of shifting.
ReleaseSlotLifo(r, to) ==
  LET n == Len(waiters)
  IN  IF n = 0
      THEN ReleaseSlotNoDrain(r, to)
      ELSE /\ pc' = [pc EXCEPT ![r] = to, ![waiters[n]] = AfterSlot(waiters[n])]
           /\ waiters' = SubSeq(waiters, 1, n - 1)
           /\ UNCHANGED inFlight

\* releaseSlot followed by its drainQueue loop: the slot of r is given back, r
\* moves to state `to`, and waiters are resolved from the head while there is room.
ReleaseSlot(r, to) ==
  LET freed   == IF inFlight > 0 THEN inFlight - 1 ELSE 0
      n       == Min2(MaxInFlight - freed, Len(waiters))
      granted == {waiters[i] : i \in 1..n}
  IN  /\ inFlight' = freed + n
      /\ waiters' = SubSeq(waiters, n + 1, Len(waiters))
      /\ pc' = [q \in Requests |-> IF q \in granted THEN AfterSlot(q)
                                   ELSE IF q = r THEN to ELSE pc[q]]

\* Mutant of ReleaseOnce: no `released` guard, both events give a slot back.
ReleaseOnceUnguarded(r, to) ==
  /\ released' = [released EXCEPT ![r] = TRUE]
  /\ ReleaseSlot(r, to)

\* releaseOnce, the listener of the response's 'finish' and 'close' events.
ReleaseOnce(r, to) ==
  IF released[r]
  THEN /\ pc' = [pc EXCEPT ![r] = to]
       /\ UNCHANGED <<inFlight, waiters, released>>
  ELSE /\ released' = [released EXCEPT ![r] = TRUE]
       /\ ReleaseSlot(r, to)

\* dequeueById: splices one waiter out, keeping the order of the others.
Dequeue(r) == \E i \in DOMAIN waiters :
  /\ waiters[i] = r
  /\ waiters' = [j \in 1..(Len(waiters) - 1) |-> waiters[IF j < i THEN j ELSE j + 1]]

-----------------------------------------------------------------------------
\* A request reaches the middleware, which awaits evaluateCycleBudgetGuard.
Arrive(r) ==
  /\ pc[r] = "new"
  /\ pc' = [pc EXCEPT ![r] = "budget"]
  /\ UNCHANGED <<inFlight, waiters, closed, released, over, unheard>>

\* The cycle budget guard answers 429 itself, or its report query throws (503).
BudgetReject(r) ==
  /\ pc[r] = "budget"
  /\ pc' = [pc EXCEPT ![r] = "rejected"]
  /\ UNCHANGED <<inFlight, waiters, closed, released, over, unheard>>

\* acquireSlot with room: the slot is taken before any await.
AcquireDirect(r) ==
  /\ pc[r] = "budget"
  /\ inFlight < MaxInFlight
  /\ inFlight' = inFlight + 1
  /\ pc' = [pc EXCEPT ![r] = AfterSlot(r)]
  /\ UNCHANGED <<waiters, closed, released, over, unheard>>

\* acquireSlot without room but with a place in the queue.  The waiter listens to the
\* request, which emits 'close' once its body has been read and may be over by now.
Enqueue(r) ==
  /\ pc[r] = "budget"
  /\ inFlight >= MaxInFlight
  /\ Len(waiters) < MaxQueue
  /\ waiters' = Append(waiters, r)
  /\ pc' = [pc EXCEPT ![r] = "queued"]
  /\ \E late \in BOOLEAN : over' = [over EXCEPT ![r] = late]
  /\ UNCHANGED <<inFlight, closed, released, unheard>>

\* acquireSlot throws queue_full: 429, or the overflow branch of the handler.
QueueFull(r) ==
  /\ pc[r] = "budget"
  /\ inFlight >= MaxInFlight
  /\ Len(waiters) >= MaxQueue
  /\ pc' = [pc EXCEPT ![r] = IF r \in OverflowRequests THEN "overflow" ELSE "rejected"]
  /\ UNCHANGED <<inFlight, waiters, closed, released, over, unheard>>

\* createLlmJob settles: 202 with the job, or 503 job_enqueue_failed.
OverflowSettles(r) ==
  /\ pc[r] = "overflow"
  /\ \E answer \in {"accepted", "rejected"} : pc' = [pc EXCEPT ![r] = answer]
  /\ UNCHANGED <<inFlight, waiters, closed, released, over, unheard>>

\* Mutant of QueueTimeout: the waiter is dropped but its promise never rejected.
QueueTimeoutSilent(r) ==
  /\ pc[r] = "queued"
  /\ Dequeue(r)
  /\ UNCHANGED <<inFlight, pc, closed, released, over, unheard>>

\* The waiter's timer fires while it is still in the queue: 503 queue_timeout.
QueueTimeout(r) ==
  /\ pc[r] = "queued"
  /\ Dequeue(r)
  /\ pc' = [pc EXCEPT ![r] = "rejected"]
  /\ UNCHANGED <<inFlight, closed, released, over, unheard>>

\* acquireSharedLimiterLease answers ok: the listeners are armed, next() runs.
LeaseGranted(r) ==
  /\ pc[r] = "leasing"
  /\ pc' = [pc EXCEPT ![r] = "serving"]
  /\ UNCHANGED <<inFlight, waiters, closed, released, over, unheard>>

\* It answers not ok: the local slot is given back before the 503.
LeaseRejected(r) ==
  /\ pc[r] = "leasing"
  /\ ReleaseSlot(r, "rejected")
  /\ UNCHANGED <<closed, released, over, unheard>>

\* It throws (the file backend's directory calls may): nothing gives the slot back.
LeaseThrows(r) ==
  /\ pc[r] = "leasing"
  /\ pc' = [pc EXCEPT ![r] = "leaked"]
  /\ UNCHANGED <<inFlight, waiters, closed, released, over, unheard>>

\* Mutant of Finish: only 'close' is listened to.
FinishUnheard(r) ==
  /\ pc[r] = "serving"
  /\ pc' = [pc EXCEPT ![r] = "served"]
  /\ UNCHANGED <<inFlight, waiters, closed, released, over, unheard>>

\* The route handler ends.  The response emits 'finish' when its connection is
\* still open; after 'close' the server drops the data and emits nothing.
Finish(r) ==
  /\ pc[r] = "serving"
  /\ IF closed[r]
     THEN /\ pc' = [pc EXCEPT ![r] = "served"]
          /\ UNCHANGED <<inFlight, waiters, released>>
     ELSE ReleaseOnce(r, "served")
  /\ UNCHANGED <<closed, over, unheard>>

\* Somebody listens to the exchange of r: releaseOnce on the response, or the
\* onClientClose of a waiter whose request can still emit 'close'.
Listened(r) == pc[r] \in {"serving", "served"} \/ (pc[r] = "queued" /\ ~over[r])

\* The 'close' event of r's exchange: it is emitted once.
CloseEvent(r) ==
  /\ pc[r] \in {"budget", "queued", "leasing", "serving", "served"}
  /\ ~closed[r]
  /\ closed' = [closed EXCEPT ![r] = TRUE]
  /\ unheard' = IF Listened(r) THEN unheard ELSE unheard \cup {r}
  /\ UNCHANGED over

\* Mutant of Close: only 'finish' is listened to on the response.
CloseIgnored(r) ==
  /\ CloseEvent(r)
  /\ IF pc[r] = "queued" /\ ~over[r]
     THEN Dequeue(r) /\ pc' = [pc EXCEPT ![r] = "rejected"] /\ UNCHANGED <<inFlight, released>>
     ELSE UNCHANGED <<inFlight, waiters, pc, released>>

\* Mutant of Close: a waiter does not listen to its request.
CloseUnheardInQueue(r) ==
  /\ CloseEvent(r)
  /\ IF pc[r] \in {"serving", "served"}
     THEN ReleaseOnce(r, pc[r])
     ELSE UNCHANGED <<inFlight, waiters, pc, released>>

\* The client went away, or the response is over: a waiter leaves the queue, an armed
\* releaseOnce runs, and anybody else does not notice, now or later.
Close(r) ==
  /\ CloseEvent(r)
  /\ \/ /\ pc[r] = "queued" /\ ~over[r]
        /\ Dequeue(r)
        /\ pc' = [pc EXCEPT ![r] = "rejected"]
        /\ UNCHANGED <<inFlight, released>>
     \/ /\ pc[r] \in {"serving", "served"}
        /\ ReleaseOnce(r, pc[r])
     \/ /\ ~Listened(r)
        /\ UNCHANGED <<inFlight, waiters, pc, released>>

\* The continuation of evaluateCycleBudgetGuard's await, up to the next one.
BudgetSettles(r) == BudgetReject(r) \/ AcquireDirect(r) \/ Enqueue(r) \/ QueueFull(r)

LeaseSettles(r) == LeaseGranted(r) \/ LeaseRejected(r) \/ LeaseThrows(r)

Next == \E r \in Requests :
  \/ Arrive(r)
  \/ BudgetReject(r)
  \/ AcquireDirect(r)
  \/ Enqueue(r)
  \/ QueueFull(r)
  \/ OverflowSettles(r)
  \/ QueueTimeout(r)
  \/ LeaseGranted(r)
  \/ LeaseRejected(r)
  \/ LeaseThrows(r)
  \/ Finish(r)
  \/ Close(r)

\* Timers fire, awaited queries settle and handlers end (their deadline bounds
\* them); nothing is assumed of clients.
Fairness == \A r \in Requests :
  /\ WF_vars(BudgetSettles(r))
  /\ WF_vars(QueueTimeout(r))
  /\ WF_vars(LeaseSettles(r))
  /\ WF_vars(OverflowSettles(r))
  /\ WF_vars(Finish(r))

Spec == Init /\ [][Next]_vars
FairSpec == Spec /\ Fairness

-----------------------------------------------------------------------------
Charged(r) == \/ pc[r] \in {"leasing", "leaked"}
              \/ pc[r] \in {"serving", "served"} /\ ~released[r]

\* The requests that hold a slot: taken by acquireSlot or drainQueue, not given back.
Holders == {r \in Requests : Charged(r)}

\* Every variable has its type.
TypeOK ==
  /\ inFlight \in Nat
  /\ waiters \in Seq(Requests)
  /\ pc \in [Requests -> States]
  /\ closed \in [Requests -> BOOLEAN]
  /\ released \in [Requests -> BOOLEAN]
  /\ over \in [Requests -> BOOLEAN]
  /\ unheard \subseteq Requests

\* The counter agrees with the slots actually held, across the three exits of a
\* slot (lease rejection, 'finish', 'close') and the hand-over to a waiter, and
\* never exceeds the limit: no double release, no lost charge.
SlotAccounting ==
  /\ inFlight = Cardinality(Holders)
  /\ inFlight <= MaxInFlight

\* No lost wakeup: somebody waits only while every slot is taken, so every exit
\* of a slot must hand it on and no exit of a waiter may leave room unused.
NoIdleSlotWhileWaiting == waiters # <<>> => inFlight = MaxInFlight

\* The array holds exactly the requests still waiting, once each, within its
\* limit, although timer, client and drainQueue all remove from it.
QueueHoldsWaiting ==
  /\ {waiters[i] : i \in DOMAIN waiters} = {r \in Requests : pc[r] = "queued"}
  /\ \A i, j \in DOMAIN waiters : waiters[i] = waiters[j] => i = j
  /\ Len(waiters) <= MaxQueue

\* A slot is only kept for a client that has gone, or a place in the queue, when the
\* 'close' came before anybody listened (the awaits ahead of the listeners, or a body
\* read before the wait): whatever closes under a listener gives its place or slot back,
\* and a slot that outlives its handler is of such an unheard exchange.
GoneOnlyUnheard == \A r \in Requests :
  /\ closed[r] /\ (pc[r] = "queued" \/ Charged(r)) => r \in unheard
  /\ pc[r] = "served" /\ ~released[r] => closed[r]

\* A step hands out slots in arrival order.
InOrderStep ==
  /\ \A r \in Requests :
       pc[r] = "budget" /\ pc'[r] \in {"leasing", "serving"} => waiters = <<>>
  /\ \A i, j \in DOMAIN waiters :
       i < j /\ pc'[waiters[j]] \in {"leasing", "serving"} => pc'[waiters[i]] # "queued"

\* Slots go out in arrival order: a newcomer takes one directly only when nobody
\* waits, and a waiter is resolved only when nobody ahead of it keeps waiting.
GrantsInOrder == [][InOrderStep]_vars

\* A queued request leaves the queue, whatever the slot holders do: they may
\* all be leaked, in which case only its own timer frees it.
WaiterLeavesQueue == \A r \in Requests : pc[r] = "queued" ~> pc[r] # "queued"

\* The slot of a request served on an open connection is eventually given back.
SlotReturned == \A r \in Requests :
  pc[r] = "serving" /\ ~closed[r] ~> released[r]
=============================================================================
