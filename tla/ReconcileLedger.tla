---------------------------- MODULE ReconcileLedger ----------------------------
(***************************************************************************)
(* Settling the fills of a Binance order whose execution could not be      *)
(* confirmed (bots/investment/team/hephaestos/pending-reconcile-runner.ts  *)
(* and pending-reconcile-ledger.ts).  A runner is one process that works   *)
(* through the reconcile queue and then through the journal repair queue;  *)
(* the scheduler kills it at its time limit wherever it stands, and another *)
(* cycle or an operator may run it at the same time.  One signal, whose    *)
(* order the exchange fills meanwhile.                                     *)
(***************************************************************************)
EXTENDS Integers

CONSTANTS
  Runners,    \* processes that may work on the queues
  Expected,   \* quantity of the order
  Held,       \* position before the order
  MaxFaults,  \* bound on deaths, failed reads and failed writes, one more in a repair
  Free        \* nobody holds the advisory lock

ASSUME LedgerAssumption ==
  /\ Expected \in Nat \ {0}
  /\ Held \in Nat
  /\ MaxFaults \in Nat
  /\ Free \notin Runners

VARIABLES
  side,      \* buy or sell
  order,     \* the order at the exchange: status and filled quantity
  code,      \* block_code of the signal; manual stands for the status FAILED too
  meta,      \* block_meta.pendingReconcile: recordedFilledQty, followUpRequired, journalPending
  links,     \* fills (the target quantity in incident_link) that have a trade row
  applied,   \* SUM(amount) of these trade rows
  position,  \* amount of the position
  journal,   \* fills with a row in trade_journal
  lock,      \* who holds the transaction's advisory lock
  pc,        \* where each runner stands
  loc,       \* what each runner has read
  faults,    \* faults so far
  split      \* history: two runners were settling different fills at the same time

vars == <<side, order, code, meta, links, applied, position, journal, lock, pc, loc, faults, split>>
ledger == <<links, applied, position>>
signal == <<code, meta>>

Larger(a, b) == IF a > b THEN a ELSE b
Smaller(a, b) == IF a < b THEN a ELSE b

Pending == {"order_pending_reconcile", "partial_fill_pending"}
NoMark == [req |-> FALSE, link |-> 0]   \* no journalPending; link 0 is no fill

\* What a runner carries: the signal's meta as selected, the order's status and filled
\* quantity as fetched (in the repair queue the fill whose journal row is missing), how much
\* of it was applied before, whether the order counts as settled, whether applying failed,
\* whether the runner works for the journal repair queue, and the mark it will write back.
NoWork == [meta |-> [recorded |-> 0, followUp |-> FALSE, mark |-> NoMark],
           status |-> "open", filled |-> 0, base |-> 0, settled |-> FALSE,
           error |-> FALSE, repair |-> FALSE, kept |-> NoMark]

Init ==
  /\ side \in {"buy", "sell"}
  /\ order = [status |-> "open", filled |-> 0]
  /\ code = "order_pending_reconcile"
  /\ meta = [recorded |-> 0, followUp |-> TRUE, mark |-> NoMark]
  /\ links = {} /\ applied = 0 /\ position = Held /\ journal = {}
  /\ lock = Free
  /\ pc = [w \in Runners |-> "idle"]
  /\ loc = [w \in Runners |-> NoWork]
  /\ faults = 0
  /\ split = FALSE

Goto(w, l) == pc' = [pc EXCEPT ![w] = l]
Leave(w, l) == Goto(w, l) /\ loc' = [loc EXCEPT ![w] = NoWork]

\* The repair queue has work only after a fault, and may meet one more.
Fault(w) ==
  /\ faults < MaxFaults \/ (loc[w].repair /\ faults = MaxFaults)
  /\ faults' = faults + 1

(* The exchange. *)

Fill ==
  /\ order.status = "open"
  /\ \E q \in order.filled + 1 .. Expected :
       order' = [status |-> IF q = Expected THEN "closed" ELSE "open", filled |-> q]
  /\ UNCHANGED <<side, signal, ledger, journal, lock, pc, loc, faults, split>>

Cancel ==
  /\ order.status = "open"
  /\ order' = [order EXCEPT !.status = "canceled"]
  /\ UNCHANGED <<side, signal, ledger, journal, lock, pc, loc, faults, split>>

(* The reconcile queue. *)

SelectWhole(w) ==   \* a mutant: a partial fill is not selected
  /\ pc[w] = "idle"
  /\ IF code = "order_pending_reconcile" /\ meta.followUp
     THEN Goto(w, "fetch") /\ loc' = [loc EXCEPT ![w].meta = meta]
     ELSE Goto(w, "repair") /\ UNCHANGED loc
  /\ UNCHANGED <<side, order, signal, ledger, journal, lock, faults, split>>

\* The queue's query and the payload made of the row.
Select(w) ==
  /\ pc[w] = "idle"
  /\ IF code \in Pending /\ meta.followUp
     THEN Goto(w, "fetch") /\ loc' = [loc EXCEPT ![w].meta = meta]
     ELSE Goto(w, "repair") /\ UNCHANGED loc
  /\ UNCHANGED <<side, order, signal, ledger, journal, lock, faults, split>>

Settling(w) == pc[w] \in {"snapshot", "apply", "commit"}

\* The exchange may answer without a status.
Fetch(w) ==
  /\ pc[w] = "fetch"
  /\ \E s \in {order.status, "unknown"} :
       loc' = [loc EXCEPT ![w].status = s, ![w].filled = order.filled]
  /\ split' = (split \/ \E v \in Runners : Settling(v) /\ loc[v].filled # order.filled)
  /\ Goto(w, "snapshot")
  /\ UNCHANGED <<side, order, signal, ledger, journal, lock, faults>>

Delta(w) == loc[w].filled - loc[w].base

\* resolveBinancePendingQueueState: when the order counts as settled.
Settled(status, filled, gone) ==
  /\ status # "open"
  /\ (status = "closed" /\ filled > 0) \/ (gone /\ filled >= Expected)

\* What is applied already is the larger of what the signal says and what the trades say;
\* then the units are converted and the open orders are asked (gone is FALSE too when they
\* could not be read).
Snapshot(w) ==
  LET base == Larger(loc[w].meta.recorded, applied) IN
  /\ pc[w] = "snapshot"
  /\ \E gone \in {order.status # "open", FALSE} :
       loc' = [loc EXCEPT ![w].base = base, ![w].status = "open",
                          ![w].settled = Settled(loc[w].status, loc[w].filled, gone)]
  /\ Goto(w, IF loc[w].filled > base THEN "apply" ELSE "block")
  /\ UNCHANGED <<side, order, signal, ledger, journal, lock, faults, split>>

\* Units that cannot be converted leave the queue for an operator.
ConversionFails(w) ==
  /\ pc[w] = "snapshot" /\ Fault(w)
  /\ \/ code' = "manual_reconcile_required" /\ meta' = loc[w].meta
     \/ UNCHANGED signal
  /\ Leave(w, "repair")
  /\ UNCHANGED <<side, order, ledger, journal, lock, split>>

\* Any other failure of the loop's body writes the selected meta back, if it can.
Abandon(w) ==
  /\ \/ meta' = [loc[w].meta EXCEPT !.followUp = TRUE]
     \/ UNCHANGED meta
  /\ Leave(w, "repair")

ReadFails(w) ==
  /\ pc[w] \in {"fetch", "snapshot"} /\ Fault(w)
  /\ Abandon(w)
  /\ UNCHANGED <<side, order, code, ledger, journal, lock, split>>

(* applyBinancePendingReconcileDelta. *)

ApplyFails(w) ==
  /\ Goto(w, "block")
  /\ loc' = [loc EXCEPT ![w].error = TRUE]

Acquire(w) ==
  /\ pc[w] = "apply" /\ lock = Free
  /\ lock' = w
  /\ Goto(w, "commit")
  /\ UNCHANGED <<side, order, signal, ledger, journal, loc, faults, split>>

Busy(w) ==
  /\ pc[w] = "apply" /\ lock # Free
  /\ ApplyFails(w)
  /\ UNCHANGED <<side, order, signal, ledger, journal, lock, faults, split>>

\* The fill's incident link names recorded plus delta, which is what the exchange has filled.
Target(w) == loc[w].base + Delta(w)   \* loc[w].filled

Sold(w) == IF position > 0 THEN Smaller(Delta(w), position) ELSE Delta(w)

Insert(w) ==
  IF side = "buy"
  THEN position' = position + Delta(w) /\ applied' = applied + Delta(w)
  ELSE /\ position' = IF position > 0 THEN position - Sold(w) ELSE position
       /\ applied' = applied + Sold(w)

RecordTwice(w) ==   \* a mutant: the trade of the same fill is not looked up
  links' = links \union {Target(w)} /\ Insert(w)

RecordHalf(w) ==   \* a mutant: the position moves before the trade is looked up
  IF Target(w) \in links
  THEN /\ position' = IF side = "buy" THEN position + Delta(w) ELSE Larger(0, position - Delta(w))
       /\ UNCHANGED <<links, applied>>
  ELSE links' = links \union {Target(w)} /\ Insert(w)

Record(w) ==
  IF Target(w) \in links
  THEN UNCHANGED ledger
  ELSE links' = links \union {Target(w)} /\ Insert(w)

Commit(w) ==
  /\ pc[w] = "commit"
  /\ Record(w)
  /\ lock' = Free
  /\ Goto(w, "cover")
  /\ UNCHANGED <<side, order, signal, journal, loc, faults, split>>

CommitFails(w) ==
  /\ pc[w] = "commit" /\ Fault(w)
  /\ lock' = Free
  /\ ApplyFails(w)
  /\ UNCHANGED <<side, order, signal, ledger, journal, split>>

(* ensurePendingReconcileJournalRecorded, for both queues. *)

\* Where a runner goes once the journal is dealt with.
After(w) ==
  IF loc[w].repair THEN Leave(w, "idle") ELSE Goto(w, "block") /\ UNCHANGED loc

Cover(w) ==
  /\ pc[w] = "cover"
  /\ Goto(w, IF loc[w].filled \in journal THEN "mark" ELSE "journal")
  /\ UNCHANGED <<side, order, signal, ledger, journal, lock, loc, faults, split>>

\* The marks are those of the selected signal over those it has now: its own fill is the one
\* marked, the rest of the selected meta is written back.
Mark(w, req) ==
  meta' = [loc[w].meta EXCEPT !.mark = [req |-> req, link |-> loc[w].filled]]

\* A read that fails after the commit counts as an apply that failed.
CoverFails(w) ==
  /\ pc[w] = "cover" /\ ~loc[w].repair /\ Fault(w)
  /\ ApplyFails(w)
  /\ UNCHANGED <<side, order, signal, ledger, journal, lock, split>>

Journal(w) ==
  /\ pc[w] = "journal"
  /\ journal' = journal \union {loc[w].filled}
  /\ Goto(w, "mark")
  /\ UNCHANGED <<side, order, signal, ledger, lock, loc, faults, split>>

\* The write failed, or it went through and could not be verified.
Unverified(w) ==
  /\ pc[w] = "journal" /\ Fault(w)
  /\ journal' \in {journal, journal \union {loc[w].filled}}
  /\ After(w)
  /\ Mark(w, TRUE) \/ UNCHANGED meta   \* storing the mark may fail too
  /\ UNCHANGED <<side, order, code, ledger, lock, split>>

MarkDone(w) ==
  /\ pc[w] = "mark"
  /\ Mark(w, FALSE)
  /\ After(w)
  /\ UNCHANGED <<side, order, code, ledger, journal, lock, faults, split>>

MarkLost(w) ==
  /\ pc[w] = "mark" /\ Fault(w)
  /\ After(w)
  /\ UNCHANGED <<side, order, signal, ledger, journal, lock, split>>

(* markBinanceOrderPendingReconcileSignal. *)

StateOf(w) ==
  IF loc[w].settled THEN "order_reconciled"
  ELSE IF loc[w].filled > 0 THEN "partial_fill_pending" ELSE "order_pending_reconcile"

\* The journal mark to be written back is that of the selected signal, or else the one the
\* signal has now, if it can be read; then the code is written ...
Block(w) ==
  /\ pc[w] = "block"
  /\ code' = IF loc[w].error THEN "order_pending_reconcile" ELSE StateOf(w)
  /\ Goto(w, "merge")
  /\ IF loc[w].meta.mark # NoMark
     THEN loc' = [loc EXCEPT ![w].kept = loc[w].meta.mark] /\ UNCHANGED faults
     ELSE \/ loc' = [loc EXCEPT ![w].kept = meta.mark] /\ UNCHANGED faults
          \/ UNCHANGED loc /\ Fault(w)
  /\ UNCHANGED <<side, order, meta, ledger, journal, lock, split>>

MergeForgiving(w) ==   \* a mutant: a failed apply counts as recorded
  /\ pc[w] = "merge"
  /\ meta' = [recorded |-> loc[w].filled,
              followUp |-> loc[w].error \/ ~loc[w].settled,
              mark |-> loc[w].kept]
  /\ Leave(w, "repair")
  /\ UNCHANGED <<side, order, code, ledger, journal, lock, faults, split>>

\* ... and the meta, mark included.
Merge(w) ==
  /\ pc[w] = "merge"
  /\ meta' = [recorded |-> Smaller(loc[w].filled,
                                   IF loc[w].error THEN loc[w].base ELSE Larger(loc[w].base, loc[w].filled)),
              followUp |-> loc[w].error \/ ~loc[w].settled,
              mark |-> loc[w].kept]
  /\ Leave(w, "repair")
  /\ UNCHANGED <<side, order, code, ledger, journal, lock, faults, split>>

WriteFails(w) ==
  /\ pc[w] \in {"block", "merge"} /\ Fault(w)
  /\ Abandon(w)
  /\ UNCHANGED <<side, order, code, ledger, journal, lock, split>>

(* The journal repair queue, and the death of a process. *)

RepairDeaf(w) ==   \* a mutant: only settled signals are repaired
  /\ pc[w] = "repair"
  /\ IF code = "order_reconciled" /\ meta.mark.req
     THEN Goto(w, "cover") /\ loc' = [loc EXCEPT ![w] =
            [NoWork EXCEPT !.meta = meta, !.filled = meta.mark.link, !.repair = TRUE]]
     ELSE Goto(w, "idle") /\ UNCHANGED loc
  /\ UNCHANGED <<side, order, signal, ledger, journal, lock, faults, split>>

Repair(w) ==
  /\ pc[w] = "repair"
  /\ IF code # "manual_reconcile_required" /\ meta.mark.req
     THEN Goto(w, "cover") /\ loc' = [loc EXCEPT ![w] =
            [NoWork EXCEPT !.meta = meta, !.filled = meta.mark.link, !.repair = TRUE]]
     ELSE Goto(w, "idle") /\ UNCHANGED loc
  /\ UNCHANGED <<side, order, signal, ledger, journal, lock, faults, split>>

\* The marked trade is looked up by its id and by its link; a lookup that fails counts as no
\* trade, and then the latest trade of the signal, here any of them, takes its place.
OtherTrade(w) ==
  /\ pc[w] = "cover" /\ loc[w].repair /\ Fault(w)
  /\ \E l \in links : loc' = [loc EXCEPT ![w].filled = l]
  /\ UNCHANGED <<side, order, signal, ledger, journal, lock, pc, split>>

\* No trade was found, or the journal could not be read: the mark as selected is stored
\* again, if it can.
RepairFails(w) ==
  /\ pc[w] = "cover" /\ loc[w].repair /\ Fault(w)
  /\ meta' = loc[w].meta \/ UNCHANGED meta
  /\ Leave(w, "idle")
  /\ UNCHANGED <<side, order, code, ledger, journal, lock, split>>

Die(w) ==
  /\ pc[w] # "idle" /\ Fault(w)
  /\ Leave(w, "idle")
  /\ lock' = IF lock = w THEN Free ELSE lock
  /\ UNCHANGED <<side, order, signal, ledger, journal, split>>

Work(w) ==
  \/ Select(w) \/ Fetch(w) \/ Snapshot(w) \/ Acquire(w) \/ Busy(w) \/ Commit(w)
  \/ Cover(w) \/ Journal(w) \/ MarkDone(w) \/ Block(w) \/ Merge(w) \/ Repair(w)

Failure(w) ==
  \/ ConversionFails(w) \/ ReadFails(w) \/ CommitFails(w) \/ CoverFails(w) \/ Unverified(w)
  \/ MarkLost(w) \/ WriteFails(w) \/ OtherTrade(w) \/ RepairFails(w) \/ Die(w)

Next == Fill \/ Cancel \/ \E w \in Runners : Work(w) \/ Failure(w)

Spec == Init /\ [][Next]_vars

\* A runner that is started goes on, and the scheduler starts it every minute.  Faults are
\* bounded, the exchange owes nothing.
FairSpec == Spec /\ \A w \in Runners : WF_vars(Work(w))

(* Properties. *)

Codes == Pending \union {"order_reconciled", "manual_reconcile_required"}
Fills == 0 .. Expected
Marks == [req : BOOLEAN, link : Fills]
Metas == [recorded : Fills, followUp : BOOLEAN, mark : Marks]
Works == [meta : Metas, status : {"open", "closed", "canceled", "unknown"}, filled : Fills,
          base : Nat, settled : BOOLEAN, error : BOOLEAN, repair : BOOLEAN, kept : Marks]
Places == {"idle", "fetch", "snapshot", "apply", "commit", "cover", "journal", "mark",
           "block", "merge", "repair"}

\* Every variable has its type.
TypeOK ==
  /\ side \in {"buy", "sell"}
  /\ order \in [status : {"open", "closed", "canceled"}, filled : Fills]
  /\ code \in Codes /\ meta \in Metas
  /\ links \subseteq Fills /\ applied \in Nat /\ position \in Nat /\ journal \subseteq Fills
  /\ lock \in Runners \union {Free}
  /\ pc \in [Runners -> Places] /\ loc \in [Runners -> Works]
  /\ faults \in Nat /\ split \in BOOLEAN

\* A fill is applied at most once, whatever dies or fails and however often it is retried: the
\* trades exceed what the exchange filled only after two runners worked at the same time on
\* different fills of the order (applyBinancePendingReconcileDelta, the trades looked up by
\* incident link under the advisory lock).
AppliedOnce == ~split => applied <= order.filled

\* The position moves with the trades and never without them, a sale stops at zero (the
\* transaction of applyBinancePendingReconcileDelta).
LedgerAgrees ==
  position = IF side = "buy" THEN Held + applied ELSE Larger(0, Held - applied)

\* The trades account for a fill of q: for a sale, a trade of that fill or of a later one
\* may have been cut to the position that was left.
Covered(q) == q <= applied \/ (side = "sell" /\ \E l \in links : q <= l)

\* No fill is given up: what the signal records as filled is in the trades, and a signal
\* leaves the queue as settled only with the whole order in the trades, though runners fail
\* or die at any step and write back old copies of its meta.
NothingSkipped ==
  /\ Covered(meta.recorded)
  /\ (code = "order_reconciled" \/ ~meta.followUp) => Covered(Expected)

\* What the exchange has filled is in the trades in the end, unless the signal was handed to
\* an operator: there is no time after which a fill stays out.
FillsApplied == []<>(Covered(order.filled) \/ code = "manual_reconcile_required")

\* A journal row a signal is marked to lack is written in the end, unless the mark is taken
\* back or written over, with or without the row (MarkStands says when it should be), or an
\* operator has the signal: no mark waits for its row for ever
\* (processBinancePendingJournalRepairQueue).
JournalRepaired ==
  []<>(~meta.mark.req \/ meta.mark.link \in journal \/ code = "manual_reconcile_required")

\* The settlement keeps the mark of a journal row still to be written: a mark is taken back
\* only when the row is there (preservedJournalPending in
\* markBinanceOrderPendingReconcileSignal).
MarkStands ==
  [][meta.mark.req /\ meta'.mark # meta.mark => meta.mark.link \in journal']_vars

=============================================================================
