------------------------- MODULE ReconcileLedger_proofs -------------------------
(***************************************************************************)
(* What settling pending orders preserves for every number of runners,     *)
(* quantity and number of faults: fills are applied at most once while no  *)
(* two runners settle different fills, none is given up, and the position  *)
(* follows the trades.                                                     *)
(***************************************************************************)
EXTENDS ReconcileLedger, TLAPS

Tracking == {"apply", "commit", "cover", "journal", "mark", "block", "merge"}

\* A runner applies only what goes beyond what was applied.
Ahead == \A w \in Runners : pc[w] \in {"apply", "commit"} => loc[w].base < loc[w].filled

\* A runner holds a quantity as settled only when it is the whole order's, and never while it
\* works for the journal repair queue, which may turn it to another fill.
Own(w) ==
  /\ pc[w] = "snapshot" /\ loc[w].status = "closed" => loc[w].filled = Expected
  /\ loc[w].settled => pc[w] \in Tracking /\ loc[w].filled = Expected
  /\ Settling(w) => loc[w].filled <= order.filled
  /\ loc[w].repair => pc[w] \in {"cover", "journal", "mark"} /\ ~loc[w].settled

\* A closed order is filled, and the runners know no more than the exchange.
OrderInv ==
  /\ order.status = "closed" => order.filled = Expected
  /\ \A w \in Runners : Own(w)

\* While fills never differed, whoever settles one sees the same, and what it applies on top
\* of was all there was, or its fill has been applied by another.
OnceInv ==
  ~split =>
    /\ \A v, w \in Runners : Settling(v) /\ Settling(w) => loc[v].filled = loc[w].filled
    /\ \A w \in Runners : pc[w] \in {"apply", "commit"} =>
         applied <= loc[w].base \/ loc[w].filled \in links

\* Everything a runner believes to be applied is accounted for.
Backed(w) ==
  /\ Covered(loc[w].meta.recorded)
  /\ pc[w] \notin {"idle", "repair"} /\ ~loc[w].meta.followUp => Covered(Expected)
  /\ pc[w] \in {"apply", "commit", "block", "merge"} => Covered(loc[w].base)
  /\ pc[w] \in {"cover", "journal", "mark"} /\ ~loc[w].repair =>
       Covered(loc[w].base) /\ Covered(loc[w].filled)
  /\ pc[w] \in {"block", "merge"} /\ ~loc[w].error => Covered(loc[w].filled)

CoverInv ==
  /\ \A l \in links : Covered(l)
  /\ \A w \in Runners : Backed(w)

IInv == TypeOK /\ Ahead /\ OrderInv /\ OnceInv /\ CoverInv /\ NothingSkipped /\ AppliedOnce /\ LedgerAgrees

USE LedgerAssumption

-----------------------------------------------------------------------------
(* Type correctness. *)

\* The records a runner and the signal carry, field by field.
LEMMA MetaTypes ==
  ASSUME NEW m \in Metas
  PROVE  /\ m.recorded \in Fills /\ m.followUp \in BOOLEAN
         /\ m.mark \in Marks /\ m.mark.link \in Fills /\ m.mark.req \in BOOLEAN
         /\ [m EXCEPT !.followUp = TRUE] \in Metas
         /\ \A q \in Fills, b \in BOOLEAN : [m EXCEPT !.mark = [req |-> b, link |-> q]] \in Metas
  BY DEF Metas, Marks

LEMMA MetaMade ==
  ASSUME NEW q \in Fills, NEW b \in BOOLEAN, NEW k \in Marks
  PROVE  [recorded |-> q, followUp |-> b, mark |-> k] \in Metas
  BY DEF Metas

LEMMA WorkTypes ==
  ASSUME NEW r \in Works
  PROVE  /\ r.meta \in Metas /\ r.filled \in Fills /\ r.base \in Nat
         /\ r.status \in {"open", "closed", "canceled", "unknown"}
         /\ r.settled \in BOOLEAN /\ r.error \in BOOLEAN /\ r.repair \in BOOLEAN /\ r.kept \in Marks
  BY DEF Works

LEMMA NoWorkType == NoWork \in Works
  <1>1. [recorded |-> 0, followUp |-> FALSE, mark |-> NoMark] \in Metas
    BY DEF Metas, Marks, NoMark, Fills
  <1>4. NoMark \in Marks
    BY DEF Marks, NoMark, Fills
  <1> DEFINE none == [recorded |-> 0, followUp |-> FALSE, mark |-> NoMark]
  <1> HIDE DEF none
  <1>2. none \in Metas
    BY <1>1 DEF none
  <1>3. NoWork = [meta |-> none, status |-> "open", filled |-> 0, base |-> 0,
                  settled |-> FALSE, error |-> FALSE, repair |-> FALSE, kept |-> NoMark]
    BY DEF NoWork, none
  <1> QED
    BY <1>2, <1>3, <1>4 DEF Works, Fills

LEMMA WorkUpdates ==
  ASSUME NEW r \in Works, NEW m \in Metas, NEW q \in Fills, NEW b \in Nat, NEW t \in BOOLEAN,
         NEW s \in {"open", "closed", "canceled", "unknown"}
  PROVE  /\ [r EXCEPT !.meta = m] \in Works
         /\ [r EXCEPT !.status = s, !.filled = q] \in Works
         /\ [r EXCEPT !.base = b, !.status = "open", !.settled = t] \in Works
         /\ [r EXCEPT !.error = TRUE] \in Works
         /\ [r EXCEPT !.meta = m, !.filled = q, !.repair = TRUE] \in Works
  BY DEF Works

LEMMA KeptUpdates ==
  ASSUME NEW r \in Works, NEW k \in Marks
  PROVE  [r EXCEPT !.kept = k] \in Works
  BY DEF Works

LEMMA InitType == Init => TypeOK
  <1> SUFFICES ASSUME Init PROVE TypeOK
    OBVIOUS
  <1>1. meta \in Metas
    BY DEF Init, Metas, Marks, NoMark, Fills
  <1>2. order \in [status : {"open", "closed", "canceled"}, filled : Fills]
    BY DEF Init, Fills
  <1> QED
    BY <1>1, <1>2, NoWorkType DEF Init, TypeOK, Pending, Codes, Places

\* What a runner reads and what it may leave behind is typed.
Typed(w) ==
  /\ loc[w].meta \in Metas /\ loc[w].filled \in Fills /\ loc[w].meta.recorded \in Fills
  /\ loc[w].base \in Nat /\ loc[w].settled \in BOOLEAN /\ loc[w].error \in BOOLEAN
  /\ [loc[w].meta EXCEPT !.followUp = TRUE] \in Metas
  /\ \A b \in BOOLEAN : [loc[w].meta EXCEPT !.mark = [req |-> b, link |-> loc[w].filled]] \in Metas
  /\ [loc EXCEPT ![w] = NoWork] \in [Runners -> Works]
  /\ [loc EXCEPT ![w].error = TRUE] \in [Runners -> Works]

LEMMA Reads ==
  ASSUME TypeOK, NEW w \in Runners
  PROVE  Typed(w)
  <1>1. loc[w] \in Works
    BY DEF TypeOK
  <1>2. loc[w].meta \in Metas
    BY <1>1, WorkTypes
  <1>3. [loc[w] EXCEPT !.error = TRUE] \in Works
    BY <1>1 DEF Works
  <1> QED
    BY <1>1, <1>2, <1>3, WorkTypes, MetaTypes, NoWorkType DEF TypeOK, Typed

\* The quantities an action computes with.
LEMMA Numbers ==
  ASSUME TypeOK, NEW w \in Runners
  PROVE  /\ Expected \in Nat /\ Held \in Nat /\ applied \in Nat /\ position \in Nat
         /\ order.filled \in Nat /\ order.filled <= Expected
         /\ loc[w].filled \in Nat /\ loc[w].filled <= Expected /\ loc[w].base \in Nat
         /\ loc[w].meta.recorded \in Nat /\ meta.recorded \in Nat
         /\ loc[w].settled \in BOOLEAN /\ loc[w].error \in BOOLEAN
  <1>1. \A q \in Fills : q \in Nat /\ q <= Expected
    BY DEF Fills
  <1>2. loc[w].filled \in Fills /\ loc[w].meta.recorded \in Fills /\ loc[w].base \in Nat
        /\ loc[w].settled \in BOOLEAN /\ loc[w].error \in BOOLEAN
    BY Reads DEF Typed
  <1>3. order.filled \in Fills /\ meta.recorded \in Fills
    BY MetaTypes DEF TypeOK
  <1>4. Expected \in Nat /\ Held \in Nat
    OBVIOUS
  <1>5. applied \in Nat /\ position \in Nat
    BY DEF TypeOK
  <1> QED
    BY <1>1, <1>2, <1>3, <1>4, <1>5

\* The moves the actions are made of keep the variables they write typed.
LEMMA Moves ==
  ASSUME TypeOK, NEW w \in Runners
  PROVE  /\ \A l \in Places : Goto(w, l) => pc' \in [Runners -> Places]
         /\ \A l \in Places : Leave(w, l) => pc' \in [Runners -> Places] /\ loc' \in [Runners -> Works]
         /\ ApplyFails(w) => pc' \in [Runners -> Places] /\ loc' \in [Runners -> Works]
         /\ Abandon(w) => pc' \in [Runners -> Places] /\ loc' \in [Runners -> Works] /\ meta' \in Metas
         /\ After(w) => pc' \in [Runners -> Places] /\ loc' \in [Runners -> Works]
         /\ \A b \in BOOLEAN : Mark(w, b) => meta' \in Metas
         /\ Fault(w) => faults' \in Nat
  <1>1. Typed(w)
    BY Reads
  <1>2. /\ pc \in [Runners -> Places] /\ loc \in [Runners -> Works]
        /\ meta \in Metas /\ faults \in Nat
    BY DEF TypeOK
  <1>3. \A l \in Places : Goto(w, l) => pc' \in [Runners -> Places]
    BY <1>2 DEF Goto
  <1>4. \A l \in Places : Leave(w, l) => pc' \in [Runners -> Places] /\ loc' \in [Runners -> Works]
    BY <1>1, <1>3 DEF Leave, Typed
  <1>5. {"idle", "repair", "block"} \subseteq Places
    BY DEF Places
  <1>6. ApplyFails(w) => pc' \in [Runners -> Places] /\ loc' \in [Runners -> Works]
    BY <1>1, <1>3, <1>5 DEF ApplyFails, Typed
  <1>7. Abandon(w) => pc' \in [Runners -> Places] /\ loc' \in [Runners -> Works] /\ meta' \in Metas
    BY <1>1, <1>2, <1>4, <1>5 DEF Abandon, Typed
  <1>8. After(w) => pc' \in [Runners -> Places] /\ loc' \in [Runners -> Works]
    BY <1>2, <1>3, <1>4, <1>5 DEF After
  <1>9. \A b \in BOOLEAN : Mark(w, b) => meta' \in Metas
    BY <1>1 DEF Mark, Typed
  <1>10. Fault(w) => faults' \in Nat
    BY <1>2 DEF Fault
  <1> QED
    BY <1>3, <1>4, <1>6, <1>7, <1>8, <1>9, <1>10

\* Writing the code keeps what the runner knows.
LEMMA Blocked ==
  ASSUME TypeOK, NEW w \in Runners, Block(w)
  PROVE  /\ pc[w] = "block" /\ pc' = [pc EXCEPT ![w] = "merge"]
         /\ loc' \in [Runners -> Works]
         /\ loc'[w].filled = loc[w].filled /\ loc'[w].base = loc[w].base
         /\ loc'[w].settled = loc[w].settled /\ loc'[w].status = loc[w].status
         /\ loc'[w].error = loc[w].error
         /\ loc'[w].meta = loc[w].meta /\ loc'[w].repair = loc[w].repair
  <1>1. pc \in [Runners -> Places] /\ loc \in [Runners -> Works] /\ loc[w] \in Works
    BY DEF TypeOK
  <1>2. pc[w] = "block" /\ pc' = [pc EXCEPT ![w] = "merge"]
    BY DEF Block, Goto
  <1>3. loc[w].meta.mark \in Marks /\ meta.mark \in Marks
    BY <1>1, WorkTypes, MetaTypes DEF TypeOK
  <1>4. loc' = loc \/ \E k \in Marks : loc' = [loc EXCEPT ![w].kept = k]
    BY <1>3 DEF Block
  <1>5. ASSUME NEW k \in Marks, loc' = [loc EXCEPT ![w].kept = k]
        PROVE  loc' \in [Runners -> Works] /\ loc'[w] = [loc[w] EXCEPT !.kept = k]
    BY <1>1, <1>5, KeptUpdates
  <1>6. loc' \in [Runners -> Works] /\ (loc'[w] = loc[w] \/ \E k \in Marks : loc'[w] = [loc[w] EXCEPT !.kept = k])
    BY <1>1, <1>4, <1>5
  <1> QED
    BY <1>1, <1>2, <1>6 DEF Works

\* Taking another trade changes the fill a runner works on, and nothing else it carries.
LEMMA Turned ==
  ASSUME TypeOK, NEW w \in Runners, OtherTrade(w)
  PROVE  /\ pc[w] = "cover" /\ pc' = pc /\ loc[w].repair
         /\ loc' \in [Runners -> Works]
         /\ \A v \in Runners \ {w} : loc'[v] = loc[v]
         /\ loc'[w].meta = loc[w].meta /\ loc'[w].base = loc[w].base
         /\ loc'[w].settled = loc[w].settled /\ loc'[w].repair = loc[w].repair
         /\ loc'[w].error = loc[w].error /\ loc'[w].status = loc[w].status
  <1>1. loc \in [Runners -> Works] /\ loc[w] \in Works /\ links \subseteq Fills
    BY DEF TypeOK
  <1>2. PICK l \in links : loc' = [loc EXCEPT ![w].filled = l]
    BY DEF OtherTrade
  <1>3. loc'[w] = [loc[w] EXCEPT !.filled = l]
    BY <1>1, <1>2
  <1>4. [loc[w] EXCEPT !.filled = l] \in Works
    BY <1>1 DEF Works
  <1>5. loc' \in [Runners -> Works] /\ \A v \in Runners \ {w} : loc'[v] = loc[v]
    BY <1>1, <1>2, <1>4
  <1> QED
    BY <1>1, <1>3, <1>5 DEF OtherTrade, Works

LEMMA StepType ==
  ASSUME TypeOK, Ahead, [Next]_vars
  PROVE  TypeOK'
  <1>r. \A w \in Runners : loc[w] \in Works /\ Typed(w)
    BY Reads DEF TypeOK
  <1>p. {"idle", "repair", "block", "commit", "cover"} \subseteq Places
    BY DEF Places
  <1>q. Expected \in Nat /\ 0 \in Fills
    BY DEF Fills
  <1>1. CASE Fill
    BY <1>1 DEF Fill, Fills, TypeOK, signal, ledger
  <1>2. CASE Cancel
    BY <1>2 DEF Cancel, TypeOK, signal, ledger
  <1>3. ASSUME NEW w \in Runners, Select(w) PROVE TypeOK'
    <2>1. [loc[w] EXCEPT !.meta = meta] \in Works
      BY <1>r, WorkUpdates DEF TypeOK
    <2> QED
      BY <1>3, <2>1 DEF Select, Goto, Places, TypeOK, signal, ledger
  <1>4. ASSUME NEW w \in Runners, Fetch(w) PROVE TypeOK'
    <2>1. PICK s \in {order.status, "unknown"} :
            loc' = [loc EXCEPT ![w].status = s, ![w].filled = order.filled]
      BY <1>4 DEF Fetch
    <2>2. [loc[w] EXCEPT !.status = s, !.filled = order.filled] \in Works
      BY <1>r, WorkUpdates DEF TypeOK
    <2> QED
      BY <1>4, <2>1, <2>2 DEF Fetch, Goto, Places, TypeOK, signal, ledger
  <1>5. ASSUME NEW w \in Runners, Snapshot(w) PROVE TypeOK'
    <2> DEFINE base == Larger(loc[w].meta.recorded, applied)
    <2>1. base \in Nat
      <3>1. loc[w].meta.recorded \in Nat
        BY Numbers
      <3> QED
        BY <3>1 DEF Larger, TypeOK
    <2>2. PICK gone \in {order.status # "open", FALSE} :
            loc' = [loc EXCEPT ![w].base = base, ![w].status = "open",
                               ![w].settled = Settled(loc[w].status, loc[w].filled, gone)]
      BY <1>5 DEF Snapshot
    <2> DEFINE t == Settled(loc[w].status, loc[w].filled, gone)
    <2>3. t \in BOOLEAN /\ "open" \in {"open", "closed", "canceled", "unknown"} /\ loc[w] \in Works
      BY <1>r DEF Settled
    <2>w. loc[w].meta \in Metas /\ loc[w].filled \in Fills
      BY <1>r DEF Typed
    <2> HIDE DEF base, t
    <2>4. [loc[w] EXCEPT !.base = base, !.status = "open", !.settled = t] \in Works
      BY <2>1, <2>3, <2>w, WorkUpdates
    <2>5. loc' = [loc EXCEPT ![w] = [loc[w] EXCEPT !.base = base, !.status = "open", !.settled = t]]
      BY <2>2 DEF t
    <2> QED
      BY <1>5, <2>4, <2>5 DEF Snapshot, Goto, Places, TypeOK, signal, ledger
  <1>6. ASSUME NEW w \in Runners, ConversionFails(w) PROVE TypeOK'
    BY <1>6, <1>r, <1>p, Moves DEF ConversionFails, Codes, TypeOK, Typed, signal, ledger
  <1>7. ASSUME NEW w \in Runners, ReadFails(w) PROVE TypeOK'
    BY <1>7, Moves DEF ReadFails, TypeOK, signal, ledger
  <1>8. ASSUME NEW w \in Runners, Acquire(w) PROVE TypeOK'
    BY <1>8, <1>p, Moves DEF Acquire, TypeOK, signal, ledger
  <1>9. ASSUME NEW w \in Runners, Busy(w) PROVE TypeOK'
    BY <1>9, Moves DEF Busy, TypeOK, signal, ledger
  <1>10. ASSUME NEW w \in Runners, Commit(w) PROVE TypeOK'
    <2>1. Target(w) \in Fills
      BY Numbers DEF Target, Delta, Fills
    <2>2. applied' \in Nat /\ position' \in Nat /\ links' \subseteq Fills
      <3>1. CASE Target(w) \in links
        BY <1>10, <3>1 DEF Commit, Record, TypeOK, ledger
      <3>2. CASE Target(w) \notin links
        <4>1. Delta(w) \in Nat
          BY <1>10, Numbers DEF Commit, Ahead, Delta
        <4> QED
          BY <1>10, <2>1, <3>2, <4>1 DEF Commit, Record, Insert, Sold, Smaller, TypeOK
      <3> QED
        BY <3>1, <3>2
    <2> QED
      BY <1>10, <1>p, <2>2, Moves DEF Commit, TypeOK, signal
  <1>11. ASSUME NEW w \in Runners, CommitFails(w) PROVE TypeOK'
    BY <1>11, Moves DEF CommitFails, TypeOK, signal, ledger
  <1>12. ASSUME NEW w \in Runners, Cover(w) PROVE TypeOK'
    BY <1>12 DEF Cover, Goto, Places, TypeOK, signal, ledger
  <1>13. ASSUME NEW w \in Runners, CoverFails(w) PROVE TypeOK'
    BY <1>13, Moves DEF CoverFails, TypeOK, signal, ledger
  <1>14. ASSUME NEW w \in Runners, Journal(w) PROVE TypeOK'
    BY <1>14, <1>r DEF Journal, Goto, Places, Typed, TypeOK, signal, ledger
  <1>15. ASSUME NEW w \in Runners, Unverified(w) PROVE TypeOK'
    BY <1>15, <1>r, Moves DEF Unverified, Typed, TypeOK, ledger, Fault
  <1>16. ASSUME NEW w \in Runners, MarkDone(w) PROVE TypeOK'
    BY <1>16, Moves DEF MarkDone, TypeOK, ledger
  <1>17. ASSUME NEW w \in Runners, MarkLost(w) PROVE TypeOK'
    BY <1>17, Moves DEF MarkLost, TypeOK, signal, ledger
  <1>18. ASSUME NEW w \in Runners, Block(w) PROVE TypeOK'
    <2>1. code' \in Codes
      BY <1>18 DEF Block, StateOf, Codes, Pending
    <2>2. faults' \in Nat
      BY <1>18 DEF Block, Fault, TypeOK
    <2>3. pc' \in [Runners -> Places]
      BY <1>18, Blocked DEF Places, TypeOK
    <2> QED
      BY <1>18, <2>1, <2>2, <2>3, Blocked DEF Block, TypeOK, ledger
  <1>19. ASSUME NEW w \in Runners, Merge(w) PROVE TypeOK'
    <2>1. Smaller(loc[w].filled, IF loc[w].error THEN loc[w].base
                                 ELSE Larger(loc[w].base, loc[w].filled)) \in Fills
      BY Numbers DEF Smaller, Larger, Fills
    <2>3. loc[w].error \in BOOLEAN /\ loc[w].settled \in BOOLEAN /\ loc[w].kept \in Marks
      BY <1>r, WorkTypes
    <2>2. meta' \in Metas
      BY <1>19, <2>1, <2>3, MetaMade DEF Merge
    <2> QED
      BY <1>19, <1>p, <2>2, Moves DEF Merge, TypeOK, ledger
  <1>20. ASSUME NEW w \in Runners, WriteFails(w) PROVE TypeOK'
    BY <1>20, Moves DEF WriteFails, TypeOK, ledger
  <1>21. ASSUME NEW w \in Runners, Repair(w) PROVE TypeOK'
    <2>1. [NoWork EXCEPT !.meta = meta, !.filled = meta.mark.link, !.repair = TRUE] \in Works
      BY NoWorkType, MetaTypes, WorkUpdates DEF TypeOK
    <2> QED
      BY <1>21, <2>1 DEF Repair, Goto, Places, TypeOK, signal, ledger
  <1>22. ASSUME NEW w \in Runners, Die(w) PROVE TypeOK'
    BY <1>22, <1>p, Moves DEF Die, TypeOK, signal, ledger
  <1>23. CASE UNCHANGED vars
    BY <1>23 DEF vars, TypeOK, signal, ledger
  <1>24. ASSUME NEW w \in Runners, OtherTrade(w) PROVE TypeOK'
    <2>1. pc' = pc /\ loc' \in [Runners -> Works]
      BY <1>24, Turned
    <2>2. UNCHANGED <<side, order, signal, ledger, journal, lock, split>> /\ faults' \in Nat
      BY <1>24, Moves DEF OtherTrade
    <2> QED
      BY <2>1, <2>2 DEF TypeOK, signal, ledger
  <1>25. ASSUME NEW w \in Runners, RepairFails(w) PROVE TypeOK'
    BY <1>25, <1>p, <1>r, Moves DEF RepairFails, Typed, TypeOK, ledger
  <1> QED
    BY <1>1, <1>2, <1>3, <1>4, <1>5, <1>6, <1>7, <1>8, <1>9, <1>10, <1>11, <1>12, <1>13, <1>14, <1>15, <1>16, <1>17, <1>18, <1>19, <1>20, <1>21, <1>22, <1>23, <1>24, <1>25 DEF Next, Work, Failure

-----------------------------------------------------------------------------
(* What every step leaves alone. *)

\* A step of a runner touches no other runner, neither side nor order, and the trades only
\* when it commits.
LEMMA Frame ==
  ASSUME TypeOK, NEW w \in Runners, Work(w) \/ Failure(w)
  PROVE  /\ \A v \in Runners \ {w} : pc'[v] = pc[v] /\ loc'[v] = loc[v]
         /\ side' = side /\ order' = order
         /\ Commit(w) \/ UNCHANGED ledger
         /\ Fetch(w) \/ UNCHANGED split
  <1> USE DEF Goto, Leave, ApplyFails, Abandon, After, ledger, signal
  <1>0. pc \in [Runners -> Places] /\ loc \in [Runners -> Works]
    BY DEF TypeOK
  <1>1. CASE Select(w) \/ Fetch(w) \/ Snapshot(w)
    BY <1>0, <1>1 DEF Select, Fetch, Snapshot
  <1>2. CASE Acquire(w) \/ Busy(w) \/ Commit(w) \/ CommitFails(w)
    BY <1>0, <1>2 DEF Acquire, Busy, Commit, CommitFails
  <1>3. CASE Cover(w) \/ Journal(w) \/ MarkDone(w) \/ MarkLost(w) \/ CoverFails(w) \/ Unverified(w)
    BY <1>0, <1>3 DEF Cover, Journal, MarkDone, MarkLost, CoverFails, Unverified
  <1>4. CASE Block(w) \/ Merge(w) \/ Repair(w) \/ Die(w)
    BY <1>0, <1>4 DEF Block, Merge, Repair, Die
  <1>5. CASE ConversionFails(w) \/ ReadFails(w) \/ WriteFails(w)
    BY <1>0, <1>5 DEF ConversionFails, ReadFails, WriteFails
  <1>6. CASE OtherTrade(w) \/ RepairFails(w)
    BY <1>0, <1>6, Turned DEF OtherTrade, RepairFails
  <1> QED
    BY <1>1, <1>2, <1>3, <1>4, <1>5, <1>6 DEF Work, Failure

\* What a commit does to the trades and the position.
LEMMA Committed ==
  ASSUME TypeOK, Ahead, NEW w \in Runners, Commit(w)
  PROVE  /\ Delta(w) \in Nat /\ Target(w) = loc[w].filled
         /\ pc[w] = "commit" /\ loc' = loc /\ pc' = [pc EXCEPT ![w] = "cover"]
         /\ loc[w].filled \in links' /\ links \subseteq links' /\ applied <= applied'
         /\ \/ loc[w].filled \in links /\ UNCHANGED ledger
            \/ /\ loc[w].filled \notin links
               /\ links' = links \union {loc[w].filled}
               /\ applied' <= applied + Delta(w)
               /\ side = "buy" => position' = position + Delta(w) /\ applied' = applied + Delta(w)
               /\ side = "sell" /\ position = 0 => position' = 0
               /\ side = "sell" /\ position > 0 =>
                    /\ Sold(w) <= position
                    /\ position' = position - Sold(w) /\ applied' = applied + Sold(w)
  <1>1. Delta(w) \in Nat /\ Target(w) = loc[w].filled
    BY Numbers DEF Commit, Ahead, Delta, Target
  <1>2. pc[w] = "commit" /\ loc' = loc /\ pc' = [pc EXCEPT ![w] = "cover"]
    BY DEF Commit, Goto
  <1>3. Sold(w) \in Nat /\ Sold(w) <= Delta(w) /\ (position > 0 => Sold(w) <= position)
    BY <1>1, Numbers DEF Sold, Smaller
  <1>4. side \in {"buy", "sell"} /\ applied \in Nat /\ position \in Nat
    BY DEF TypeOK
  <1>5. CASE Target(w) \in links
    BY <1>1, <1>2, <1>4, <1>5 DEF Commit, Record, ledger
  <1>6. CASE Target(w) \notin links
    <2>1. links' = links \union {loc[w].filled} /\ Insert(w)
      BY <1>1, <1>6 DEF Commit, Record
    <2> QED
      BY <1>1, <1>2, <1>3, <1>4, <1>6, <2>1 DEF Insert
  <1> QED
    BY <1>5, <1>6

\* The trades only grow, and with them what they account for.
LEMMA Grows ==
  ASSUME TypeOK, Ahead, [Next]_vars
  PROVE  /\ side' = side /\ applied <= applied' /\ links \subseteq links'
         /\ \A q \in Nat : Covered(q) => Covered(q)'
         /\ order.filled <= order'.filled
  <1>0. applied \in Nat /\ applied' \in Nat /\ order.filled \in Nat
    BY StepType, MetaTypes DEF TypeOK, Fills
  <1>1. side' = side /\ applied <= applied' /\ links \subseteq links' /\ order.filled <= order'.filled
    <2>1. CASE Fill \/ Cancel
      BY <1>0, <2>1 DEF Fill, Cancel, ledger, TypeOK
    <2>2. ASSUME NEW w \in Runners, Work(w) \/ Failure(w)
          PROVE  side' = side /\ applied <= applied' /\ links \subseteq links' /\ order.filled <= order'.filled
      BY <1>0, <2>2, Frame, Committed DEF ledger
    <2>3. CASE UNCHANGED vars
      BY <1>0, <2>3 DEF vars, ledger
    <2> QED
      BY <2>1, <2>2, <2>3 DEF Next
  <1>2. ASSUME NEW q \in Nat, Covered(q) PROVE Covered(q)'
    BY <1>0, <1>1, <1>2 DEF Covered
  <1> QED
    BY <1>1, <1>2

\* Less than what is accounted for is accounted for.
LEMMA CoveredBelow ==
  ASSUME TypeOK, NEW q \in Nat, NEW r \in Nat, q <= r, Covered(r)
  PROVE  Covered(q)
  <1>1. applied \in Nat /\ \A l \in links : l \in Nat
    BY DEF TypeOK, Fills
  <1> QED
    BY <1>1 DEF Covered

LEMMA NoWorkIs ==
  /\ NoWork.settled = FALSE /\ NoWork.filled = 0 /\ NoWork.base = 0 /\ NoWork.status = "open"
  /\ NoWork.meta.recorded = 0 /\ NoWork.repair = FALSE
  BY DEF NoWork

\* What the moves leave a runner with.
LEMMA Left ==
  ASSUME TypeOK, NEW w \in Runners
  PROVE  /\ \A l : Goto(w, l) => pc'[w] = l
         /\ \A l : Leave(w, l) => pc'[w] = l /\ loc'[w] = NoWork
         /\ ApplyFails(w) =>
              /\ pc'[w] = "block" /\ loc'[w].error = TRUE
              /\ loc'[w].filled = loc[w].filled /\ loc'[w].base = loc[w].base
              /\ loc'[w].settled = loc[w].settled /\ loc'[w].status = loc[w].status
              /\ loc'[w].meta = loc[w].meta /\ loc'[w].repair = loc[w].repair
         /\ Select(w) =>
              /\ pc[w] = "idle" /\ loc'[w].settled = loc[w].settled /\ loc'[w].repair = loc[w].repair
              /\ \/ pc'[w] = "repair" /\ loc'[w] = loc[w]
                 \/ pc'[w] = "fetch" /\ loc'[w].meta = meta /\ meta.followUp
         /\ Fetch(w) =>
              /\ pc[w] = "fetch" /\ pc'[w] = "snapshot"
              /\ loc'[w].filled = order.filled /\ loc'[w].status \in {order.status, "unknown"}
              /\ loc'[w].settled = loc[w].settled /\ loc'[w].meta = loc[w].meta
              /\ loc'[w].repair = loc[w].repair
         /\ Repair(w) =>
              /\ pc[w] = "repair"
              /\ \/ pc'[w] = "idle" /\ loc'[w] = loc[w]
                 \/ /\ pc'[w] = "cover" /\ loc'[w].meta = meta /\ loc'[w].settled = FALSE
                    /\ loc'[w].repair = TRUE
  <1>1. pc \in [Runners -> Places] /\ loc \in [Runners -> Works] /\ loc[w] \in Works /\ meta \in Metas
    BY DEF TypeOK
  <1>2. \A l : Goto(w, l) => pc'[w] = l
    BY <1>1 DEF Goto
  <1>3. \A l : Leave(w, l) => pc'[w] = l /\ loc'[w] = NoWork
    BY <1>1 DEF Leave, Goto
  <1>4. ASSUME ApplyFails(w)
        PROVE  /\ pc'[w] = "block" /\ loc'[w].error = TRUE
               /\ loc'[w].filled = loc[w].filled /\ loc'[w].base = loc[w].base
               /\ loc'[w].settled = loc[w].settled /\ loc'[w].status = loc[w].status
               /\ loc'[w].meta = loc[w].meta /\ loc'[w].repair = loc[w].repair
    <2>1. loc'[w] = [loc[w] EXCEPT !.error = TRUE]
      BY <1>1, <1>4 DEF ApplyFails
    <2> QED
      BY <1>1, <1>2, <1>4, <2>1 DEF ApplyFails, Works
  <1>5. ASSUME Select(w)
        PROVE  /\ pc[w] = "idle" /\ loc'[w].settled = loc[w].settled /\ loc'[w].repair = loc[w].repair
               /\ \/ pc'[w] = "repair" /\ loc'[w] = loc[w]
                  \/ pc'[w] = "fetch" /\ loc'[w].meta = meta /\ meta.followUp
    <2>1. CASE code \in Pending /\ meta.followUp
      <3>1. loc'[w] = [loc[w] EXCEPT !.meta = meta] /\ pc'[w] = "fetch" /\ pc[w] = "idle"
        BY <1>1, <1>5, <2>1 DEF Select, Goto
      <3> QED
        BY <1>1, <2>1, <3>1 DEF Works
    <2>2. CASE ~(code \in Pending /\ meta.followUp)
      BY <1>1, <1>5, <2>2 DEF Select, Goto
    <2> QED
      BY <2>1, <2>2
  <1>6. ASSUME Fetch(w)
        PROVE  /\ pc[w] = "fetch" /\ pc'[w] = "snapshot"
               /\ loc'[w].filled = order.filled /\ loc'[w].status \in {order.status, "unknown"}
               /\ loc'[w].settled = loc[w].settled /\ loc'[w].meta = loc[w].meta
               /\ loc'[w].repair = loc[w].repair
    <2>1. PICK s \in {order.status, "unknown"} :
            loc' = [loc EXCEPT ![w].status = s, ![w].filled = order.filled]
      BY <1>6 DEF Fetch
    <2>2. loc'[w] = [loc[w] EXCEPT !.status = s, !.filled = order.filled]
      BY <1>1, <2>1
    <2> QED
      BY <1>1, <1>2, <1>6, <2>2 DEF Fetch, Works
  <1>7. ASSUME Repair(w)
        PROVE  /\ pc[w] = "repair"
               /\ \/ pc'[w] = "idle" /\ loc'[w] = loc[w]
                  \/ /\ pc'[w] = "cover" /\ loc'[w].meta = meta /\ loc'[w].settled = FALSE
                     /\ loc'[w].repair = TRUE
    BY <1>1, <1>7 DEF Repair, Goto, NoWork
  <1> QED
    BY <1>2, <1>3, <1>4, <1>5, <1>6, <1>7

-----------------------------------------------------------------------------
(* The order and what the runners know of it. *)

LEMMA StepOwn ==
  ASSUME TypeOK, OrderInv, NEW w \in Runners, Work(w) \/ Failure(w)
  PROVE  Own(w)'
  <1> USE DEF Own, Settling, Tracking
  <1>0. /\ pc \in [Runners -> Places] /\ loc \in [Runners -> Works]
        /\ Own(w) /\ order' = order
        /\ order.status = "closed" => order.filled = Expected
    BY Frame DEF TypeOK, OrderInv
  <1>l. /\ Leave(w, "idle") \/ Leave(w, "repair") => Own(w)'
        /\ ApplyFails(w) /\ pc[w] \in Tracking /\ ~loc[w].repair => Own(w)'
        /\ Goto(w, "block") /\ loc' = loc /\ pc[w] \in Tracking /\ ~loc[w].repair => Own(w)'
    <2>1. Leave(w, "idle") \/ Leave(w, "repair") => pc'[w] \in {"idle", "repair"} /\ ~loc'[w].settled /\ ~loc'[w].repair
      BY Left, NoWorkIs
    <2> QED
      BY <1>0, <2>1, Left
  <1>1. CASE Select(w)
    BY <1>0, <1>1, Left
  <1>2. CASE Fetch(w)
    <2>1. pc'[w] = "snapshot" /\ loc'[w].filled = order.filled /\ loc'[w].settled = loc[w].settled
          /\ loc'[w].status \in {order.status, "unknown"} /\ pc[w] = "fetch"
          /\ loc'[w].repair = loc[w].repair
      BY <1>2, Left
    <2>2. order.filled \in Nat
      BY Numbers
    <2> QED
      BY <1>0, <2>1, <2>2
  <1>3. CASE Snapshot(w)
    <2>1. Settled(loc[w].status, loc[w].filled, TRUE) => loc[w].filled = Expected
      <3>1. pc[w] = "snapshot"
        BY <1>3 DEF Snapshot
      <3> QED
        BY <1>0, <3>1, Numbers DEF Settled
    <2>2. \A gone \in BOOLEAN :
            Settled(loc[w].status, loc[w].filled, gone) => Settled(loc[w].status, loc[w].filled, TRUE)
      BY DEF Settled
    <2>3. pc'[w] \in {"apply", "block"} /\ pc[w] = "snapshot"
      BY <1>0, <1>3 DEF Snapshot, Goto
    <2>4. PICK gone \in BOOLEAN :
            loc' = [loc EXCEPT ![w].base = Larger(loc[w].meta.recorded, applied), ![w].status = "open",
                               ![w].settled = Settled(loc[w].status, loc[w].filled, gone)]
      BY <1>3 DEF Snapshot
    <2>5. loc'[w].filled = loc[w].filled /\ loc'[w].repair = loc[w].repair
          /\ (loc'[w].settled => Settled(loc[w].status, loc[w].filled, gone))
      BY <1>0, <2>4 DEF Works
    <2> QED
      BY <1>0, <2>1, <2>2, <2>3, <2>5
  <1>4. CASE Acquire(w) \/ Busy(w) \/ Commit(w) \/ CommitFails(w)
    BY <1>0, <1>4, Left, NoWorkIs DEF Acquire, Busy, Commit, CommitFails
  <1>5. CASE Cover(w) \/ Journal(w)
    BY <1>0, <1>5, Left DEF Cover, Journal
  <1>9. CASE CoverFails(w)
    BY <1>l, <1>9 DEF CoverFails
  <1>6. CASE MarkDone(w) \/ MarkLost(w) \/ Unverified(w)
    BY <1>l, <1>6 DEF MarkDone, MarkLost, Unverified, After
  <1>7. CASE Block(w) \/ Repair(w)
    BY <1>0, <1>7, Left, Blocked
  <1>10. CASE Merge(w) \/ Die(w)
    BY <1>l, <1>10 DEF Merge, Die
  <1>8. CASE ConversionFails(w) \/ ReadFails(w) \/ WriteFails(w) \/ RepairFails(w)
    BY <1>l, <1>8 DEF ConversionFails, ReadFails, WriteFails, RepairFails, Abandon
  <1>11. CASE OtherTrade(w)
    BY <1>0, <1>11, Turned
  <1> QED
    BY <1>1, <1>2, <1>3, <1>4, <1>5, <1>6, <1>7, <1>8, <1>9, <1>10, <1>11 DEF Work, Failure

LEMMA StepOrder ==
  ASSUME TypeOK, Ahead, OrderInv, [Next]_vars
  PROVE  OrderInv'
  <1>1. CASE Fill \/ Cancel
    <2>1. order'.status = "closed" => order'.filled = Expected
      BY <1>1, LedgerAssumption DEF Fill, Cancel, OrderInv, TypeOK
    <2>2. pc' = pc /\ loc' = loc
      BY <1>1 DEF Fill, Cancel
    <2>3. ASSUME NEW w \in Runners PROVE Own(w)'
      <3>1. order'.filled \in Nat /\ order.filled <= order'.filled
        BY Grows, StepType DEF TypeOK, Fills
      <3> QED
        BY <2>2, <3>1, Numbers DEF OrderInv, Own, Settling
    <2> QED
      BY <2>1, <2>3 DEF OrderInv
  <1>2. ASSUME NEW w \in Runners, Work(w) \/ Failure(w) PROVE OrderInv'
    <2>1. ASSUME NEW v \in Runners \ {w} PROVE Own(v)'
      BY <1>2, Frame DEF OrderInv, Own, Settling
    <2> QED
      BY <1>2, <2>1, Frame, StepOwn DEF OrderInv
  <1>3. CASE UNCHANGED vars
    BY <1>3 DEF vars, OrderInv, Own, Settling
  <1> QED
    BY <1>1, <1>2, <1>3 DEF Next

\* What is applied is ahead of what was applied.
LEMMA StepAhead ==
  ASSUME TypeOK, Ahead, [Next]_vars
  PROVE  Ahead'
  <1> USE DEF Ahead, Goto, Leave
  <1>0. pc \in [Runners -> Places] /\ loc \in [Runners -> Works]
    BY DEF TypeOK
  <1>1. CASE Fill \/ Cancel \/ UNCHANGED vars
    BY <1>1 DEF Fill, Cancel, vars
  <1>2. ASSUME NEW w \in Runners, Work(w) \/ Failure(w) PROVE Ahead'
    <2>1. pc'[w] \in {"apply", "commit"} => loc'[w].base < loc'[w].filled
      <3>1. CASE Select(w) \/ Fetch(w) \/ Acquire(w) \/ Busy(w) \/ Commit(w) \/ CommitFails(w)
        BY <1>0, <3>1 DEF Select, Fetch, Acquire, Busy, Commit, CommitFails, ApplyFails
      <3>2. CASE Snapshot(w)
        <4> DEFINE base == Larger(loc[w].meta.recorded, applied)
        <4>1. pc'[w] = IF loc[w].filled > base THEN "apply" ELSE "block"
          BY <1>0, <3>2 DEF Snapshot
        <4>2. loc'[w].base = base /\ loc'[w].filled = loc[w].filled
          BY <1>0, <3>2 DEF Snapshot, Works
        <4>3. base \in Nat /\ loc[w].filled \in Nat
          BY Numbers DEF Larger
        <4> QED
          BY <4>1, <4>2, <4>3
      <3>3. CASE Cover(w) \/ Journal(w) \/ MarkDone(w) \/ MarkLost(w) \/ CoverFails(w) \/ Unverified(w)
        BY <1>0, <3>3 DEF Cover, Journal, MarkDone, MarkLost, CoverFails, Unverified, After, ApplyFails
      <3>4. CASE Block(w) \/ Merge(w) \/ Repair(w) \/ Die(w)
        BY <1>0, <3>4 DEF Block, Merge, Repair, Die
      <3>5. CASE ConversionFails(w) \/ ReadFails(w) \/ WriteFails(w)
        BY <1>0, <3>5 DEF ConversionFails, ReadFails, WriteFails, Abandon
      <3>6. CASE OtherTrade(w) \/ RepairFails(w)
        BY <1>0, <3>6, Turned DEF RepairFails
      <3> QED
        BY <1>2, <3>1, <3>2, <3>3, <3>4, <3>5, <3>6 DEF Work, Failure
    <2> QED
      BY <1>2, <2>1, Frame
  <1> QED
    BY <1>1, <1>2 DEF Next

-----------------------------------------------------------------------------
(* Applied at most once. *)

LEMMA StepOnce ==
  ASSUME TypeOK, Ahead, OrderInv, OnceInv, AppliedOnce, [Next]_vars
  PROVE  OnceInv' /\ AppliedOnce'
  <1> USE DEF OnceInv, AppliedOnce, Settling
  <1>0. /\ pc \in [Runners -> Places] /\ loc \in [Runners -> Works]
        /\ applied \in Nat /\ order.filled \in Nat /\ order'.filled \in Nat
    BY StepType, MetaTypes DEF TypeOK, Fills
  <1>1. CASE Fill \/ Cancel
    <2>1. pc' = pc /\ loc' = loc /\ applied' = applied /\ links' = links /\ split' = split
      BY <1>1 DEF Fill, Cancel, ledger
    <2> QED
      BY <1>0, <2>1, Grows
  <1>2. ASSUME NEW w \in Runners, Fetch(w) PROVE OnceInv' /\ AppliedOnce'
    <2>1. split' = (split \/ \E v \in Runners : Settling(v) /\ loc[v].filled # order.filled)
      BY <1>2 DEF Fetch
    <2>2. applied' = applied /\ links' = links /\ order' = order
      BY <1>2 DEF Fetch, ledger
    <2>3. /\ pc'[w] = "snapshot" /\ loc'[w].filled = order.filled
          /\ \A v \in Runners \ {w} : pc'[v] = pc[v] /\ loc'[v] = loc[v]
      BY <1>2, Left, Frame DEF Work
    <2>4. ASSUME ~split' PROVE ~split /\ \A v \in Runners : Settling(v) => loc[v].filled = order.filled
      BY <2>1, <2>4
    <2>5. ~split' => \A v \in Runners : Settling(v)' => loc'[v].filled = order.filled
      BY <2>3, <2>4
    <2> QED
      BY <2>2, <2>3, <2>4, <2>5
  <1>3. ASSUME NEW w \in Runners, Commit(w) PROVE OnceInv' /\ AppliedOnce'
    <2>1. split' = split /\ order' = order
      BY <1>3 DEF Commit
    <2>2. pc[w] = "commit" /\ loc' = loc /\ pc' = [pc EXCEPT ![w] = "cover"]
          /\ loc[w].filled \in links' /\ links \subseteq links' /\ applied' \in Nat
      BY <1>3, Committed, StepType DEF TypeOK
    <2>3. \A v \in Runners : Settling(v)' => Settling(v)
      BY <1>0, <2>2
    <2>4. ASSUME ~split PROVE applied' <= order.filled
      <3>1. CASE loc[w].filled \in links
        BY <1>3, <2>4, <3>1, Committed DEF ledger
      <3>2. CASE loc[w].filled \notin links
        <4>1. applied' <= applied + Delta(w) /\ Delta(w) \in Nat
          BY <1>3, <3>2, Committed
        <4>2. applied <= loc[w].base /\ loc[w].filled <= order.filled
          BY <2>2, <2>4, <3>2 DEF OrderInv, Own
        <4> QED
          BY <1>0, <2>2, <4>1, <4>2, Numbers DEF Delta
      <3> QED
        BY <3>1, <3>2
    <2>5. ASSUME ~split, NEW v \in Runners, pc'[v] \in {"apply", "commit"}
          PROVE  loc'[v].filled \in links'
      BY <1>0, <2>2, <2>5
    <2> QED
      BY <2>1, <2>2, <2>3, <2>4, <2>5
  <1>4. ASSUME NEW w \in Runners, Work(w) \/ Failure(w), ~Commit(w), ~Fetch(w)
        PROVE  OnceInv' /\ AppliedOnce'
    <2>1. /\ split' = split /\ order' = order /\ applied' = applied /\ links' = links
          /\ \A v \in Runners \ {w} : pc'[v] = pc[v] /\ loc'[v] = loc[v]
      BY <1>4, Frame DEF ledger
    <2>2. Settling(w)' =>
            /\ Settling(w) /\ loc'[w].filled = loc[w].filled
            /\ pc'[w] \in {"apply", "commit"} =>
                 \/ pc[w] \in {"apply", "commit"} /\ loc'[w].base = loc[w].base
                 \/ applied <= loc'[w].base
      <3>1. CASE Select(w) \/ Repair(w)
        BY <3>1, Left
      <3>2. CASE Snapshot(w)
        <4> DEFINE base == Larger(loc[w].meta.recorded, applied)
        <4>1. loc'[w].base = base /\ loc'[w].filled = loc[w].filled /\ pc[w] = "snapshot"
          BY <1>0, <3>2 DEF Snapshot, Works
        <4>2. applied <= base
          BY Numbers DEF Larger
        <4> QED
          BY <4>1, <4>2
      <3>8. CASE Block(w)
        BY <1>0, <3>8, Blocked
      <3>3. CASE Acquire(w) \/ Cover(w) \/ Journal(w)
        BY <1>0, <3>3 DEF Acquire, Cover, Journal, Goto
      <3>4. Leave(w, "idle") \/ Leave(w, "repair") \/ ApplyFails(w) \/ Goto(w, "block") => ~Settling(w)'
        <4>1. Leave(w, "idle") \/ Leave(w, "repair") => pc'[w] \in {"idle", "repair"}
          BY Left
        <4>2. ApplyFails(w) \/ Goto(w, "block") => pc'[w] = "block"
          BY Left
        <4> QED
          BY <4>1, <4>2
      <3>5. CASE Busy(w) \/ CommitFails(w) \/ CoverFails(w) \/ Merge(w) \/ Die(w)
        BY <3>4, <3>5 DEF Busy, CommitFails, CoverFails, Merge, Die
      <3>6. CASE MarkDone(w) \/ MarkLost(w) \/ Unverified(w)
        BY <3>4, <3>6 DEF MarkDone, MarkLost, Unverified, After
      <3>7. CASE ConversionFails(w) \/ ReadFails(w) \/ WriteFails(w) \/ RepairFails(w)
        BY <3>4, <3>7 DEF ConversionFails, ReadFails, WriteFails, RepairFails, Abandon
      <3>9. CASE OtherTrade(w)
        BY <3>9, Turned
      <3> QED
        BY <1>4, <3>1, <3>2, <3>3, <3>5, <3>6, <3>7, <3>8, <3>9 DEF Work, Failure
    <2> QED
      BY <2>1, <2>2
  <1>5. CASE UNCHANGED vars
    BY <1>5 DEF vars, ledger
  <1> QED
    BY <1>1, <1>2, <1>3, <1>4, <1>5 DEF Next

-----------------------------------------------------------------------------
(* The position follows the trades. *)

LEMMA StepLedger ==
  ASSUME TypeOK, Ahead, LedgerAgrees, [Next]_vars
  PROVE  LedgerAgrees'
  <1>1. ASSUME NEW w \in Runners, Commit(w) PROVE LedgerAgrees'
    <2>1. side' = side /\ side \in {"buy", "sell"}
      BY <1>1 DEF Commit, TypeOK
    <2>2. position \in Nat /\ applied \in Nat /\ Held \in Nat /\ applied <= applied' /\ applied' \in Nat
      BY <1>1, Numbers, Committed, StepType DEF TypeOK
    <2>3. CASE loc[w].filled \in links
      BY <1>1, <2>1, <2>3, Committed DEF ledger, LedgerAgrees
    <2>4. CASE loc[w].filled \notin links /\ side = "buy"
      BY <1>1, <2>1, <2>2, <2>4, Committed DEF LedgerAgrees
    <2>5. CASE loc[w].filled \notin links /\ side = "sell" /\ position = 0
      <3>1. position' = 0
        BY <1>1, <2>5, Committed
      <3>2. Held <= applied
        BY <2>2, <2>5 DEF LedgerAgrees, Larger
      <3>3. Larger(0, Held - applied') = 0
        <4>1. ASSUME NEW n \in Int, n <= 0 PROVE Larger(0, n) = 0
          BY <4>1 DEF Larger
        <4>2. ASSUME NEW a \in Nat, NEW b \in Nat, NEW h \in Nat, h <= a, a <= b
              PROVE  h - b \in Int /\ h - b <= 0
          BY <4>2
        <4>3. Held - applied' \in Int /\ Held - applied' <= 0
          BY <2>2, <3>2, <4>2
        <4> QED
          BY <4>1, <4>3
      <3> QED
        BY <2>1, <2>5, <3>1, <3>3 DEF LedgerAgrees, Larger
    <2>6. CASE loc[w].filled \notin links /\ side = "sell" /\ position > 0
      <3>1. Sold(w) <= position /\ position' = position - Sold(w) /\ applied' = applied + Sold(w)
        BY <1>1, <2>6, Committed
      <3>2. Sold(w) \in Nat
        BY <1>1, <2>2, Committed DEF Sold, Smaller
      <3> QED
        BY <2>1, <2>2, <2>6, <3>1, <3>2 DEF LedgerAgrees, Larger
    <2> QED
      BY <2>1, <2>2, <2>3, <2>4, <2>5, <2>6
  <1>2. ASSUME NEW w \in Runners, Work(w) \/ Failure(w), ~Commit(w) PROVE LedgerAgrees'
    BY <1>2, Frame DEF LedgerAgrees, ledger
  <1>3. CASE Fill \/ Cancel
    BY <1>3 DEF Fill, Cancel, LedgerAgrees, ledger
  <1>4. CASE UNCHANGED vars
    BY <1>4 DEF vars, LedgerAgrees, ledger
  <1> QED
    BY <1>1, <1>2, <1>3, <1>4 DEF Next

-----------------------------------------------------------------------------
(* Nothing is skipped. *)

\* A commit leaves the runner's fill accounted for.
LEMMA CommitCovers ==
  ASSUME TypeOK, Ahead, CoverInv, [Next]_vars, NEW w \in Runners, Commit(w)
  PROVE  Covered(loc[w].filled)'
  <1>1. /\ \A q \in Nat : Covered(q) => Covered(q)'
        /\ loc[w].filled \in Nat /\ loc[w].base \in Nat
    BY Grows, Numbers
  <1>2. /\ pc[w] = "commit" /\ loc' = loc /\ side' = side
        /\ loc[w].filled \in links' /\ Delta(w) \in Nat /\ Covered(loc[w].base)
    BY Committed, Grows DEF CoverInv, Backed
  <1>3. CASE loc[w].filled \in links
    BY <1>1, <1>2, <1>3 DEF CoverInv, Covered
  <1>4. CASE side = "sell"
    BY <1>1, <1>2, <1>4 DEF Covered
  <1>5. CASE side = "buy" /\ loc[w].filled \notin links
    <2>1. applied' = applied + Delta(w) /\ loc[w].base <= applied /\ applied \in Nat
      BY <1>2, <1>5, Committed, Numbers DEF Covered
    <2> QED
      BY <1>1, <1>2, <2>1 DEF Covered, Delta
  <1> QED
    BY <1>3, <1>4, <1>5 DEF TypeOK

LEMMA StepBacked ==
  ASSUME TypeOK, Ahead, CoverInv, NothingSkipped, [Next]_vars,
         NEW w \in Runners, Work(w) \/ Failure(w)
  PROVE  Backed(w)'
  <1> USE DEF Backed
  <1>0. pc \in [Runners -> Places] /\ loc \in [Runners -> Works] /\ Backed(w)
    BY DEF TypeOK, CoverInv
  <1>1. /\ \A q \in Nat : Covered(q) => Covered(q)'
        /\ Expected \in Nat /\ loc[w].filled \in Nat /\ loc[w].base \in Nat
        /\ loc[w].meta.recorded \in Nat /\ meta.recorded \in Nat
    BY Grows, Numbers
  <1>2. Covered(0)'
    BY StepType DEF TypeOK, Covered
  <1>3. Leave(w, "idle") \/ Leave(w, "repair") => Backed(w)'
    <2>1. Leave(w, "idle") \/ Leave(w, "repair") =>
            pc'[w] \in {"idle", "repair"} /\ loc'[w].meta.recorded = 0
      BY Left, NoWorkIs
    <2> QED
      BY <1>2, <2>1 DEF Covered
  <1>4. ApplyFails(w) /\ pc[w] \in {"apply", "commit"} => Backed(w)'
    BY <1>0, <1>1, Left DEF Covered
  <1>5. ApplyFails(w) /\ pc[w] = "cover" /\ ~loc[w].repair => Backed(w)'
    BY <1>0, <1>1, Left DEF Covered
  <1>6. After(w) /\ pc[w] \in {"journal", "mark"} => Backed(w)'
    <2>1. Goto(w, "block") /\ loc' = loc => pc'[w] = "block" /\ loc'[w] = loc[w]
      BY Left
    <2>2. CASE loc[w].repair
      BY <1>3, <2>2 DEF After
    <2>3. CASE ~loc[w].repair
      BY <1>0, <1>1, <2>1, <2>3 DEF After, Covered
    <2> QED
      BY <2>2, <2>3
  <1>7. CASE Select(w)
    <2>1. CASE pc'[w] = "repair" /\ loc'[w] = loc[w]
      BY <1>0, <1>1, <2>1 DEF Covered
    <2>2. CASE pc'[w] = "fetch" /\ loc'[w].meta = meta /\ meta.followUp
      BY <1>1, <2>2 DEF NothingSkipped, Covered
    <2> QED
      BY <1>7, <2>1, <2>2, Left
  <1>8. CASE Fetch(w)
    <2>1. pc[w] = "fetch" /\ pc'[w] = "snapshot" /\ loc'[w].meta = loc[w].meta
      BY <1>8, Left
    <2> QED
      BY <1>0, <1>1, <2>1 DEF Covered
  <1>9. CASE Snapshot(w)
    <2> DEFINE base == Larger(loc[w].meta.recorded, applied)
    <2>1. /\ loc'[w].base = base /\ loc'[w].filled = loc[w].filled /\ loc'[w].meta = loc[w].meta
          /\ pc[w] = "snapshot" /\ pc'[w] = IF loc[w].filled > base THEN "apply" ELSE "block"
      BY <1>0, <1>9 DEF Snapshot, Goto, Works
    <2>2. base \in Nat /\ applied \in Nat /\ (base = applied \/ base = loc[w].meta.recorded)
      BY <1>1, Numbers DEF Larger
    <2>3. Covered(base)
      BY <1>0, <2>2 DEF Covered
    <2>4. loc[w].filled <= base => Covered(loc[w].filled)
      BY <1>1, <2>2, <2>3, CoveredBelow
    <2> HIDE DEF base
    <2>5. Covered(loc[w].base)' /\ Covered(loc[w].meta.recorded)'
      BY <1>0, <1>1, <2>1, <2>2, <2>3 DEF Covered
    <2> QED
      BY <1>0, <1>1, <2>1, <2>2, <2>3, <2>4 DEF Covered
  <1>10. CASE Commit(w)
    <2>1. /\ pc[w] = "commit" /\ pc'[w] = "cover" /\ loc' = loc /\ side' = side
          /\ loc[w].filled \in links' /\ Delta(w) \in Nat
      BY <1>0, <1>10, Committed, Grows
    <2>2. Covered(loc[w].filled)'
      BY <1>0, <1>10, <2>1, CommitCovers DEF Backed
    <2> QED
      BY <1>0, <1>1, <2>1, <2>2 DEF Covered
  <1>17. CASE Block(w)
    BY <1>0, <1>1, <1>17, Blocked DEF Covered
  <1>11. CASE Acquire(w) \/ Cover(w) \/ Journal(w)
    <2>1. /\ loc' = loc
          /\ \/ pc[w] = "apply" /\ pc'[w] = "commit"
             \/ pc[w] = "cover" /\ pc'[w] \in {"mark", "journal"}
             \/ pc[w] = "journal" /\ pc'[w] = "mark"
      BY <1>0, <1>11 DEF Acquire, Cover, Journal, Goto
    <2> QED
      BY <1>0, <1>1, <2>1 DEF Covered
  <1>12. CASE Repair(w)
    <2>1. CASE pc'[w] = "idle" /\ loc'[w] = loc[w]
      BY <1>0, <1>1, <2>1 DEF Covered
    <2>2. CASE pc'[w] = "cover" /\ loc'[w].meta = meta /\ loc'[w].repair = TRUE
      BY <1>1, <2>2 DEF NothingSkipped, Covered
    <2> QED
      BY <1>12, <2>1, <2>2, Left
  <1>13. CASE Busy(w) \/ CommitFails(w)
    BY <1>4, <1>13 DEF Busy, CommitFails
  <1>14. CASE CoverFails(w)
    BY <1>3, <1>5, <1>14 DEF CoverFails
  <1>15. CASE MarkDone(w) \/ MarkLost(w) \/ Unverified(w)
    BY <1>6, <1>15 DEF MarkDone, MarkLost, Unverified
  <1>16. CASE Merge(w) \/ Die(w) \/ ConversionFails(w) \/ ReadFails(w) \/ WriteFails(w)
              \/ RepairFails(w)
    BY <1>3, <1>16 DEF Merge, Die, ConversionFails, ReadFails, WriteFails, RepairFails, Abandon
  <1>18. CASE OtherTrade(w)
    BY <1>0, <1>1, <1>18, Turned DEF Covered
  <1> QED
    BY <1>7, <1>8, <1>9, <1>10, <1>11, <1>12, <1>13, <1>14, <1>15, <1>16, <1>17, <1>18 DEF Work, Failure

LEMMA StepCover ==
  ASSUME TypeOK, Ahead, CoverInv, NothingSkipped, [Next]_vars
  PROVE  CoverInv'
  <1>1. /\ \A q \in Nat : Covered(q) => Covered(q)'
        /\ \A l \in links : l \in Nat /\ Covered(l)
    BY Grows DEF CoverInv, TypeOK, Fills
  <1>2. CASE Fill \/ Cancel \/ UNCHANGED vars
    <2>1. pc' = pc /\ loc' = loc /\ links' = links /\ side' = side /\ applied' = applied
      BY <1>2 DEF Fill, Cancel, vars, ledger
    <2> QED
      BY <2>1 DEF CoverInv, Backed, Covered
  <1>3. ASSUME NEW w \in Runners, Work(w) \/ Failure(w) PROVE CoverInv'
    <2>1. ASSUME NEW v \in Runners \ {w} PROVE Backed(v)'
      BY <1>1, <1>3, <2>1, Frame, Numbers DEF CoverInv, Backed, Covered
    <2>2. ASSUME NEW l \in links' PROVE Covered(l)'
      <3>1. CASE l \in links
        BY <1>1, <3>1
      <3>2. CASE l \notin links
        <4>1. Commit(w) /\ l = loc[w].filled /\ pc'[w] = "cover" /\ loc' = loc
          BY <1>3, <3>2, Frame, Committed DEF ledger, TypeOK
        <4> QED
          BY <4>1, CommitCovers
      <3> QED
        BY <3>1, <3>2
    <2> QED
      BY <1>3, <2>1, <2>2, StepBacked DEF CoverInv
  <1> QED
    BY <1>2, <1>3 DEF Next

LEMMA StepSkipped ==
  ASSUME TypeOK, Ahead, OrderInv, CoverInv, NothingSkipped, [Next]_vars
  PROVE  NothingSkipped'
  <1>1. /\ \A q \in Nat : Covered(q) => Covered(q)'
        /\ Expected \in Nat /\ meta.recorded \in Nat /\ meta \in Metas
    <2>1. meta \in Metas
      BY DEF TypeOK
    <2>2. meta.recorded \in 0 .. Expected /\ Expected \in Nat
      BY <2>1, MetaTypes DEF Fills
    <2> QED
      BY <2>1, <2>2, Grows
  <1>2. code' = code /\ meta' = meta => NothingSkipped'
    BY <1>1 DEF NothingSkipped, Covered
  <1>3. ASSUME NEW w \in Runners, Work(w) \/ Failure(w) PROVE NothingSkipped'
    <2>1. /\ Backed(w) /\ Own(w) /\ loc[w].meta \in Metas
          /\ loc[w].meta.recorded \in Nat /\ loc[w].filled \in Nat /\ loc[w].base \in Nat
      BY Numbers, Reads DEF CoverInv, OrderInv, Typed
    <2>2. code' \in {code, "manual_reconcile_required"} /\ meta' = loc[w].meta
          /\ pc[w] \notin {"idle", "repair"} => NothingSkipped'
      BY <1>1, <2>1 DEF NothingSkipped, Backed, Covered
    <2>3. code' = code /\ meta' = [loc[w].meta EXCEPT !.followUp = TRUE] => NothingSkipped'
      <3>1. LET m == [loc[w].meta EXCEPT !.followUp = TRUE]
            IN  m.recorded = loc[w].meta.recorded /\ m.followUp = TRUE
        BY <2>1 DEF Metas
      <3> QED
        BY <1>1, <2>1, <3>1 DEF NothingSkipped, Backed, Covered
    <2>4. (\E b \in BOOLEAN : Mark(w, b)) /\ code' = code /\ pc[w] \notin {"idle", "repair"}
            => NothingSkipped'
      <3>1. ASSUME NEW b \in BOOLEAN, Mark(w, b)
            PROVE  meta'.recorded = loc[w].meta.recorded /\ meta'.followUp = loc[w].meta.followUp
        BY <2>1, <3>1 DEF Mark, Metas
      <3> QED
        BY <1>1, <2>1, <3>1 DEF NothingSkipped, Backed, Covered
    <2>5. CASE Select(w) \/ Fetch(w) \/ Snapshot(w) \/ Acquire(w) \/ Busy(w) \/ Commit(w)
               \/ CommitFails(w) \/ Cover(w) \/ CoverFails(w) \/ Journal(w) \/ MarkLost(w)
               \/ Repair(w) \/ OtherTrade(w) \/ Die(w)
      BY <1>2, <2>5 DEF Select, Fetch, Snapshot, Acquire, Busy, Commit, CommitFails, Cover,
                        CoverFails, Journal, MarkLost, Repair, OtherTrade, Die, signal
    <2>6. CASE ConversionFails(w)
      BY <1>2, <2>2, <2>6 DEF ConversionFails, signal
    <2>7. CASE ReadFails(w) \/ WriteFails(w)
      BY <1>2, <2>3, <2>7 DEF ReadFails, WriteFails, Abandon
    <2>8. CASE Unverified(w) \/ MarkDone(w)
      BY <1>2, <2>4, <2>8 DEF Unverified, MarkDone
    <2>11. CASE RepairFails(w)
      BY <1>2, <2>2, <2>11 DEF RepairFails
    <2>9. CASE Block(w)
      <3>1. meta' = meta /\ pc[w] = "block"
        BY <2>9 DEF Block
      <3>2. code' = "order_reconciled" => Covered(Expected)
        BY <2>1, <2>9, <3>1 DEF Block, StateOf, Own, Backed
      <3> QED
        BY <1>1, <3>1, <3>2 DEF NothingSkipped, Covered
    <2>10. CASE Merge(w)
      <3>1. code' = code /\ pc[w] = "merge"
        BY <2>10 DEF Merge
      <3>2. meta'.followUp = (loc[w].error \/ ~loc[w].settled)
        BY <2>10 DEF Merge
      <3>3. ~meta'.followUp => Covered(Expected)
        BY <2>1, <3>1, <3>2 DEF Own, Backed
      <3>4. Covered(meta.recorded)'
        <4> DEFINE q == IF loc[w].error THEN loc[w].base ELSE Larger(loc[w].base, loc[w].filled)
                   r == Smaller(loc[w].filled, q)
        <4>1. meta'.recorded = r
          BY <2>10 DEF Merge
        <4>2. r \in Nat /\ (loc[w].error => r <= loc[w].base) /\ r <= loc[w].filled
          BY <2>1 DEF Smaller, Larger
        <4>3. Covered(r)
          BY <2>1, <3>1, <4>2, CoveredBelow DEF Backed
        <4> HIDE DEF r
        <4> QED
          BY <1>1, <4>1, <4>2, <4>3 DEF Covered
      <3> QED
        BY <1>1, <3>1, <3>3, <3>4 DEF NothingSkipped, Covered
    <2> QED
      BY <1>3, <2>5, <2>6, <2>7, <2>8, <2>9, <2>10, <2>11 DEF Work, Failure
  <1>4. CASE Fill \/ Cancel \/ UNCHANGED vars
    BY <1>2, <1>4 DEF Fill, Cancel, vars, signal
  <1> QED
    BY <1>3, <1>4 DEF Next

-----------------------------------------------------------------------------
(* The inductive invariant, and what it gives. *)

LEMMA InitIInv == Init => IInv
  <1> SUFFICES ASSUME Init PROVE IInv
    OBVIOUS
  <1>1. TypeOK
    BY InitType
  <1>2. /\ \A w \in Runners : pc[w] = "idle" /\ loc[w] = NoWork
        /\ order.status = "open" /\ order.filled = 0 /\ links = {} /\ applied = 0
        /\ position = Held /\ code = "order_pending_reconcile"
        /\ meta.recorded = 0 /\ meta.followUp = TRUE
    BY DEF Init
  <1>3. Covered(0) /\ Held \in Nat
    BY <1>2 DEF Covered
  <1>4. OrderInv /\ Ahead /\ OnceInv
    BY <1>2, NoWorkIs DEF OrderInv, Own, Ahead, OnceInv, Settling
  <1>5. CoverInv
    BY <1>2, <1>3, NoWorkIs DEF CoverInv, Backed
  <1>6. NothingSkipped /\ AppliedOnce
    BY <1>2, <1>3 DEF NothingSkipped, AppliedOnce
  <1>7. LedgerAgrees
    BY <1>2, <1>3 DEF LedgerAgrees, Larger
  <1> QED
    BY <1>1, <1>4, <1>5, <1>6, <1>7 DEF IInv

LEMMA StepIInv == IInv /\ [Next]_vars => IInv'
  BY StepType, StepAhead, StepOrder, StepOnce, StepCover, StepSkipped, StepLedger DEF IInv

\* Every step leads from a consistent state to a consistent one.
THEOREM ReconcileInvariant == Spec => []IInv
  <1>1. Init => IInv
    BY InitIInv
  <1>2. IInv /\ [Next]_vars => IInv'
    BY StepIInv
  <1> QED
    BY <1>1, <1>2, PTL DEF Spec

\* Every variable of the settlement keeps its type (the block_code, block_meta and trade rows
\* the two queues read and write).
THEOREM ReconcileTypeOK == Spec => []TypeOK
  <1>1. IInv => TypeOK
    BY DEF IInv
  <1> QED
    BY <1>1, ReconcileInvariant, PTL

\* For any number of runners, deaths and failures, the trades of an order never exceed what
\* the exchange filled as long as no two runners settle different fills of it at the same
\* time (applyBinancePendingReconcileDelta).
THEOREM FillsAppliedAtMostOnce == Spec => []AppliedOnce
  <1>1. IInv => AppliedOnce
    BY DEF IInv
  <1> QED
    BY <1>1, ReconcileInvariant, PTL

\* For any number of runners, deaths and failures, the position is the one the trades amount
\* to (the transaction of applyBinancePendingReconcileDelta).
THEOREM PositionFollowsTrades == Spec => []LedgerAgrees
  <1>1. IInv => LedgerAgrees
    BY DEF IInv
  <1> QED
    BY <1>1, ReconcileInvariant, PTL

\* For any number of runners, deaths and failures, nothing is recorded as filled and no signal
\* leaves the queue as settled before the trades account for it
\* (markBinanceOrderPendingReconcileSignal).
THEOREM NoFillSkipped == Spec => []NothingSkipped
  <1>1. IInv => NothingSkipped
    BY DEF IInv
  <1> QED
    BY <1>1, ReconcileInvariant, PTL

=============================================================================
