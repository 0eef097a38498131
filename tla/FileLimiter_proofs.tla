--------------------------- MODULE FileLimiter_proofs ---------------------------
(***************************************************************************)
(* What the file backend of the limiter keeps for every number of          *)
(* processes, calls, slots and retries: unless a slot lock was taken away  *)
(* from a process in its section, a lease is lost only by lapsing, and no  *)
(* more calls hold unexpired leases than there are slots; a process does   *)
(* not win an election past an older owner that stands through it, and is  *)
(* refused only where one whose pid is in use stands in its way.           *)
(***************************************************************************)
EXTENDS FileLimiter, FiniteSetTheorems, TLAPS

\* What a process is doing fits what its call has been told.
Fits(p) ==
  /\ run[p].call # NoCall => ProcOf[run[p].call] = p
  /\ run[p].sec # "prune" => run[p].call # NoCall
  /\ run[p].pc \in {"open", "write", "list", "scan"} => run[p].sec = "prune" /\ run[p].call # NoCall
  /\ run[p].sec \in {"prune", "take"} /\ run[p].call # NoCall => status[run[p].call] = "asking"
  /\ run[p].sec = "renew" => status[run[p].call] = "held" /\ run[p].slot = at[run[p].call]
  /\ run[p].sec = "release" =>
       /\ status[run[p].call] = "releasing" /\ run[p].slot = at[run[p].call]
       /\ run[p].pc = "look" => retries[run[p].call] < Retries
  /\ run[p].pc = "observe" => run[p].sec = "prune"
  /\ run[p].pc \in {"create", "fill"} => run[p].sec = "take"
  /\ run[p].pc \in {"verify", "rewrite", "refill"} => run[p].sec = "renew"
  /\ run[p].pc \in {"recheck", "drop"} => run[p].sec \in {"prune", "release"}

Orderly ==
  /\ \A p \in Procs : Fits(p)
  /\ \A c \in Calls : status[c] = "sleeping" => retries[c] < Retries

\* A process in its section has the slot's lock,
Holds(p) == run[p].pc \in Sections => lock[run[p].slot].by = p

\* and what it has read or written there still stands.
Knows(p) ==
  LET f == run[p]
      l == lease[f.slot] IN
  /\ f.pc = "drop" /\ f.sec = "prune" => ~Live(f.slot)
  /\ f.pc = "drop" /\ f.sec = "release" => l.by = f.call
  /\ f.pc = "fill" => l.by = f.call
  /\ f.pc = "unlock" /\ f.sec = "take" /\ f.ok => l.by = f.call /\ ~l.blank
  /\ f.pc = "rewrite" => l.by = f.call /\ ~l.blank
  /\ f.pc = "refill" => l.by = f.call

\* A call's lease file is where the call, or the section that makes it, says.
Placed(c) == \A s \in Slots : lease[s].by = c =>
  LET f == run[ProcOf[c]] IN
  /\ status[c] # "new"
  /\ status[c] = "held" => at[c] = s
  /\ status[c] = "asking" /\ Alive(ProcOf[c]) =>
       f.call = c /\ f.sec = "take" /\ f.slot = s /\ (f.pc = "fill" \/ (f.pc = "unlock" /\ f.ok))

\* A lease that counts is there, written, unless it is being renewed, or was torn by a
\* renewal that failed and will say so.
Torn(p) == run[p].pc = "refill" \/ (run[p].pc = "unlock" /\ run[p].sec = "renew" /\ ~run[p].ok)
Owned(c) == c \in Holders =>
  /\ lease[at[c]].by = c
  /\ lease[at[c]].blank => Torn(ProcOf[c]) /\ run[ProcOf[c]].call = c

Unstolen ==
  /\ \A p \in Procs : Holds(p) /\ Knows(p)
  /\ \A c \in Calls : Placed(c) /\ Owned(c)

IInv == TypeOK /\ Orderly /\ (~stolen => Unstolen)

USE FileAssumption

-----------------------------------------------------------------------------
(* Frames. *)

LEMMA EntryIs ==
  /\ DOMAIN Entry = {"prune", "take", "renew", "release"}
  /\ Entry["prune"] = "recheck" /\ Entry["take"] = "create"
  /\ Entry["renew"] = "verify" /\ Entry["release"] = "recheck"
  BY DEF Entry

LEMMA FrameTypes ==
  ASSUME NEW f \in Frames
  PROVE  /\ f.pc \in PCs /\ f.sec \in {"prune", "take", "renew", "release"}
         /\ f.call \in Calls \cup {NoCall} /\ f.slot \in Slots
         /\ f.second \in BOOLEAN /\ f.ok \in BOOLEAN
  BY EntryIs DEF Frames

LEMMA SlotZero == 0 \in Slots
  BY DEF Slots

LEMMA Places == \A l \in {"idle", "dead", "open", "write", "list", "scan", "observe", "look",
  "lock", "inspect", "evict", "recheck", "drop", "create", "fill", "verify", "rewrite", "refill",
  "unlock"} : l \in PCs
  BY DEF PCs, Sections

LEMMA IdleIs ==
  /\ Idle \in Frames /\ Idle.pc = "idle" /\ Idle.sec = "prune" /\ Idle.call = NoCall
  /\ Dead \in Frames /\ Dead.pc = "dead" /\ Dead.sec = "prune" /\ Dead.call = NoCall
  <1>1. Idle \in Frames /\ Idle.pc = "idle" /\ Idle.sec = "prune" /\ Idle.call = NoCall
    BY SlotZero, Places, EntryIs DEF Idle, At, Frames
  <1>2. Dead \in Frames /\ Dead.pc = "dead" /\ Dead.sec = Idle.sec /\ Dead.call = Idle.call
    BY <1>1, Places DEF Dead, Frames
  <1> QED
    BY <1>1, <1>2

LEMMA InitHolds == Init => IInv
  <1> SUFFICES ASSUME Init PROVE IInv
    OBVIOUS
  <1>1. TypeOK
    <2>1. NoBallot \in [left : SUBSET Procs, beaten : BOOLEAN]
      BY DEF NoBallot
    <2>2. run \in [Procs -> Frames]
      BY IdleIs DEF Init
    <2>3. lease \in [Slots -> Files] /\ lock \in [Slots -> Locks]
      BY DEF Init, Files, Locks
    <2>4. ballot \in [Procs -> [left : SUBSET Procs, beaten : BOOLEAN]]
      BY <2>1 DEF Init
    <2>5. retries \in [Calls -> 0 .. Retries] /\ status \in [Calls -> Statuses] /\ at \in [Calls -> Slots]
      BY SlotZero DEF Init, Statuses
    <2> QED
      BY <2>2, <2>3, <2>4, <2>5 DEF Init, TypeOK
  <1>2. Orderly
    BY IdleIs DEF Init, Orderly, Fits
  <1>3. \A p \in Procs : Holds(p) /\ Knows(p)
    BY IdleIs DEF Init, Holds, Knows, Sections
  <1>4. \A c \in Calls : Placed(c) /\ Owned(c)
    BY DEF Init, Placed, Owned, Holders, NoLease
  <1> QED
    BY <1>1, <1>2, <1>3, <1>4 DEF IInv, Unstolen

-----------------------------------------------------------------------------
(* What a step gives its process and tells its call. *)

\* The process has a new frame, the others keep theirs.
Framed(p) ==
  /\ run' \in [Procs -> Frames]
  /\ \A q \in Procs \ {p} : run'[q] = run[q]

\* A call may have been told something, the others were not.
Answered(c) ==
  /\ status' \in [Calls -> Statuses] /\ at' \in [Calls -> Slots]
  /\ retries' \in [Calls -> 0 .. Retries]
  /\ \A d \in Calls : d # c => status'[d] = status[d] /\ at'[d] = at[d] /\ retries'[d] = retries[d]

\* The frame goes on at l.
Goes(p, l) ==
  /\ Framed(p)
  /\ run'[p].pc = l
  /\ run'[p].sec = run[p].sec /\ run'[p].call = run[p].call /\ run'[p].slot = run[p].slot

LEMMA Reframed ==
  ASSUME TypeOK, NEW p \in Procs, NEW g \in Frames, Enter(p, g)
  PROVE  Framed(p) /\ run'[p] = g
  BY DEF TypeOK, Enter, Framed

LEMMA GoesTo ==
  ASSUME TypeOK, NEW p \in Procs, NEW l \in PCs, Goto(p, l)
  PROVE  Goes(p, l) /\ run'[p].ok = run[p].ok
  <1> DEFINE g == [run[p] EXCEPT !.pc = l]
  <1>1. run[p] \in Frames
    BY DEF TypeOK
  <1>2. /\ g \in Frames /\ g.pc = l /\ g.sec = run[p].sec /\ g.call = run[p].call
        /\ g.slot = run[p].slot /\ g.ok = run[p].ok
    BY <1>1 DEF Frames
  <1>3. Enter(p, g)
    BY DEF Goto, Enter
  <1> HIDE DEF g
  <1> QED
    BY <1>2, <1>3, Reframed DEF Goes

LEMMA GoesAgain ==
  ASSUME TypeOK, NEW p \in Procs, Enter(p, [run[p] EXCEPT !.pc = "lock", !.second = TRUE])
  PROVE  Goes(p, "lock")
  <1> DEFINE g == [run[p] EXCEPT !.pc = "lock", !.second = TRUE]
  <1>1. run[p] \in Frames
    BY DEF TypeOK
  <1>2. /\ g \in Frames /\ g.pc = "lock" /\ g.sec = run[p].sec /\ g.call = run[p].call
        /\ g.slot = run[p].slot
    BY <1>1, Places DEF Frames
  <1> HIDE DEF g
  <1> QED
    BY <1>2, Reframed DEF Goes, g

LEMMA GoesIn ==
  ASSUME TypeOK, NEW p \in Procs, NEW l \in PCs, Enter(p, [run[p] EXCEPT !.pc = l, !.second = FALSE])
  PROVE  Goes(p, l) /\ run'[p].ok = run[p].ok
  <1> DEFINE g == [run[p] EXCEPT !.pc = l, !.second = FALSE]
  <1>1. run[p] \in Frames
    BY DEF TypeOK
  <1>2. /\ g \in Frames /\ g.pc = l /\ g.sec = run[p].sec /\ g.call = run[p].call
        /\ g.slot = run[p].slot /\ g.ok = run[p].ok
    BY <1>1 DEF Frames
  <1> HIDE DEF g
  <1> QED
    BY <1>2, Reframed DEF Goes, g

LEMMA GoesBack ==
  ASSUME TypeOK, NEW p \in Procs, NEW b \in BOOLEAN, Return(p, b)
  PROVE  Goes(p, "unlock") /\ run'[p].ok = b
  <1> DEFINE g == [run[p] EXCEPT !.pc = "unlock", !.ok = b]
  <1>1. run[p] \in Frames
    BY DEF TypeOK
  <1>2. /\ g \in Frames /\ g.pc = "unlock" /\ g.sec = run[p].sec /\ g.call = run[p].call
        /\ g.slot = run[p].slot /\ g.ok = b
    BY <1>1, Places DEF Frames
  <1>3. Enter(p, g)
    BY DEF Return
  <1> HIDE DEF g
  <1> QED
    BY <1>2, <1>3, Reframed DEF Goes

LEMMA Enters ==
  ASSUME TypeOK, NEW p \in Procs, NEW l \in PCs, NEW sec \in {"prune", "take", "renew", "release"},
         NEW c \in Calls \cup {NoCall}, NEW s \in Slots, Enter(p, At(l, sec, c, s))
  PROVE  /\ Framed(p) /\ run'[p].pc = l /\ run'[p].sec = sec
         /\ run'[p].call = c /\ run'[p].slot = s
  BY EntryIs DEF TypeOK, Enter, At, Frames, Framed

LEMMA Idles ==
  ASSUME TypeOK, NEW p \in Procs, Enter(p, Idle)
  PROVE  Framed(p) /\ run'[p].pc = "idle" /\ run'[p].sec = "prune" /\ run'[p].call = NoCall
  BY IdleIs DEF TypeOK, Enter, Framed

LEMMA Tells ==
  ASSUME TypeOK, NEW c \in Calls, NEW s \in Statuses, Tell(c, s), UNCHANGED <<at, retries>>
  PROVE  Answered(c) /\ status'[c] = s
  BY DEF TypeOK, Tell, Answered

LEMMA SaysNothing ==
  ASSUME TypeOK, NEW c \in Calls \cup {NoCall}, UNCHANGED calls
  PROVE  Answered(c)
  BY DEF TypeOK, calls, Answered

LEMMA OwnFrame ==
  ASSUME TypeOK, Orderly, NEW p \in Procs
  PROVE  /\ run[p] \in Frames /\ Fits(p)
         /\ run[p].pc \in PCs /\ run[p].sec \in {"prune", "take", "renew", "release"}
         /\ run[p].call \in Calls \cup {NoCall} /\ run[p].slot \in Slots
         /\ run[p].second \in BOOLEAN /\ run[p].ok \in BOOLEAN
  BY FrameTypes DEF TypeOK, Orderly

\* The call of the step: the one the process's frame names, or one it takes up.
Serves(p, c) ==
  /\ c \in Calls \cup {NoCall}
  /\ c \in Calls => ProcOf[c] = p
  /\ run[p].call \in {c, NoCall}

LEMMA ServesOwn ==
  ASSUME TypeOK, Orderly, NEW p \in Procs
  PROVE  Serves(p, run[p].call)
  <1>1. NoCall \notin Calls
    OBVIOUS
  <1> QED
    BY <1>1, OwnFrame DEF Serves, Fits

\* The step keeps the processes in order if its own frame is.
LEMMA StepOrderly ==
  ASSUME TypeOK, Orderly, NEW p \in Procs, NEW c, Serves(p, c), Framed(p), Answered(c), Fits(p)',
         c \in Calls => (status'[c] = "sleeping" => retries'[c] < Retries)
  PROVE  Orderly'
  <1>1. \A q \in Procs \ {p} : Fits(q)'
    <2> SUFFICES ASSUME NEW q \in Procs \ {p} PROVE Fits(q)'
      OBVIOUS
    <2>1. run'[q] = run[q] /\ Fits(q)
      BY DEF Framed, Orderly
    <2>2. run[q].call \in Calls \cup {NoCall}
      BY OwnFrame
    <2>3. CASE run[q].call = NoCall
      BY <2>1, <2>3 DEF Fits
    <2>4. CASE run[q].call # NoCall
      <3> DEFINE d == run[q].call
      <3>1. d \in Calls /\ d # c
        BY <2>1, <2>2, <2>4 DEF Fits, Serves
      <3>2. status'[d] = status[d] /\ at'[d] = at[d] /\ retries'[d] = retries[d]
        BY <3>1 DEF Answered
      <3> QED
        BY <2>1, <3>2 DEF Fits
    <2> QED
      BY <2>3, <2>4
  <1>2. \A d \in Calls : status'[d] = "sleeping" => retries'[d] < Retries
    BY DEF Answered, Orderly
  <1> QED
    BY <1>1, <1>2 DEF Orderly

-----------------------------------------------------------------------------
(* The end of a section, or of the attempt at one. *)

\* The process is outside the sections, and its call knows whether it holds a lease.
Ended(p, ok) ==
  LET c == run[p].call IN
  /\ Framed(p) /\ Answered(c) /\ Fits(p)'
  /\ run'[p].pc \notin Sections \cup {"dead"}
  /\ c \in Calls =>
       /\ status'[c] # "sleeping"
       /\ \/ /\ status'[c] = status[c] /\ at'[c] = at[c]
             /\ ~(ok /\ run[p].sec = "take")
             /\ ~(~ok /\ run[p].sec = "renew" /\ run[p].pc = "unlock")
          \/ status'[c] \in {"outranked", "failed", "full", "lost", "released", "uncertain"}
          \/ ok /\ run[p].sec = "take" /\ status'[c] = "held" /\ at'[c] = run[p].slot

LEMMA NextSlot ==
  ASSUME NEW s \in Slots, s + 1 < Limit
  PROVE  s + 1 \in Slots
  BY DEF Slots

LEMMA PruneEnds ==
  ASSUME TypeOK, Orderly, NEW p \in Procs, run[p].sec = "prune", PruneDone(p), NEW ok \in BOOLEAN
  PROVE  Ended(p, ok)
  <1> DEFINE c == run[p].call
             s == run[p].slot
  <1>1. Fits(p) /\ s \in Slots /\ c \in Calls \cup {NoCall}
    BY OwnFrame
  <1>2. /\ Framed(p) /\ run'[p].call \in {c, NoCall}
        /\ run'[p].pc \in {"idle", "observe", "look"}
        /\ \/ run'[p].sec = "prune"
           \/ run'[p].sec = "take" /\ c # NoCall /\ run'[p].call = c /\ run'[p].pc # "observe"
    <2>1. CASE s + 1 < Limit
      <3>1. Enter(p, At("observe", "prune", c, s + 1))
        BY <2>1 DEF PruneDone
      <3> QED
        BY <1>1, <2>1, <3>1, NextSlot, Places, Enters
    <2>2. CASE ~(s + 1 < Limit) /\ c = NoCall
      <3>1. Enter(p, Idle)
        BY <2>2 DEF PruneDone
      <3> QED
        BY <2>2, <3>1, Idles
    <2>3. CASE ~(s + 1 < Limit) /\ c # NoCall
      <3>1. Enter(p, At("look", "take", c, 0))
        BY <2>3 DEF PruneDone
      <3> QED
        BY <1>1, <2>3, <3>1, SlotZero, Places, Enters
    <2> QED
      BY <2>1, <2>2, <2>3
  <1>3. UNCHANGED calls
    BY DEF PruneDone
  <1>4. Answered(c)
    BY <1>1, <1>3, SaysNothing
  <1>5. Fits(p)'
    BY <1>1, <1>2, <1>3 DEF Fits, calls
  <1>6. run'[p].pc \notin Sections \cup {"dead"}
    BY <1>2 DEF Sections
  <1>7. c \in Calls => status[c] = "asking"
    BY <1>1 DEF Fits
  <1> QED
    BY <1>2, <1>3, <1>4, <1>5, <1>6, <1>7 DEF Ended, calls

\* An idle process fits.
LEMMA IdleFits ==
  ASSUME NEW p \in Procs, run'[p].pc = "idle", run'[p].sec = "prune", run'[p].call = NoCall
  PROVE  Fits(p)' /\ run'[p].pc \notin Sections \cup {"dead"}
  BY DEF Fits, Sections

LEMMA TakeEnds ==
  ASSUME TypeOK, Orderly, NEW p \in Procs, run[p].sec = "take", NEW ok \in BOOLEAN, TakeDone(p, ok)
  PROVE  Ended(p, ok)
  <1> DEFINE c == run[p].call
             s == run[p].slot
  <1>1. Fits(p) /\ s \in Slots /\ c \in Calls /\ status[c] = "asking"
    BY OwnFrame DEF Fits
  <1>2. CASE ok
    <2>1. Enter(p, Idle) /\ Tell(c, "held") /\ at' = [at EXCEPT ![c] = s] /\ retries' = retries
      BY <1>2 DEF TakeDone
    <2>2. Answered(c) /\ status'[c] = "held" /\ at'[c] = s
      BY <1>1, <2>1 DEF Answered, Tell, TypeOK, Statuses
    <2> QED
      BY <1>1, <1>2, <2>1, <2>2, Idles, IdleFits DEF Ended
  <1>3. CASE ~ok /\ s + 1 < Limit
    <2>1. Enter(p, At("look", "take", c, s + 1)) /\ UNCHANGED calls
      BY <1>3 DEF TakeDone, calls
    <2>2. Framed(p) /\ run'[p].pc = "look" /\ run'[p].sec = "take" /\ run'[p].call = c
      BY <1>1, <1>3, <2>1, NextSlot, Places, Enters
    <2>3. Answered(c)
      BY <2>1, <1>1, SaysNothing
    <2>4. Fits(p)' /\ run'[p].pc \notin Sections \cup {"dead"}
      BY <1>1, <2>1, <2>2 DEF Fits, Sections, calls
    <2> QED
      BY <1>1, <1>3, <2>1, <2>2, <2>3, <2>4 DEF Ended, calls
  <1>4. CASE ~ok /\ ~(s + 1 < Limit)
    <2>1. Enter(p, Idle) /\ Tell(c, "full") /\ UNCHANGED <<at, retries>>
      BY <1>4 DEF TakeDone
    <2>2. Answered(c) /\ status'[c] = "full"
      BY <1>1, <2>1, Tells DEF Statuses
    <2> QED
      BY <1>1, <2>1, <2>2, Idles, IdleFits DEF Ended
  <1> QED
    BY <1>2, <1>3, <1>4

LEMMA RenewEnds ==
  ASSUME TypeOK, Orderly, NEW p \in Procs, run[p].sec = "renew", NEW ok \in BOOLEAN, RenewDone(p, ok)
  PROVE  Ended(p, ok)
  <1> DEFINE c == run[p].call
  <1>1. Fits(p) /\ c \in Calls /\ status[c] = "held"
    BY OwnFrame DEF Fits
  <1>2. Enter(p, Idle) /\ UNCHANGED <<at, retries>>
    BY DEF RenewDone
  <1>3. CASE ok
    <2>1. UNCHANGED calls
      BY <1>2, <1>3 DEF RenewDone, calls
    <2> QED
      BY <1>1, <1>2, <1>3, <2>1, Idles, IdleFits, SaysNothing DEF Ended, calls
  <1>4. CASE ~ok
    <2>1. Tell(c, "lost")
      BY <1>4 DEF RenewDone
    <2>2. Answered(c) /\ status'[c] = "lost"
      BY <1>1, <1>2, <2>1, Tells DEF Statuses
    <2> QED
      BY <1>1, <1>2, <2>2, Idles, IdleFits DEF Ended
  <1> QED
    BY <1>3, <1>4

LEMMA ReleaseEnds ==
  ASSUME TypeOK, Orderly, NEW p \in Procs, run[p].sec = "release", NEW ok \in BOOLEAN,
         ReleaseDone(p, ok)
  PROVE  Ended(p, ok)
  <1> DEFINE c == run[p].call
  <1>1. Fits(p) /\ c \in Calls /\ status[c] = "releasing" /\ run[p].slot = at[c]
    BY OwnFrame DEF Fits
  <1>2. UNCHANGED <<at, retries>>
    BY DEF ReleaseDone
  <1>3. CASE ok \/ retries[c] = Retries
    <2>1. Enter(p, Idle) /\ (Tell(c, "released") \/ Tell(c, "uncertain"))
      BY <1>3 DEF ReleaseDone
    <2>2. Answered(c) /\ status'[c] \in {"released", "uncertain"}
      BY <1>1, <1>2, <2>1, Tells DEF Statuses
    <2> QED
      BY <1>1, <2>1, <2>2, Idles, IdleFits DEF Ended
  <1>4. CASE ~ok /\ retries[c] # Retries
    <2>1. Goto(p, "look") /\ UNCHANGED calls
      BY <1>2, <1>4 DEF ReleaseDone, calls
    <2>2. Goes(p, "look")
      BY <2>1, Places, GoesTo
    <2>3. retries[c] < Retries
      <3>1. retries[c] \in 0 .. Retries
        BY <1>1 DEF TypeOK
      <3> QED
        BY <3>1, <1>4
    <2>4. Fits(p)' /\ run'[p].pc \notin Sections \cup {"dead"}
      BY <1>1, <2>1, <2>2, <2>3 DEF Fits, Sections, calls, Goes
    <2> QED
      BY <1>1, <2>1, <2>2, <2>4, SaysNothing DEF Ended, calls, Goes
  <1> QED
    BY <1>3, <1>4

LEMMA SectionEnds ==
  ASSUME TypeOK, Orderly, NEW p \in Procs, NEW ok \in BOOLEAN, SectionDone(p, ok)
  PROVE  Ended(p, ok)
  BY OwnFrame, PruneEnds, TakeEnds, RenewEnds, ReleaseEnds DEF SectionDone

\* A frame that goes on to l, outside the sections, its call untold.
LEMMA GoesQuietly ==
  ASSUME TypeOK, Orderly, NEW p \in Procs, UNCHANGED calls,
         NEW l \in {"write", "list", "scan", "observe", "look", "lock", "inspect", "evict"}, Goes(p, l),
         l \in {"write", "list", "scan"} => run[p].sec = "prune" /\ run[p].call # NoCall,
         l = "observe" => run[p].sec = "prune",
         l = "look" => run[p].sec # "release", run[p].pc # "unlock"
  PROVE  Ended(p, FALSE)
  <1> DEFINE c == run[p].call
  <1>1. Fits(p) /\ c \in Calls \cup {NoCall}
    BY OwnFrame
  <1>2. Fits(p)' /\ run'[p].pc \notin Sections \cup {"dead"}
    BY <1>1 DEF Fits, Sections, calls, Goes
  <1>3. c \in Calls => status[c] # "sleeping"
    BY <1>1, OwnFrame DEF Fits
  <1> QED
    BY <1>1, <1>2, <1>3, SaysNothing DEF Ended, calls, Goes

LEMMA RefusalEnds ==
  ASSUME TypeOK, Orderly, NEW p \in Procs, run[p].pc # "unlock", LockRefused(p)
  PROVE  Ended(p, FALSE)
  <1>1. CASE run[p].sec # "renew"
    BY <1>1, SectionEnds DEF LockRefused
  <1>2. CASE run[p].sec = "renew"
    <2>1. Goto(p, "look") /\ UNCHANGED calls
      BY <1>2 DEF LockRefused
    <2>2. Goes(p, "look")
      BY <2>1, Places, GoesTo
    <2> QED
      BY <1>2, <2>1, <2>2, GoesQuietly
  <1> QED
    BY <1>1, <1>2

-----------------------------------------------------------------------------
(* What a step leaves to the other processes and calls. *)

\* The types of the variables that are not about processes or calls.
World ==
  /\ owner \in [Procs -> {"none", "blank", "full"}]
  /\ ballot \in [Procs -> [left : SUBSET Procs, beaten : BOOLEAN]]
  /\ elders \in [Procs -> SUBSET Procs]
  /\ reused \subseteq Procs
  /\ contested \subseteq Procs
  /\ lease \in [Slots -> Files]
  /\ lock \in [Slots -> Locks]
  /\ lapsed \subseteq Calls
  /\ stolen \in BOOLEAN

LEMMA StepTypes ==
  ASSUME NEW p \in Procs, NEW c, Framed(p), Answered(c), World'
  PROVE  TypeOK'
  BY DEF Framed, Answered, World, TypeOK

\* The files of one slot s may change: its lock but not from under a process in its
\* section, its lease only in the section, and never the lease of another call that counts.
Kept(p, c, s) ==
  /\ \A t \in Slots \ {s} : lease'[t] = lease[t] /\ lock'[t] = lock[t]
  /\ \A q \in Procs \ {p} : InSection(q, s) => lock'[s].by = q
  /\ \/ lease'[s] = lease[s]
     \/ /\ InSection(p, s)
        /\ lease'[s].by \in {c, NoCall}
        /\ \A d \in Holders \ {c} : lease[s].by = d => at[d] # s
  /\ \/ lapsed' = lapsed
     \/ /\ InSection(p, s)
        /\ lapsed' = lapsed \ {c}
        /\ c \in Calls /\ status[c] = "held" /\ at[c] = s

LEMMA OthersKnow ==
  ASSUME TypeOK, Orderly, Unstolen, NEW p \in Procs, NEW c, NEW s \in Slots,
         Framed(p), Kept(p, c, s), NEW q \in Procs \ {p}
  PROVE  Holds(q)' /\ Knows(q)'
  <1> DEFINE t == run[q].slot
  <1>1. run'[q] = run[q] /\ Holds(q) /\ Knows(q) /\ Holds(p) /\ t \in Slots
    BY OwnFrame DEF Framed, Unstolen
  <1>2. CASE run[q].pc \notin Sections
    BY <1>1, <1>2 DEF Holds, Knows, Sections
  <1>3. CASE run[q].pc \in Sections /\ t # s
    <2>1. lock'[t] = lock[t] /\ lease'[t] = lease[t]
      BY <1>1, <1>3 DEF Kept
    <2>2. Live(t)' => Live(t)
      <3>1. CASE lapsed' = lapsed
        BY <1>1, <2>1, <3>1 DEF Live
      <3>2. CASE lapsed' = lapsed \ {c} /\ c \in Calls /\ status[c] = "held" /\ at[c] = s
        <4>1. lease[t].by # c
          BY <1>1, <1>3, <3>2 DEF Unstolen, Placed
        <4> QED
          BY <1>1, <2>1, <3>2, <4>1 DEF Live
      <3> QED
        BY <3>1, <3>2 DEF Kept
    <2> QED
      BY <1>1, <2>1, <2>2 DEF Holds, Knows
  <1>4. CASE run[q].pc \in Sections /\ t = s
    <2>1. InSection(q, s) /\ lock'[s].by = q /\ lock[s].by = q
      BY <1>1, <1>4 DEF InSection, Kept, Holds
    <2>2. ~InSection(p, s)
      BY <1>1, <2>1 DEF Holds, InSection
    <2>3. lease'[s] = lease[s] /\ lapsed' = lapsed
      BY <2>2 DEF Kept
    <2> QED
      BY <1>1, <1>4, <2>1, <2>3 DEF Holds, Knows, Live
  <1> QED
    BY <1>2, <1>3, <1>4

LEMMA OthersOwn ==
  ASSUME TypeOK, Orderly, Unstolen, NEW p \in Procs, Alive(p), NEW c, NEW s \in Slots,
         Serves(p, c), Framed(p), Answered(c), Kept(p, c, s), NEW d \in Calls, d # c
  PROVE  Placed(d)' /\ Owned(d)'
  <1> DEFINE q == ProcOf[d]
  <1>1. status'[d] = status[d] /\ at'[d] = at[d] /\ at[d] \in Slots
    BY DEF Answered, TypeOK
  <1>2. Placed(d) /\ Owned(d) /\ q \in Procs
    BY DEF Unstolen
  <1>3. d # NoCall /\ run[p].call # d
    BY DEF Serves
  <1>4. Alive(q)' => Alive(q)
    BY <1>2 DEF Alive, Framed
  <1>5. q # p => run'[q] = run[q]
    BY <1>2 DEF Framed
  <1>6. Placed(d)'
    <2> SUFFICES ASSUME NEW t \in Slots, lease'[t].by = d
                 PROVE  /\ status'[d] # "new"
                        /\ status'[d] = "held" => at'[d] = t
                        /\ status'[d] = "asking" /\ Alive(q)' =>
                             /\ run'[q].call = d /\ run'[q].sec = "take" /\ run'[q].slot = t
                             /\ run'[q].pc = "fill" \/ (run'[q].pc = "unlock" /\ run'[q].ok)
      BY DEF Placed
    <2>1. lease[t].by = d
      BY <1>3 DEF Kept
    <2>2. /\ status[d] # "new"
          /\ status[d] = "held" => at[d] = t
          /\ status[d] = "asking" /\ Alive(q) =>
               /\ run[q].call = d /\ run[q].sec = "take" /\ run[q].slot = t
               /\ run[q].pc = "fill" \/ (run[q].pc = "unlock" /\ run[q].ok)
      BY <1>2, <2>1 DEF Placed
    <2> QED
      BY <1>1, <1>3, <1>4, <1>5, <2>2
  <1>7. Owned(d)'
    <2> SUFFICES ASSUME d \in Holders'
                 PROVE  /\ lease'[at'[d]].by = d
                        /\ lease'[at'[d]].blank => Torn(q)' /\ run'[q].call = d
      BY DEF Owned
    <2>1. d \in Holders
      BY <1>1, <1>4 DEF Holders, Kept
    <2>2. /\ lease[at[d]].by = d
          /\ lease[at[d]].blank => Torn(q) /\ run[q].call = d
      BY <1>2, <2>1 DEF Owned
    <2>3. lease'[at[d]] = lease[at[d]]
      BY <1>1, <2>1, <2>2 DEF Kept
    <2> QED
      BY <1>1, <1>3, <1>5, <2>2, <2>3 DEF Torn
  <1> QED
    BY <1>6, <1>7

\* So what the step does to its own process and call decides.
LEMMA StepUnstolen ==
  ASSUME TypeOK, Orderly, Unstolen, NEW p \in Procs, Alive(p), NEW c, NEW s \in Slots,
         Serves(p, c), Framed(p), Answered(c), Kept(p, c, s),
         Holds(p)', Knows(p)', c \in Calls => Placed(c)' /\ Owned(c)'
  PROVE  Unstolen'
  <1>1. \A q \in Procs : Holds(q)' /\ Knows(q)'
    BY OthersKnow
  <1>2. \A d \in Calls : Placed(d)' /\ Owned(d)'
    BY OthersOwn
  <1> QED
    BY <1>1, <1>2 DEF Unstolen

\* A process outside the sections holds no lock and knows nothing.
LEMMA Outside ==
  ASSUME NEW p \in Procs, run'[p].pc \notin Sections
  PROVE  Holds(p)' /\ Knows(p)'
  BY DEF Holds, Knows, Sections

\* No lock but the slot's changes, and not from under another process in its section.
OneLock(p, s) ==
  /\ \A t \in Slots \ {s} : lock'[t] = lock[t]
  /\ ~stolen' => \A q \in Procs \ {p} : InSection(q, s) /\ lock[s].by = q => lock'[s].by = q

\* A step that ends a section, or happens outside one, and leaves the lease files alone.
LEMMA EndedKeeps ==
  ASSUME IInv, NEW p \in Procs, Alive(p), NEW c, c = run[p].call,
         NEW ok \in BOOLEAN, Ended(p, ok), World',
         UNCHANGED <<lease, lapsed>>, ~stolen' => ~stolen,
         NEW s \in Slots, OneLock(p, s),
         \/ run[p].pc \notin Sections /\ ok = FALSE
         \/ run[p].pc = "unlock" /\ ok = run[p].ok
         \/ run[p].pc \in {"create", "fill"} /\ c \in Calls /\ status'[c] = "failed"
  PROVE  IInv'
  <1>1. TypeOK /\ Orderly /\ Fits(p) /\ Serves(p, c) /\ Framed(p) /\ Answered(c) /\ Fits(p)'
    BY OwnFrame, ServesOwn DEF IInv, Ended
  <1>2. TypeOK'
    BY <1>1, StepTypes
  <1>3. Orderly'
    BY <1>1, StepOrderly DEF Ended
  <1>4. ASSUME ~stolen' PROVE Unstolen'
    <2>1. Unstolen
      BY <1>4 DEF IInv
    <2>2. Kept(p, c, s)
      <3>1. \A q \in Procs \ {p} : InSection(q, s) => lock'[s].by = q
        BY <1>4, <2>1 DEF Unstolen, Holds, InSection, OneLock
      <3> QED
        BY <3>1 DEF Kept, OneLock
    <2>3. Holds(p)' /\ Knows(p)'
      BY Outside DEF Ended
    <2>4. ASSUME c \in Calls PROVE Placed(c)' /\ Owned(c)'
      <3>1. ProcOf[c] = p /\ Placed(c) /\ Owned(c) /\ Knows(p)
        BY <1>1, <2>1, <2>4 DEF Serves, Unstolen
      <3>2. CASE /\ status'[c] = status[c] /\ at'[c] = at[c]
                 /\ ~(ok /\ run[p].sec = "take")
                 /\ ~(~ok /\ run[p].sec = "renew" /\ run[p].pc = "unlock")
        <4>1. Placed(c)'
          BY <3>1, <3>2 DEF Placed, Alive, Sections
        <4>2. Owned(c)'
          <5>1. c \in Holders' => c \in Holders
            BY <3>1, <3>2 DEF Holders
          <5>2. c \in Holders => ~Torn(p)
            BY <3>2 DEF Holders, Sections, Torn
          <5> QED
            BY <3>1, <3>2, <5>1, <5>2 DEF Owned
        <4> QED
          BY <4>1, <4>2
      <3>3. CASE status'[c] \in {"outranked", "failed", "full", "lost", "released", "uncertain"}
        BY <3>3 DEF Placed, Owned, Holders
      <3>4. CASE ok /\ run[p].sec = "take" /\ status'[c] = "held" /\ at'[c] = run[p].slot
        <4>1. (run[p].pc = "unlock" /\ run[p].ok) \/ status'[c] = "failed"
          BY <3>4
        <4>2. run[p].pc = "unlock" /\ run[p].ok
          BY <3>4, <4>1
        <4>3. lease[run[p].slot].by = c /\ ~lease[run[p].slot].blank
          BY <3>1, <3>4, <4>2 DEF Knows
        <4>4. status[c] = "asking"
          BY <1>1, <2>4, <3>4 DEF Fits
        <4>5. \A t \in Slots : lease[t].by = c => t = run[p].slot
          BY <3>1, <4>4 DEF Placed
        <4> QED
          BY <3>1, <3>4, <4>3, <4>5 DEF Placed, Owned
      <3> QED
        BY <2>4, <3>2, <3>3, <3>4 DEF Ended
    <2> QED
      BY <1>1, <2>1, <2>2, <2>3, <2>4, StepUnstolen
  <1> QED
    BY <1>2, <1>3, <1>4 DEF IInv

\* A step that goes on inside a section, or into one.
LEMMA InsideKeeps ==
  ASSUME IInv, NEW p \in Procs, Alive(p), NEW c, c = run[p].call, NEW s, s = run[p].slot,
         NEW l, Goes(p, l), UNCHANGED calls, World', Fits(p)', stolen' = stolen,
         Unstolen => /\ Kept(p, c, s)
                     /\ Holds(p)' /\ Knows(p)'
                     /\ c \in Calls => Placed(c)' /\ Owned(c)'
  PROVE  IInv'
  <1>1. /\ TypeOK /\ Orderly /\ Fits(p) /\ Serves(p, c) /\ s \in Slots
        /\ c \in Calls \cup {NoCall}
    BY OwnFrame, ServesOwn DEF IInv
  <1>2. Framed(p) /\ Answered(c)
    BY <1>1, SaysNothing DEF Goes
  <1>3. TypeOK'
    BY <1>2, StepTypes
  <1>4. Orderly'
    <2>1. c \in Calls => (status'[c] = "sleeping" => retries'[c] < Retries)
      BY <1>1 DEF Orderly, calls
    <2> QED
      BY <1>1, <1>2, <2>1, StepOrderly
  <1>5. ~stolen' => Unstolen'
    BY <1>1, <1>2, StepUnstolen DEF IInv
  <1> QED
    BY <1>3, <1>4, <1>5 DEF IInv

-----------------------------------------------------------------------------
(* The steps outside the sections. *)

LEMMA WorldIs == TypeOK => World
  BY DEF World, TypeOK

LEMMA NoLockMoves == \A p \in Procs : UNCHANGED lock => OneLock(p, 0)
  BY DEF OneLock

LEMMA ElectionKeeps ==
  ASSUME IInv, NEW p \in Procs, Elect(p)
  PROVE  IInv'
  <1> DEFINE c == run[p].call
  <1>1. TypeOK /\ Orderly /\ Fits(p) /\ World
    BY OwnFrame, WorldIs DEF IInv
  <1>2. /\ run[p].pc \in {"open", "write", "list", "scan"} /\ Alive(p)
        /\ run[p].pc \notin Sections
        /\ run[p].sec = "prune" /\ c \in Calls /\ status[c] = "asking"
    <2>1. run[p].pc \in {"open", "write", "list", "scan"}
      BY DEF Elect, OwnerOpen, OwnerWrite, OwnerCheckFails, Elected, List, Scan, Decide
    <2> QED
      BY <1>1, <2>1, OwnFrame DEF Fits, Alive, Sections
  <1>3. World' /\ UNCHANGED <<lease, lock, lapsed, stolen>>
    <2>1. UNCHANGED <<lease, lock, lapsed, stolen>>
      BY DEF Elect, OwnerOpen, OwnerWrite, OwnerCheckFails, Elected, List, Scan, Decide
    <2>2. owner' \in [Procs -> {"none", "blank", "full"}]
      BY <1>1 DEF Elect, OwnerOpen, OwnerWrite, OwnerCheckFails, Elected, List, Scan, Decide, World
    <2>3. ballot' \in [Procs -> [left : SUBSET Procs, beaten : BOOLEAN]]
      <3>1. CASE UNCHANGED ballot
        BY <1>1, <3>1 DEF World
      <3>2. CASE List(p)
        <4>1. ballot[p] \in [left : SUBSET Procs, beaten : BOOLEAN]
          BY <1>1 DEF World
        <4> DEFINE b == [ballot[p] EXCEPT !.left = {q \in Procs : owner[q] # "none"}]
        <4>2. b \in [left : SUBSET Procs, beaten : BOOLEAN]
          BY <4>1
        <4>3. ballot' = [ballot EXCEPT ![p] = b]
          BY <3>2 DEF List
        <4> HIDE DEF b
        <4> QED
          BY <1>1, <4>2, <4>3 DEF World
      <3>3. CASE Scan(p)
        <4>1. ballot[p] \in [left : SUBSET Procs, beaten : BOOLEAN]
          BY <1>1 DEF World
        <4>2. PICK q \in ballot[p].left :
                ballot' = [ballot EXCEPT ![p] = [left |-> @.left \ {q}, beaten |-> @.beaten \/ (PidInUse(q) /\ Beats(q, p))]]
          BY <3>3 DEF Scan
        <4> DEFINE b == [left |-> ballot[p].left \ {q}, beaten |-> ballot[p].beaten \/ (PidInUse(q) /\ Beats(q, p))]
        <4>3. b \in [left : SUBSET Procs, beaten : BOOLEAN]
          BY <4>1 DEF PidInUse, Alive, Beats, Older
        <4>4. ballot' = [ballot EXCEPT ![p] = b]
          BY <4>2
        <4> HIDE DEF b
        <4> QED
          BY <1>1, <4>3, <4>4 DEF World
      <3>4. CASE Decide(p)
        BY <1>1, <3>4 DEF Decide, World, NoBallot
      <3> QED
        BY <3>1, <3>2, <3>3, <3>4 DEF Elect, OwnerOpen, OwnerWrite, OwnerCheckFails, Elected
    <2>4. elders' \in [Procs -> SUBSET Procs]
      <3>1. CASE elders' = elders \/ elders' = [elders EXCEPT ![p] = {}]
        BY <1>1, <3>1 DEF World
      <3>2. CASE elders' = [q \in Procs |-> IF q = p THEN {} ELSE elders[q] \ {p}]
        BY <1>1, <3>2 DEF World
      <3> QED
        BY <3>1, <3>2 DEF Elect, OwnerOpen, OwnerWrite, OwnerCheckFails, Elected, List, Scan, Decide, history
    <2>5. reused' = reused
      BY DEF Elect, OwnerOpen, OwnerWrite, OwnerCheckFails, List, Scan, Decide
    <2>6. contested' \in {contested, contested \ {p}}
      BY DEF Elect, OwnerOpen, OwnerWrite, OwnerCheckFails, Elected, List, Scan, Decide, history
    <2> QED
      BY <1>1, <2>1, <2>2, <2>3, <2>4, <2>5, <2>6 DEF World
  <1>4. Ended(p, FALSE)
    <2>1. CASE Scan(p)
      <3>1. UNCHANGED <<run, status, at, retries>>
        BY <2>1 DEF Scan, calls
      <3>2. Goes(p, "scan")
        BY <1>1, <2>1, <3>1 DEF Goes, Framed, TypeOK, Scan
      <3> QED
        BY <1>1, <1>2, <3>1, <3>2, GoesQuietly DEF calls
    <2>2. ASSUME NEW l \in {"write", "list", "scan", "observe"}, Goto(p, l), UNCHANGED calls
          PROVE  Ended(p, FALSE)
      <3>1. Goes(p, l)
        BY <1>1, <2>2, Places, GoesTo
      <3> QED
        BY <1>1, <1>2, <2>2, <3>1, GoesQuietly
    <2>3. ASSUME NEW s \in {"failed", "outranked"}, Tell(c, s), Enter(p, Idle), UNCHANGED <<at, retries>>
          PROVE  Ended(p, FALSE)
      <3>1. Answered(c) /\ status'[c] = s
        BY <1>1, <1>2, <2>3, Tells DEF Statuses
      <3> QED
        BY <1>1, <2>3, <3>1, Idles, IdleFits DEF Ended
    <2> QED
      BY <2>1, <2>2, <2>3 DEF Elect, OwnerOpen, OwnerWrite, OwnerCheckFails, Elected, List, Decide, calls
  <1> QED
    BY <1>2, <1>3, <1>4, SlotZero, NoLockMoves, EndedKeeps

\* A section that does not take makes no difference between success and failure here.
LEMMA EndedEither ==
  ASSUME NEW p \in Procs, NEW ok \in BOOLEAN, Ended(p, ok), run[p].sec # "take",
         run[p].pc # "unlock"
  PROVE  Ended(p, FALSE)
  BY DEF Ended

\* No file changes.
LEMMA NothingKept ==
  ASSUME Unstolen, NEW p \in Procs, NEW c, NEW s, UNCHANGED <<lease, lock, lapsed>>
  PROVE  Kept(p, c, s)
  BY DEF Unstolen, Holds, InSection, Kept

LEMMA LookLeftKeeps ==
  ASSUME IInv, NEW p \in Procs, LookLeft(p)
  PROVE  IInv'
  <1> DEFINE s == run[p].slot
  <1>0. PICK c : c = run[p].call
    OBVIOUS
  <1>1. TypeOK /\ Orderly /\ Fits(p) /\ World /\ Serves(p, c)
    BY <1>0, OwnFrame, WorldIs, ServesOwn DEF IInv
  <1>2. /\ run[p].pc = "look" /\ run[p].sec = "release" /\ c \in Calls /\ s = at[c]
        /\ retries[c] < Retries /\ Alive(p) /\ run[p].pc \notin Sections /\ s \in Slots
    BY <1>0, <1>1, OwnFrame DEF LookLeft, Fits, Alive, Sections
  <1>3. UNCHANGED <<owner, ballot, elders, reused, contested, lease, lock, at, retries, lapsed, stolen>>
    BY DEF LookLeft, election, history
  <1>4. World'
    BY <1>1, <1>3 DEF World
  <1>5. Enter(p, Idle)
    BY DEF LookLeft
  <1>6. Framed(p) /\ Fits(p)' /\ run'[p].pc \notin Sections \cup {"dead"}
    BY <1>1, <1>5, Idles, IdleFits
  <1>7. CASE Tell(c, "released")
    <2>1. Answered(c) /\ status'[c] = "released"
      BY <1>1, <1>2, <1>3, <1>7, Tells DEF Statuses
    <2>2. Ended(p, FALSE)
      BY <1>0, <1>6, <2>1 DEF Ended
    <2> QED
      BY <1>0, <1>2, <1>3, <1>4, <2>2, SlotZero, NoLockMoves, EndedKeeps
  <1>8. CASE lease[s].by = c /\ ~lease[s].blank /\ Tell(c, "sleeping")
    <2>1. Answered(c) /\ status'[c] = "sleeping"
      BY <1>1, <1>2, <1>3, <1>8, Tells DEF Statuses
    <2>2. TypeOK'
      BY <1>4, <1>6, <2>1, StepTypes
    <2>3. Orderly'
      BY <1>1, <1>2, <1>3, <1>6, <2>1, StepOrderly
    <2>4. ASSUME ~stolen' PROVE Unstolen'
      <3>1. Unstolen
        BY <1>3, <2>4 DEF IInv
      <3>2. Kept(p, c, s)
        BY <1>3, <3>1, NothingKept
      <3>3. Placed(c)'
        BY <2>1 DEF Placed
      <3>4. Owned(c)'
        BY <1>2, <1>3, <1>8 DEF Owned
      <3> QED
        BY <1>1, <1>2, <1>6, <2>1, <3>1, <3>2, <3>3, <3>4, Outside, StepUnstolen
    <2> QED
      BY <2>2, <2>3, <2>4 DEF IInv
  <1> QED
    BY <1>0, <1>7, <1>8 DEF LookLeft

LEMMA ReadingKeeps ==
  ASSUME IInv, NEW p \in Procs, Read(p)
  PROVE  IInv'
  <1>1. TypeOK /\ Orderly /\ Fits(p) /\ World
    BY OwnFrame, WorldIs DEF IInv
  <1>2. CASE LookLeft(p)
    BY <1>2, LookLeftKeeps
  <1>3. CASE Observe(p) \/ LookFree(p) \/ LookOwned(p)
    <2>1. /\ run[p].pc \in {"observe", "look"} /\ Alive(p) /\ run[p].pc \notin Sections
          /\ UNCHANGED <<owner, ballot, elders, reused, contested, lease, lock, lapsed, stolen>>
      BY <1>3 DEF Observe, LookFree, LookOwned, Alive, Sections, election, history
    <2>2. World'
      BY <1>1, <2>1 DEF World
    <2>3. ASSUME Goto(p, "lock"), UNCHANGED calls PROVE Ended(p, FALSE)
      BY <1>1, <2>1, <2>3, Places, GoesTo, GoesQuietly
    <2>4. CASE Observe(p)
      <3>1. run[p].sec = "prune"
        BY <1>1, <2>4 DEF Observe, Fits
      <3> QED
        <4>1. Ended(p, FALSE)
          BY <1>1, <2>3, <2>4, <3>1, PruneEnds DEF Observe
        <4> QED
          BY <4>1, <2>1, <2>2, SlotZero, NoLockMoves, EndedKeeps
    <2>5. CASE LookFree(p)
      <3>1. run[p].sec = "take"
        BY <2>5 DEF LookFree
      <3> QED
        <4>1. Ended(p, FALSE)
          BY <1>1, <2>3, <2>5, <3>1, TakeEnds DEF LookFree
        <4> QED
          BY <4>1, <2>1, <2>2, SlotZero, NoLockMoves, EndedKeeps
    <2>6. CASE LookOwned(p)
      <3>1. run[p].sec = "renew"
        BY <2>6 DEF LookOwned
      <3>2. PICK ok \in BOOLEAN : RenewDone(p, ok)
        BY <2>6 DEF LookOwned, Live
      <3>3. Ended(p, FALSE)
        BY <1>1, <2>1, <3>1, <3>2, RenewEnds, EndedEither
      <3> QED
        BY <3>3, <2>1, <2>2, SlotZero, NoLockMoves, EndedKeeps
    <2> QED
      BY <1>3, <2>4, <2>5, <2>6
  <1> QED
    BY <1>2, <1>3 DEF Read

-----------------------------------------------------------------------------
(* The slot lock. *)

LEMMA FileTypes ==
  ASSUME TypeOK, NEW s \in Slots
  PROVE  /\ lease[s] \in Files /\ lease[s].by \in Calls \cup {NoCall} /\ lease[s].blank \in BOOLEAN
         /\ lock[s] \in Locks /\ lock[s].by \in Procs \cup {NoProc} /\ lock[s].expired \in BOOLEAN
         /\ lease[s].by = NoCall <=> lease[s] = NoLease
         /\ lock[s].by = NoProc <=> lock[s] = NoLock
  <1>1. lease[s] \in Files /\ lock[s] \in Locks
    BY DEF TypeOK
  <1>2. NoCall \notin Calls /\ NoProc \notin Procs
    OBVIOUS
  <1>3. CASE lease[s] \in [by : Calls, blank : BOOLEAN] /\ lock[s] \in [by : Procs, expired : BOOLEAN]
    BY <1>1, <1>2, <1>3 DEF NoLease, NoLock
  <1>4. CASE lease[s] = NoLease /\ lock[s] \in [by : Procs, expired : BOOLEAN]
    BY <1>1, <1>2, <1>4 DEF NoLease, NoLock
  <1>5. CASE lease[s] \in [by : Calls, blank : BOOLEAN] /\ lock[s] = NoLock
    BY <1>1, <1>2, <1>5 DEF NoLease, NoLock
  <1>6. CASE lease[s] = NoLease /\ lock[s] = NoLock
    BY <1>1, <1>2, <1>6 DEF NoLease, NoLock
  <1> QED
    BY <1>1, <1>3, <1>4, <1>5, <1>6 DEF Files, Locks

LEMMA LockKeeps ==
  ASSUME IInv, NEW p \in Procs, Lock(p)
  PROVE  IInv'
  <1>0. PICK c, s : c = run[p].call /\ s = run[p].slot
    OBVIOUS
  <1>1. TypeOK /\ Orderly /\ Fits(p) /\ World /\ s \in Slots /\ run[p].sec \in {"prune", "take", "renew", "release"}
    BY <1>0, OwnFrame, WorldIs DEF IInv
  <1>2. /\ run[p].pc = "lock" /\ Alive(p) /\ run[p].pc \notin Sections
        /\ UNCHANGED <<owner, ballot, elders, reused, contested, lease, status, at, retries, lapsed, stolen>> /\ UNCHANGED calls
    BY DEF Lock, Alive, Sections, election, history, calls
  <1>3. CASE lock[s] # NoLock
    <2>1. UNCHANGED lock /\ Goto(p, "inspect")
      BY <1>0, <1>3 DEF Lock
    <2>2. World'
      BY <1>1, <1>2, <2>1 DEF World
    <2>3. Ended(p, FALSE)
      BY <1>1, <1>2, <2>1, Places, GoesTo, GoesQuietly
    <2> QED
      BY <1>2, <2>1, <2>2, <2>3, SlotZero, NoLockMoves, EndedKeeps
  <1>4. CASE lock[s] = NoLock
    <2>1. /\ lock' = [lock EXCEPT ![s] = [by |-> p, expired |-> FALSE]]
          /\ Enter(p, [run[p] EXCEPT !.pc = Entry[run[p].sec], !.second = FALSE])
      BY <1>0, <1>4 DEF Lock
    <2>2. PICK l \in {"recheck", "create", "verify"} :
            /\ Enter(p, [run[p] EXCEPT !.pc = l, !.second = FALSE])
            /\ l = "recheck" => run[p].sec \in {"prune", "release"}
            /\ l = "create" => run[p].sec = "take"
            /\ l = "verify" => run[p].sec = "renew"
      BY <1>1, <2>1, EntryIs
    <2>3. Goes(p, l) /\ run'[p].ok = run[p].ok
      BY <1>1, <2>2, Places, GoesIn
    <2>4. World'
      BY <1>1, <1>2, <2>1 DEF World, Locks
    <2>5. Fits(p)'
      BY <1>1, <1>2, <2>2, <2>3 DEF Fits, Goes
    <2>6. ASSUME Unstolen
          PROVE  /\ Kept(p, c, s) /\ Holds(p)' /\ Knows(p)'
                 /\ c \in Calls => Placed(c)' /\ Owned(c)'
      <3>1. \A q \in Procs \ {p} : ~InSection(q, s)
        BY <1>4, <2>6 DEF Unstolen, Holds, InSection, NoLock
      <3>2. Kept(p, c, s)
        BY <1>1, <1>2, <2>1, <3>1 DEF Kept, World
      <3>3. Holds(p)' /\ Knows(p)'
        BY <1>0, <1>1, <2>1, <2>2, <2>3 DEF Holds, Knows, Goes, World
      <3>4. ASSUME c \in Calls PROVE Placed(c)' /\ Owned(c)'
        <4>1. ProcOf[c] = p /\ Placed(c) /\ Owned(c)
          BY <1>0, <1>1, <2>6, <3>4 DEF Fits, Unstolen
        <4>2. Placed(c)'
          BY <1>2, <4>1, <2>3 DEF Placed, Alive
        <4>3. Owned(c)'
          BY <1>2, <4>1, <2>3 DEF Owned, Holders, Alive, Torn
        <4> QED
          BY <4>2, <4>3
      <3> QED
        BY <3>2, <3>3, <3>4
    <2> QED
      BY <1>0, <1>2, <2>3, <2>4, <2>5, <2>6, InsideKeeps
  <1> QED
    BY <1>3, <1>4

\* A lock is left as it is, or it is the process's own and goes.
LEMMA FreedIs ==
  ASSUME NEW p, NEW s, lock' \in Freed(p, s)
  PROVE  lock' = lock \/ (lock[s].by = p /\ lock' = [lock EXCEPT ![s] = NoLock])
  BY DEF Freed

LEMMA LockStepKeeps ==
  ASSUME IInv, NEW p \in Procs, LockStep(p)
  PROVE  IInv'
  <1>0. PICK c, s : c = run[p].call /\ s = run[p].slot
    OBVIOUS
  <1>1. TypeOK /\ Orderly /\ Fits(p) /\ World /\ s \in Slots /\ run[p].ok \in BOOLEAN
    BY <1>0, OwnFrame, WorldIs DEF IInv
  <1>2. CASE Lock(p)
    BY <1>2, LockKeeps
  <1>3. CASE Inspect(p) \/ EvictFails(p)
    <2>1. /\ run[p].pc \in {"inspect", "evict"} /\ Alive(p) /\ run[p].pc \notin Sections
          /\ UNCHANGED <<owner, ballot, elders, reused, contested, lease, lock, lapsed, stolen>>
      BY <1>3 DEF EvictFails, Inspect, Alive, Sections, election, history
    <2>2. World'
      BY <1>1, <2>1 DEF World
    <2>3. CASE LockRefused(p)
      <3>1. Ended(p, FALSE)
        BY <1>1, <2>1, <2>3, RefusalEnds
      <3> QED
        BY <2>1, <2>2, <3>1, SlotZero, NoLockMoves, EndedKeeps
    <2>4. CASE Goto(p, "evict") /\ UNCHANGED calls
      <3>1. Ended(p, FALSE)
        BY <1>1, <2>1, <2>4, Places, GoesTo, GoesQuietly
      <3> QED
        BY <2>1, <2>2, <3>1, SlotZero, NoLockMoves, EndedKeeps
    <2> QED
      BY <1>3, <2>3, <2>4 DEF EvictFails, Inspect
  <1>6. CASE LockFails(p)
    <2>1. /\ run[p].pc = "lock" /\ Alive(p) /\ run[p].pc \notin Sections
          /\ UNCHANGED <<owner, ballot, elders, reused, contested, lease, lapsed, stolen>>
          /\ lock[s] = NoLock
          /\ lock' = lock \/ lock' = [lock EXCEPT ![s] = [by |-> p, expired |-> FALSE]]
      BY <1>0, <1>6 DEF LockFails, Alive, Sections, election, history
    <2>2. World'
      <3>1. [by |-> p, expired |-> FALSE] \in Locks
        BY DEF Locks
      <3>2. lock' \in [Slots -> Locks]
        BY <1>1, <2>1, <3>1 DEF World
      <3> QED
        BY <1>1, <2>1, <3>2 DEF World
    <2>3. Ended(p, FALSE)
      BY <1>1, <1>6, <2>1, RefusalEnds DEF LockFails
    <2>4. OneLock(p, s)
      BY <1>1, <2>1 DEF World, OneLock, NoLock
    <2> QED
      BY <1>1, <2>1, <2>2, <2>3, <2>4, EndedKeeps
  <1>4. CASE Evict(p)
    <2>1. /\ run[p].pc = "evict" /\ Alive(p) /\ run[p].pc \notin Sections
          /\ UNCHANGED <<owner, ballot, elders, reused, contested, lease, lapsed>>
          /\ lock' = [lock EXCEPT ![s] = NoLock]
          /\ stolen' = (stolen \/ \E q \in Procs : lock[s].by = q /\ InSection(q, s))
      BY <1>0, <1>4 DEF Evict, Alive, Sections, election, history
    <2>2. World'
      <3>1. stolen' \in BOOLEAN
        BY <2>1
      <3>2. lock' \in [Slots -> Locks]
        BY <1>1, <2>1 DEF World, Locks
      <3> QED
        BY <1>1, <2>1, <3>1, <3>2 DEF World
    <2>3. Ended(p, FALSE)
      <3>1. CASE LockRefused(p)
        BY <1>1, <2>1, <3>1, RefusalEnds
      <3>2. CASE Enter(p, [run[p] EXCEPT !.pc = "lock", !.second = TRUE]) /\ UNCHANGED calls
        BY <1>1, <2>1, <3>2, GoesAgain, GoesQuietly
      <3> QED
        BY <1>4, <3>1, <3>2 DEF Evict
    <2>4. OneLock(p, s)
      BY <1>1, <2>1 DEF World, OneLock
    <2>5. ~stolen' => ~stolen
      BY <2>1
    <2> QED
      BY <1>1, <2>1, <2>2, <2>3, <2>4, <2>5, EndedKeeps
  <1>5. CASE Unlock(p)
    <2>1. /\ run[p].pc = "unlock" /\ Alive(p)
          /\ UNCHANGED <<owner, ballot, elders, reused, contested, lease, lapsed, stolen>>
          /\ lock' = lock \/ (lock[s].by = p /\ lock' = [lock EXCEPT ![s] = NoLock])
      BY <1>0, <1>5, FreedIs DEF Unlock, Alive, election, history
    <2>2. World'
      BY <1>1, <2>1 DEF World, Locks
    <2>3. PICK ok \in BOOLEAN : ok = run[p].ok /\ Ended(p, ok)
      BY <1>1, <1>5, SectionEnds DEF Unlock
    <2>4. OneLock(p, s)
      BY <1>1, <2>1 DEF World, OneLock
    <2> QED
      BY <1>1, <2>1, <2>2, <2>3, <2>4, EndedKeeps
  <1> QED
    BY <1>2, <1>3, <1>4, <1>5, <1>6 DEF LockStep

-----------------------------------------------------------------------------
(* The sections. *)

\* Where a process in its section is, and that the lock of the slot is its own.
LEMMA AtWork ==
  ASSUME TypeOK, Orderly, NEW p \in Procs, run[p].pc \in Sections, NEW c, c = run[p].call,
         NEW s, s = run[p].slot
  PROVE  /\ Fits(p) /\ World /\ s \in Slots /\ c \in Calls \cup {NoCall} /\ Alive(p)
         /\ InSection(p, s)
         /\ c \in Calls => ProcOf[c] = p
         /\ Unstolen => Holds(p) /\ Knows(p) /\ lock[s].by = p
  BY OwnFrame, WorldIs DEF Fits, Alive, Sections, InSection, Unstolen, Holds

\* No lease file but the slot's changes, and that one not if it is another call's and counts.
OneLease(c, s) ==
  /\ lease' \in [Slots -> Files]
  /\ \A t \in Slots \ {s} : lease'[t] = lease[t]
  /\ Unstolen => \/ lease'[s] = lease[s]
                 \/ /\ lease'[s].by \in {c, NoCall}
                    /\ \A d \in Holders \ {c} : lease[s].by = d => at[d] # s

\* Inside a section only the lease file of its slot changes, and the lock stays.
LEMMA WorkKeeps ==
  ASSUME IInv, NEW p \in Procs, run[p].pc \in Sections,
         NEW c, c = run[p].call, NEW s, s = run[p].slot,
         NEW l \in Sections, Goes(p, l), UNCHANGED calls, Fits(p)',
         UNCHANGED <<owner, ballot, elders, reused, contested, lock, stolen>>, OneLease(c, s),
         \/ lapsed' = lapsed
         \/ lapsed' = lapsed \ {c} /\ c \in Calls /\ status[c] = "held" /\ at[c] = s,
         Unstolen => /\ Knows(p)'
                     /\ c \in Calls => Placed(c)' /\ Owned(c)'
  PROVE  IInv'
  <1>1. /\ Fits(p) /\ World /\ s \in Slots /\ Alive(p) /\ InSection(p, s)
        /\ Unstolen => Holds(p) /\ Knows(p) /\ lock[s].by = p
    BY AtWork DEF IInv
  <1>2. World'
    BY <1>1 DEF World, OneLease
  <1>3. ASSUME Unstolen PROVE Kept(p, c, s) /\ Holds(p)'
    <2>1. \A q \in Procs \ {p} : InSection(q, s) => lock'[s].by = q
      BY <1>3 DEF Unstolen, Holds, InSection
    <2>2. Holds(p)'
      BY <1>1, <1>3 DEF Holds, Goes
    <2> QED
      BY <1>1, <1>3, <2>1, <2>2 DEF Kept, OneLease
  <1> QED
    BY <1>1, <1>2, <1>3, InsideKeeps

\* A step that reads, in a section: nothing changes but the place in it.
LEMMA ReadKeeps ==
  ASSUME IInv, NEW p \in Procs, run[p].pc \in Sections \ {"fill", "refill", "unlock"},
         NEW l \in Sections, Goes(p, l), UNCHANGED calls, Fits(p)',
         UNCHANGED <<owner, ballot, elders, reused, contested, lease, lock, lapsed, stolen>>,
         Unstolen => Knows(p)'
  PROVE  IInv'
  <1>0. PICK c, s : c = run[p].call /\ s = run[p].slot
    OBVIOUS
  <1>1. /\ run[p].pc \in Sections /\ TypeOK /\ Orderly /\ Alive(p)
        /\ c \in Calls => ProcOf[c] = p
    BY <1>0, AtWork DEF IInv
  <1>2. ASSUME Unstolen, c \in Calls PROVE Placed(c)' /\ Owned(c)'
    <2>1. ProcOf[c] = p /\ Placed(c) /\ Owned(c)
      BY <1>1, <1>2 DEF Unstolen
    <2>2. Placed(c)'
      BY <1>1, <2>1 DEF Placed, calls
    <2>3. Owned(c)'
      BY <2>1 DEF Owned, Holders, calls, Alive, Goes, Sections, Torn
    <2> QED
      BY <2>2, <2>3
  <1>3. OneLease(c, s)
    BY <1>1 DEF OneLease, TypeOK
  <1> QED
    BY <1>0, <1>1, <1>2, <1>3, WorkKeeps

LEMMA RecheckKeeps ==
  ASSUME IInv, NEW p \in Procs, Recheck(p)
  PROVE  IInv'
  <1>1. TypeOK /\ Orderly /\ Fits(p) /\ run[p].pc = "recheck" /\ run[p].pc \in Sections
    BY OwnFrame DEF Recheck, Sections, IInv
  <1>2. UNCHANGED <<owner, ballot, elders, reused, contested, lease, lock, lapsed, stolen>> /\ UNCHANGED calls
    BY DEF Recheck, election, history
  <1>3. CASE Return(p, FALSE)
    <2>1. Goes(p, "unlock") /\ run'[p].ok = FALSE
      BY <1>1, <1>3, GoesBack
    <2>2. Fits(p)' /\ Knows(p)'
      BY <1>1, <1>2, <2>1 DEF Fits, Knows, Goes, calls
    <2> QED
      BY <1>1, <1>2, <2>1, <2>2, ReadKeeps DEF Sections
  <1>4. CASE /\ Goto(p, "drop")
             /\ \/ run[p].sec = "prune" /\ ~Live(run[p].slot)
                \/ run[p].sec = "release" /\ lease[run[p].slot] = [by |-> run[p].call, blank |-> FALSE]
    <2>1. Goes(p, "drop")
      BY <1>1, <1>4, Places, GoesTo
    <2>2. Fits(p)' /\ Knows(p)'
      BY <1>1, <1>2, <1>4, <2>1 DEF Fits, Knows, Goes, calls, Live
    <2> QED
      BY <1>1, <1>2, <2>1, <2>2, ReadKeeps DEF Sections
  <1> QED
    BY <1>3, <1>4 DEF Recheck

LEMMA VerifyKeeps ==
  ASSUME IInv, NEW p \in Procs, Verify(p)
  PROVE  IInv'
  <1>1. TypeOK /\ Orderly /\ Fits(p) /\ run[p].pc = "verify" /\ run[p].pc \in Sections
    BY OwnFrame DEF Verify, Sections, IInv
  <1>2. UNCHANGED <<owner, ballot, elders, reused, contested, lease, lock, lapsed, stolen>> /\ UNCHANGED calls
    BY DEF Verify, election, history
  <1>3. CASE Return(p, FALSE)
    <2>1. Goes(p, "unlock") /\ run'[p].ok = FALSE
      BY <1>1, <1>3, GoesBack
    <2>2. Fits(p)' /\ Knows(p)'
      BY <1>1, <1>2, <2>1 DEF Fits, Knows, Goes, calls
    <2> QED
      BY <1>1, <1>2, <2>1, <2>2, ReadKeeps DEF Sections
  <1>4. CASE Goto(p, "rewrite") /\ Live(run[p].slot) /\ lease[run[p].slot].by = run[p].call
    <2>1. Goes(p, "rewrite")
      BY <1>1, <1>4, Places, GoesTo
    <2>2. Fits(p)' /\ Knows(p)'
      BY <1>1, <1>2, <1>4, <2>1 DEF Fits, Knows, Goes, calls, Live
    <2> QED
      BY <1>1, <1>2, <2>1, <2>2, ReadKeeps DEF Sections
  <1> QED
    BY <1>3, <1>4 DEF Verify

\* A lease that counts is not what a prune drops, nor what a release finds its own.
LEMMA DropKeeps ==
  ASSUME IInv, NEW p \in Procs, Drop(p)
  PROVE  IInv'
  <1>0. PICK c, s : c = run[p].call /\ s = run[p].slot
    OBVIOUS
  <1>1. /\ TypeOK /\ Orderly /\ Fits(p) /\ run[p].pc = "drop" /\ run[p].pc \in Sections
        /\ run[p].sec \in {"prune", "release"} /\ s \in Slots
    BY <1>0, OwnFrame DEF Drop, Sections, IInv, Fits
  <1>2. /\ UNCHANGED <<owner, ballot, elders, reused, contested, lock, lapsed, stolen>> /\ UNCHANGED calls
        /\ lease' = [lease EXCEPT ![s] = NoLease]
    BY <1>0 DEF Drop, election, history
  <1>3. PICK ok \in BOOLEAN : Return(p, ok)
    BY DEF Drop
  <1>4. Goes(p, "unlock")
    BY <1>1, <1>3, GoesBack
  <1>5. Fits(p)'
    BY <1>1, <1>2, <1>4 DEF Fits, Goes, calls
  <1>6. /\ lease' \in [Slots -> Files] /\ \A t \in Slots \ {s} : lease'[t] = lease[t]
        /\ lease'[s] = NoLease
    BY <1>0, <1>1, <1>2, OwnFrame DEF TypeOK, Files
  <1>7. ASSUME Unstolen PROVE \A d \in Holders \ {c} : lease[s].by = d => at[d] # s
    <2> SUFFICES ASSUME NEW d \in Holders \ {c}, lease[s].by = d, at[d] = s PROVE FALSE
      OBVIOUS
    <2> DEFINE q == ProcOf[d]
    <2>1. d \in Calls /\ d # NoCall /\ d \notin lapsed /\ q \in Procs
      BY DEF Holders
    <2>2. run[p].sec = "prune" /\ ~Live(s) /\ lock[s].by = p
      BY <1>0, <1>1, <1>7 DEF Unstolen, Knows, Holds
    <2>3. lease[s].blank
      BY <2>1, <2>2 DEF Live, NoLease
    <2>4. Torn(q) /\ run[q].call = d
      BY <1>7, <2>1, <2>3 DEF Unstolen, Owned
    <2>5. run[q].slot = s
      BY <1>1, <2>1, <2>4 DEF Orderly, Fits, Torn
    <2>6. lock[s].by = q
      BY <1>7, <2>1, <2>4, <2>5 DEF Unstolen, Holds, Sections, Torn
    <2> QED
      BY <1>1, <2>2, <2>4, <2>6 DEF Torn
  <1>8. Knows(p)'
    BY <1>1, <1>4 DEF Knows, Goes
  <1>9. ASSUME Unstolen, c \in Calls PROVE Placed(c)' /\ Owned(c)'
    <2>1. ProcOf[c] = p /\ Placed(c)
      BY <1>0, <1>1, <1>9 DEF Unstolen, Fits
    <2>2. Placed(c)'
      <3>1. \A t \in Slots : lease'[t].by = c => lease[t].by = c
        BY <1>6, <1>9 DEF NoLease
      <3> QED
        BY <1>1, <1>2, <2>1, <3>1 DEF Placed, calls, Alive
    <2>3. Owned(c)'
      BY <1>0, <1>1, <1>2, <1>9 DEF Owned, Holders, calls, Fits
    <2> QED
      BY <2>2, <2>3
  <1>10. OneLease(c, s)
    BY <1>6, <1>7 DEF OneLease, NoLease
  <1>11. "unlock" \in Sections
    BY DEF Sections
  <1> QED
    BY <1>0, <1>1, <1>2, <1>4, <1>5, <1>8, <1>9, <1>10, <1>11, WorkKeeps

LEMMA CreateKeeps ==
  ASSUME IInv, NEW p \in Procs, Create(p)
  PROVE  IInv'
  <1>0. PICK c, s : c = run[p].call /\ s = run[p].slot
    OBVIOUS
  <1>1. /\ TypeOK /\ Orderly /\ Fits(p) /\ run[p].pc = "create" /\ run[p].pc \in Sections
        /\ run[p].sec = "take" /\ s \in Slots /\ c \in Calls /\ ProcOf[c] = p /\ status[c] = "asking"
    BY <1>0, OwnFrame DEF Create, Sections, IInv, Fits
  <1>2. /\ UNCHANGED <<owner, ballot, elders, reused, contested, lock, lapsed, stolen>> /\ UNCHANGED calls
    BY DEF Create, election, history
  <1>3. CASE lease[s] # NoLease
    <2>1. UNCHANGED lease /\ Return(p, FALSE)
      BY <1>0, <1>3 DEF Create
    <2>2. Goes(p, "unlock") /\ run'[p].ok = FALSE
      BY <1>1, <2>1, GoesBack
    <2>3. Fits(p)' /\ Knows(p)'
      BY <1>0, <1>1, <1>2, <2>2 DEF Fits, Knows, Goes, calls
    <2> QED
      BY <1>1, <1>2, <2>1, <2>2, <2>3, ReadKeeps DEF Sections
  <1>4. CASE lease[s] = NoLease
    <2>1. lease' = [lease EXCEPT ![s] = [by |-> c, blank |-> TRUE]] /\ Goto(p, "fill")
      BY <1>0, <1>4 DEF Create
    <2>2. Goes(p, "fill")
      BY <1>1, <2>1, Places, GoesTo
    <2>3. /\ lease' \in [Slots -> Files] /\ \A t \in Slots \ {s} : lease'[t] = lease[t]
          /\ lease'[s] = [by |-> c, blank |-> TRUE]
      BY <1>1, <2>1 DEF TypeOK, Files
    <2>4. Fits(p)'
      BY <1>0, <1>1, <1>2, <2>2 DEF Fits, Goes, calls
    <2>5. Knows(p)'
      BY <1>0, <2>2, <2>3 DEF Knows, Goes
    <2>6. \A d \in Holders \ {c} : lease[s].by = d => at[d] # s
      BY <1>4 DEF Holders, NoLease
    <2>7. ASSUME Unstolen PROVE Placed(c)' /\ Owned(c)'
      <3>1. \A t \in Slots : lease[t].by # c
        BY <1>1, <2>7 DEF Unstolen, Placed, Alive
      <3>2. \A t \in Slots : lease'[t].by = c => t = s
        BY <2>3, <3>1
      <3>3. Placed(c)'
        BY <1>0, <1>1, <1>2, <2>2, <3>2 DEF Placed, calls, Goes
      <3>4. Owned(c)'
        BY <1>1, <1>2 DEF Owned, Holders, calls
      <3> QED
        BY <3>3, <3>4
    <2>8. OneLease(c, s)
      BY <2>3, <2>6 DEF OneLease
    <2>9. "fill" \in Sections
      BY DEF Sections
    <2> QED
      BY <1>0, <1>1, <1>2, <2>2, <2>4, <2>5, <2>7, <2>8, <2>9, WorkKeeps
  <1> QED
    BY <1>3, <1>4

\* The lease file of s is written if it is the call's own.
LEMMA Written ==
  ASSUME TypeOK, NEW c \in Calls, NEW s \in Slots,
         lease' = IF lease[s].by = c THEN [lease EXCEPT ![s].blank = FALSE] ELSE lease
  PROVE  /\ lease' \in [Slots -> Files] /\ \A t \in Slots \ {s} : lease'[t] = lease[t]
         /\ lease'[s].by = lease[s].by
         /\ lease[s].by = c => ~lease'[s].blank
  <1>1. lease \in [Slots -> Files] /\ lease[s] \in Files
    BY DEF TypeOK
  <1>2. CASE lease[s].by = c
    <2>1. lease[s] \in [by : Calls, blank : BOOLEAN]
      BY <1>1, <1>2 DEF Files, NoLease
    <2> DEFINE file == [lease[s] EXCEPT !.blank = FALSE]
    <2>2. file \in Files /\ file.by = lease[s].by /\ ~file.blank
      BY <2>1 DEF Files
    <2>3. lease' = [lease EXCEPT ![s] = file]
      BY <1>2
    <2> HIDE DEF file
    <2> QED
      BY <1>1, <2>2, <2>3
  <1>3. CASE lease[s].by # c
    BY <1>1, <1>3
  <1> QED
    BY <1>2, <1>3

LEMMA FillKeeps ==
  ASSUME IInv, NEW p \in Procs, Fill(p)
  PROVE  IInv'
  <1>0. PICK c, s : c = run[p].call /\ s = run[p].slot
    OBVIOUS
  <1>1. /\ TypeOK /\ Orderly /\ Fits(p) /\ run[p].pc = "fill" /\ run[p].pc \in Sections
        /\ run[p].sec = "take" /\ s \in Slots /\ c \in Calls /\ ProcOf[c] = p /\ status[c] = "asking"
    BY <1>0, OwnFrame DEF Fill, Sections, IInv, Fits
  <1>2. /\ UNCHANGED <<owner, ballot, elders, reused, contested, lock, lapsed, stolen>> /\ UNCHANGED calls
        /\ lease' = IF lease[s].by = c THEN [lease EXCEPT ![s].blank = FALSE] ELSE lease
    BY <1>0 DEF Fill, election, history
  <1>3. Goes(p, "unlock") /\ run'[p].ok = TRUE
    BY <1>1, GoesBack DEF Fill
  <1>4. Fits(p)'
    BY <1>0, <1>1, <1>2, <1>3 DEF Fits, Goes, calls
  <1>5. /\ lease' \in [Slots -> Files] /\ \A t \in Slots \ {s} : lease'[t] = lease[t]
        /\ lease'[s].by = lease[s].by
        /\ lease[s].by = c => ~lease'[s].blank
    BY <1>1, <1>2, Written
  <1>6. Unstolen => lease[s].by = c
    BY <1>0, <1>1 DEF Unstolen, Knows
  <1>7. Unstolen => Knows(p)'
    BY <1>0, <1>3, <1>5, <1>6 DEF Knows, Goes
  <1>8. ASSUME Unstolen PROVE Placed(c)' /\ Owned(c)'
    <2>1. \A t \in Slots : lease[t].by = c => t = s
      BY <1>0, <1>1, <1>8 DEF Unstolen, Placed, Alive
    <2>2. \A t \in Slots : lease'[t].by = c => t = s
      BY <1>5, <2>1
    <2>3. Placed(c)'
      BY <1>0, <1>1, <1>2, <1>3, <2>2 DEF Placed, calls, Goes
    <2>4. Owned(c)'
      BY <1>1, <1>2 DEF Owned, Holders, calls
    <2> QED
      BY <2>3, <2>4
  <1>9. OneLease(c, s)
    BY <1>5, <1>6 DEF OneLease
  <1>10. "unlock" \in Sections
    BY DEF Sections
  <1> QED
    BY <1>0, <1>1, <1>2, <1>3, <1>4, <1>7, <1>8, <1>9, <1>10, WorkKeeps

LEMMA FillFailsKeeps ==
  ASSUME IInv, NEW p \in Procs, FillFails(p)
  PROVE  IInv'
  <1>0. PICK c, s : c = run[p].call /\ s = run[p].slot
    OBVIOUS
  <1>1. /\ TypeOK /\ Orderly /\ Fits(p) /\ World /\ run[p].pc \in {"create", "fill"} /\ Alive(p)
        /\ run[p].sec = "take" /\ s \in Slots /\ c \in Calls
    BY <1>0, OwnFrame, WorldIs DEF FillFails, IInv, Fits, Alive
  <1>2. /\ UNCHANGED <<owner, ballot, elders, reused, contested, lease, lapsed, stolen>> /\ UNCHANGED <<at, retries>>
        /\ lock' = lock \/ (lock[s].by = p /\ lock' = [lock EXCEPT ![s] = NoLock])
        /\ Tell(c, "failed") /\ Enter(p, Idle)
    BY <1>0, FreedIs DEF FillFails, election, history
  <1>3. World' /\ OneLock(p, s)
    BY <1>1, <1>2 DEF World, Locks, OneLock
  <1>4. Answered(c) /\ status'[c] = "failed"
    BY <1>1, <1>2, Tells DEF Statuses
  <1>5. PICK ok \in BOOLEAN : Ended(p, ok)
    BY <1>0, <1>1, <1>2, <1>4, Idles, IdleFits DEF Ended
  <1> QED
    BY <1>0, <1>1, <1>2, <1>3, <1>4, <1>5, EndedKeeps

LEMMA RewriteKeeps ==
  ASSUME IInv, NEW p \in Procs, Rewrite(p)
  PROVE  IInv'
  <1>0. PICK c, s : c = run[p].call /\ s = run[p].slot
    OBVIOUS
  <1>1. /\ TypeOK /\ Orderly /\ Fits(p) /\ run[p].pc = "rewrite" /\ run[p].pc \in Sections
        /\ run[p].sec = "renew" /\ s \in Slots /\ c \in Calls /\ ProcOf[c] = p
        /\ status[c] = "held" /\ at[c] = s
    BY <1>0, OwnFrame DEF Rewrite, Sections, IInv, Fits
  <1>2. /\ UNCHANGED <<owner, ballot, elders, reused, contested, lock, lapsed, stolen>> /\ UNCHANGED calls
        /\ lease' = [lease EXCEPT ![s] = [by |-> c, blank |-> TRUE]]
    BY <1>0 DEF Rewrite, election, history
  <1>3. Goes(p, "refill")
    BY <1>1, Places, GoesTo DEF Rewrite
  <1>4. Fits(p)'
    BY <1>0, <1>1, <1>2, <1>3 DEF Fits, Goes, calls
  <1>5. /\ lease' \in [Slots -> Files] /\ \A t \in Slots \ {s} : lease'[t] = lease[t]
        /\ lease'[s] = [by |-> c, blank |-> TRUE]
    BY <1>1, <1>2 DEF TypeOK, Files
  <1>6. Unstolen => lease[s].by = c
    BY <1>0, <1>1 DEF Unstolen, Knows
  <1>7. Knows(p)'
    BY <1>0, <1>3, <1>5 DEF Knows, Goes
  <1>8. ASSUME Unstolen PROVE Placed(c)' /\ Owned(c)'
    <2>1. Placed(c) /\ \A t \in Slots : lease'[t].by = c => lease[t].by = c
      BY <1>1, <1>5, <1>6, <1>8 DEF Unstolen
    <2>2. Placed(c)'
      BY <1>1, <1>2, <2>1 DEF Placed, calls
    <2>3. Owned(c)'
      BY <1>0, <1>1, <1>2, <1>3, <1>5 DEF Owned, calls, Goes, Torn
    <2> QED
      BY <2>2, <2>3
  <1>9. OneLease(c, s)
    BY <1>5, <1>6 DEF OneLease
  <1>10. "refill" \in Sections
    BY DEF Sections
  <1> QED
    BY <1>0, <1>1, <1>2, <1>3, <1>4, <1>7, <1>8, <1>9, <1>10, WorkKeeps

LEMMA RefillKeeps ==
  ASSUME IInv, NEW p \in Procs, Refill(p)
  PROVE  IInv'
  <1>0. PICK c, s : c = run[p].call /\ s = run[p].slot
    OBVIOUS
  <1>1. /\ TypeOK /\ Orderly /\ Fits(p) /\ run[p].pc = "refill" /\ run[p].pc \in Sections
        /\ run[p].sec = "renew" /\ s \in Slots /\ c \in Calls /\ ProcOf[c] = p
        /\ status[c] = "held" /\ at[c] = s
    BY <1>0, OwnFrame DEF Refill, Sections, IInv, Fits
  <1>2. /\ UNCHANGED <<owner, ballot, elders, reused, contested, lock, stolen>> /\ UNCHANGED calls
        /\ lease' = IF lease[s].by = c THEN [lease EXCEPT ![s].blank = FALSE] ELSE lease
        /\ lapsed' = lapsed \ {c}
    BY <1>0 DEF Refill, election, history
  <1>3. Goes(p, "unlock")
    <2>1. PICK ok \in BOOLEAN : Return(p, ok)
      BY DEF Refill
    <2> QED
      BY <1>1, <2>1, GoesBack
  <1>4. Fits(p)'
    BY <1>0, <1>1, <1>2, <1>3 DEF Fits, Goes, calls
  <1>5. /\ lease' \in [Slots -> Files] /\ \A t \in Slots \ {s} : lease'[t] = lease[t]
        /\ lease'[s].by = lease[s].by
        /\ lease[s].by = c => ~lease'[s].blank
    BY <1>1, <1>2, Written
  <1>6. Unstolen => lease[s].by = c
    BY <1>0, <1>1 DEF Unstolen, Knows
  <1>7. Knows(p)'
    BY <1>0, <1>1, <1>3 DEF Knows, Goes
  <1>8. ASSUME Unstolen PROVE Placed(c)' /\ Owned(c)'
    <2>1. Placed(c) /\ \A t \in Slots : lease'[t].by = c => lease[t].by = c
      BY <1>1, <1>5, <1>8 DEF Unstolen
    <2>2. Placed(c)'
      BY <1>1, <1>2, <2>1 DEF Placed, calls
    <2>3. Owned(c)'
      BY <1>0, <1>1, <1>2, <1>3, <1>5, <1>6, <1>8 DEF Owned, calls, Goes
    <2> QED
      BY <2>2, <2>3
  <1>9. OneLease(c, s)
    BY <1>5, <1>6 DEF OneLease
  <1>10. "unlock" \in Sections
    BY DEF Sections
  <1> QED
    BY <1>0, <1>1, <1>2, <1>3, <1>4, <1>7, <1>8, <1>9, <1>10, WorkKeeps

LEMMA DropFailsKeeps ==
  ASSUME IInv, NEW p \in Procs, DropFails(p)
  PROVE  IInv'
  <1>1. TypeOK /\ Orderly /\ Fits(p) /\ run[p].pc = "drop" /\ run[p].pc \in Sections
    BY OwnFrame DEF DropFails, Sections, IInv
  <1>2. /\ UNCHANGED <<owner, ballot, elders, reused, contested, lease, lock, lapsed, stolen>>
        /\ UNCHANGED calls /\ Return(p, FALSE)
    BY DEF DropFails, Throws, election, history
  <1>3. Goes(p, "unlock") /\ run'[p].ok = FALSE
    BY <1>1, <1>2, GoesBack
  <1>4. Fits(p)' /\ Knows(p)'
    BY <1>1, <1>2, <1>3 DEF Fits, Knows, Goes, calls
  <1> QED
    BY <1>1, <1>2, <1>3, <1>4, ReadKeeps DEF Sections

\* A renewal that fails leaves a lease file that may be torn, and answers no.
LEMMA RenewFailsKeeps ==
  ASSUME IInv, NEW p \in Procs, RenewFails(p)
  PROVE  IInv'
  <1>0. PICK c, s : c = run[p].call /\ s = run[p].slot
    OBVIOUS
  <1>1. /\ TypeOK /\ Orderly /\ Fits(p) /\ run[p].pc \in {"rewrite", "refill"} /\ run[p].pc \in Sections
        /\ run[p].sec = "renew" /\ s \in Slots /\ c \in Calls /\ ProcOf[c] = p
        /\ status[c] = "held" /\ at[c] = s
    BY <1>0, OwnFrame DEF RenewFails, Sections, IInv, Fits
  <1>2. /\ UNCHANGED <<owner, ballot, elders, reused, contested, lease, lock, lapsed, stolen>>
        /\ UNCHANGED calls /\ Return(p, FALSE)
    BY DEF RenewFails, Throws, election, history
  <1>3. Goes(p, "unlock") /\ run'[p].ok = FALSE
    BY <1>1, <1>2, GoesBack
  <1>4. Fits(p)' /\ Knows(p)'
    BY <1>0, <1>1, <1>2, <1>3 DEF Fits, Knows, Goes, calls
  <1>5. ASSUME Unstolen PROVE Placed(c)' /\ Owned(c)'
    <2>1. Placed(c) /\ Owned(c)
      BY <1>1, <1>5 DEF Unstolen
    <2>2. Placed(c)'
      BY <1>1, <1>2, <2>1 DEF Placed, calls
    <2>3. Torn(p)' /\ run'[p].call = c
      BY <1>0, <1>1, <1>3 DEF Torn, Goes
    <2>4. c \in Holders' => c \in Holders
      BY <1>1, <1>2 DEF Holders, calls, Alive
    <2>5. Owned(c)'
      BY <1>1, <1>2, <2>1, <2>3, <2>4 DEF Owned, calls
    <2> QED
      BY <2>2, <2>5
  <1>6. OneLease(c, s)
    BY <1>1, <1>2 DEF OneLease, TypeOK
  <1>7. "unlock" \in Sections
    BY DEF Sections
  <1> QED
    BY <1>0, <1>1, <1>2, <1>3, <1>4, <1>5, <1>6, <1>7, WorkKeeps

-----------------------------------------------------------------------------
(* What a process begins, and the environment. *)

LEMMA BeginKeeps ==
  ASSUME IInv, NEW p \in Procs, NEW c \in Calls, Begin(p, c)
  PROVE  IInv'
  <1>1. /\ TypeOK /\ Orderly /\ World /\ run[p] = Idle /\ Alive(p) /\ Serves(p, c)
        /\ run[p].pc = "idle" /\ run[p].call = NoCall
    BY WorldIs, IdleIs DEF Begin, BeginAcquire, BeginRenew, BeginRelease, IInv, Alive, Serves
  <1>2. UNCHANGED <<owner, ballot, lease, lock, at, lapsed, stolen>> /\ World'
    <2>1. UNCHANGED <<owner, ballot, lease, lock, at, lapsed, stolen>>
      BY DEF Begin, BeginAcquire, BeginRenew, BeginRelease, election, history, calls
    <2>2. elders' \in [Procs -> SUBSET Procs] /\ reused' \subseteq Procs /\ contested' \subseteq Procs
      BY <1>1 DEF Begin, BeginAcquire, BeginRenew, BeginRelease, election, history, World
    <2> QED
      BY <1>1, <2>1, <2>2 DEF World
  <1>3. /\ Framed(p) /\ Answered(c) /\ Fits(p)' /\ run'[p].pc \in {"open", "list", "lock"}
        /\ \/ status'[c] = "asking" /\ status[c] = "new"
           \/ status'[c] = status[c] /\ retries'[c] = retries[c]
           \/ status'[c] = "releasing"
    <2>1. CASE BeginAcquire(p, c)
      <3>1. Tell(c, "asking") /\ UNCHANGED <<at, retries>> /\ status[c] = "new"
        BY <2>1 DEF BeginAcquire
      <3>2. Answered(c) /\ status'[c] = "asking"
        BY <1>1, <3>1, Tells DEF Statuses
      <3>3. PICK l \in {"open", "list"} : Enter(p, At(l, "prune", c, 0))
        BY <2>1 DEF BeginAcquire
      <3>4. Framed(p) /\ run'[p].pc = l /\ run'[p].sec = "prune" /\ run'[p].call = c
        BY <1>1, <3>3, SlotZero, Places, Enters
      <3>5. Fits(p)'
        BY <1>1, <3>2, <3>4 DEF Fits, Serves
      <3> QED
        BY <3>1, <3>2, <3>4, <3>5
    <2>2. CASE BeginRenew(p, c)
      <3>1. UNCHANGED calls /\ status[c] = "held" /\ at[c] \in Slots
        BY <1>1, <2>2 DEF BeginRenew, TypeOK
      <3>2. Answered(c)
        BY <1>1, <3>1, SaysNothing
      <3>3. Framed(p) /\ run'[p].pc = "lock" /\ run'[p].sec = "renew" /\ run'[p].call = c /\ run'[p].slot = at[c]
        BY <1>1, <2>2, <3>1, Places, Enters DEF BeginRenew
      <3>4. Fits(p)'
        BY <1>1, <3>1, <3>3 DEF Fits, Serves, calls
      <3> QED
        BY <3>1, <3>2, <3>3, <3>4 DEF calls
    <2>3. CASE BeginRelease(p, c)
      <3>1. /\ status' = [status EXCEPT ![c] = "releasing"] /\ at' = at /\ at[c] \in Slots
            /\ retries' = IF status[c] = "sleeping" THEN [retries EXCEPT ![c] = @ + 1] ELSE retries
        BY <1>1, <2>3 DEF BeginRelease, Tell, TypeOK
      <3>2. retries' \in [Calls -> 0 .. Retries]
        <4>1. status[c] = "sleeping" => retries[c] + 1 \in 0 .. Retries
          <5>1. retries[c] \in 0 .. Retries
            BY <1>1 DEF TypeOK
          <5>2. status[c] = "sleeping" => retries[c] < Retries
            BY <1>1 DEF Orderly
          <5> QED
            BY <5>1, <5>2
        <4> QED
          BY <1>1, <3>1, <4>1 DEF TypeOK
      <3>3. Answered(c) /\ status'[c] = "releasing"
        BY <1>1, <3>1, <3>2 DEF Answered, TypeOK, Statuses
      <3>4. Framed(p) /\ run'[p].pc = "lock" /\ run'[p].sec = "release" /\ run'[p].call = c /\ run'[p].slot = at[c]
        BY <1>1, <2>3, <3>1, Places, Enters DEF BeginRelease
      <3>5. Fits(p)'
        BY <1>1, <3>1, <3>3, <3>4 DEF Fits, Serves
      <3> QED
        BY <3>3, <3>4, <3>5
    <2> QED
      BY <2>1, <2>2, <2>3 DEF Begin
  <1>4. TypeOK'
    BY <1>2, <1>3, StepTypes
  <1>5. Orderly'
    <2>1. status'[c] = "sleeping" => retries'[c] < Retries
      BY <1>1, <1>3 DEF Orderly
    <2> QED
      BY <1>1, <1>3, <2>1, StepOrderly
  <1>6. ASSUME ~stolen' PROVE Unstolen'
    <2>1. Unstolen
      BY <1>2, <1>6 DEF IInv
    <2>2. Kept(p, c, 0)
      BY <1>2, <2>1, NothingKept
    <2>3. Placed(c) /\ Owned(c) /\ ProcOf[c] = p
      BY <1>1, <2>1 DEF Unstolen, Serves
    <2>4. Placed(c)'
      BY <1>1, <1>2, <1>3, <2>3 DEF Placed
    <2>5. Owned(c)'
      BY <1>1, <1>2, <1>3, <2>3 DEF Owned, Holders
    <2>6. Holds(p)' /\ Knows(p)'
      BY <1>3, Outside DEF Sections
    <2> QED
      BY <1>1, <1>3, <2>1, <2>2, <2>4, <2>5, <2>6, SlotZero, StepUnstolen
  <1> QED
    BY <1>4, <1>5, <1>6 DEF IInv

LEMMA StatusKeeps ==
  ASSUME IInv, NEW p \in Procs, BeginStatus(p)
  PROVE  IInv'
  <1>1. /\ TypeOK /\ Orderly /\ World /\ Alive(p) /\ run[p].pc = "idle" /\ run[p].call = NoCall
        /\ run[p].pc \notin Sections
    BY WorldIs, IdleIs DEF BeginStatus, IInv, Alive, Sections
  <1>2. UNCHANGED <<owner, ballot, elders, reused, contested, lease, lock, lapsed, stolen>> /\ UNCHANGED calls
    BY DEF BeginStatus, election, history
  <1>3. World'
    BY <1>1, <1>2 DEF World
  <1>4. Framed(p) /\ run'[p].pc = "observe" /\ run'[p].sec = "prune" /\ run'[p].call = NoCall
    BY <1>1, SlotZero, Places, Enters DEF BeginStatus
  <1>5. Fits(p)' /\ run'[p].pc \notin Sections \cup {"dead"}
    BY <1>4 DEF Fits, Sections
  <1>6. Ended(p, FALSE)
    BY <1>1, <1>2, <1>4, <1>5, SaysNothing DEF Ended
  <1> QED
    BY <1>1, <1>2, <1>3, <1>6, SlotZero, NoLockMoves, EndedKeeps

LEMMA LapseKeeps ==
  ASSUME IInv, NEW c \in Calls, Lapse(c)
  PROVE  IInv'
  <1>1. /\ UNCHANGED <<owner, ballot, elders, reused, contested, lease, lock, run, status, at, retries, stolen>>
        /\ lapsed' = lapsed \cup {c}
    BY DEF Lapse, election, history, calls
  <1>2. TypeOK' /\ Orderly'
    BY <1>1 DEF IInv, TypeOK, Orderly, Fits
  <1>3. ASSUME Unstolen PROVE Unstolen'
    <2>1. \A p \in Procs : Holds(p)' /\ Knows(p)'
      BY <1>1, <1>3 DEF Unstolen, Holds, Knows, Live
    <2>2. \A d \in Calls : Placed(d)' /\ Owned(d)'
      BY <1>1, <1>3 DEF Unstolen, Placed, Owned, Torn, Holders, Alive
    <2> QED
      BY <2>1, <2>2 DEF Unstolen
  <1> QED
    BY <1>1, <1>2, <1>3 DEF IInv

LEMMA LockExpiresKeeps ==
  ASSUME IInv, NEW s \in Slots, LockExpires(s)
  PROVE  IInv'
  <1>1. /\ UNCHANGED <<owner, ballot, elders, reused, contested, lease, run, status, at, retries, lapsed, stolen>>
        /\ lock' = [lock EXCEPT ![s].expired = TRUE] /\ lock[s] # NoLock
    BY DEF LockExpires, election, history, calls
  <1>2. lock \in [Slots -> Locks]
    BY DEF IInv, TypeOK
  <1>3. lock' \in [Slots -> Locks] /\ \A t \in Slots : lock'[t].by = lock[t].by
    BY <1>1, <1>2 DEF Locks
  <1>4. TypeOK' /\ Orderly'
    BY <1>1, <1>3 DEF IInv, TypeOK, Orderly, Fits
  <1>5. ASSUME Unstolen PROVE Unstolen'
    <2>1. \A p \in Procs : run[p].slot \in Slots
      BY OwnFrame DEF IInv
    <2>2. \A p \in Procs : Holds(p)' /\ Knows(p)'
      BY <1>1, <1>3, <1>5, <2>1 DEF Unstolen, Holds, Knows, Live
    <2>3. \A d \in Calls : Placed(d)' /\ Owned(d)'
      BY <1>1, <1>5 DEF Unstolen, Placed, Owned, Torn, Holders, Alive
    <2> QED
      BY <2>2, <2>3 DEF Unstolen
  <1> QED
    BY <1>1, <1>4, <1>5 DEF IInv

LEMMA DieKeeps ==
  ASSUME IInv, NEW p \in Procs, Die(p)
  PROVE  IInv'
  <1>1. /\ UNCHANGED <<owner, lease, lock, at, retries, lapsed, stolen>>
        /\ Enter(p, Dead) /\ TypeOK /\ Orderly
        /\ status' = [d \in Calls |-> IF ProcOf[d] = p THEN "gone" ELSE status[d]]
    BY DEF Die, IInv
  <1>s. /\ status' \in [Calls -> Statuses]
        /\ \A d \in Calls : status'[d] = IF ProcOf[d] = p THEN "gone" ELSE status[d]
    BY <1>1 DEF TypeOK, Statuses
  <1>2. Framed(p) /\ run'[p].pc = "dead" /\ run'[p].sec = "prune" /\ run'[p].call = NoCall
    BY <1>1, IdleIs, Reframed
  <1>3. TypeOK'
    <2>1. ballot' \in [Procs -> [left : SUBSET Procs, beaten : BOOLEAN]]
      BY <1>1 DEF Die, TypeOK, NoBallot
    <2>2. elders' \in [Procs -> SUBSET Procs] /\ contested' \subseteq Procs /\ reused' = reused
      BY <1>1 DEF Die, TypeOK
    <2> QED
      BY <1>1, <1>s, <1>2, <2>1, <2>2 DEF TypeOK, Framed
  <1>4. Orderly'
    <2>1. Fits(p)'
      BY <1>2 DEF Fits
    <2>2. ASSUME NEW q \in Procs \ {p} PROVE Fits(q)'
      <3>1. run'[q] = run[q] /\ Fits(q) /\ run[q].call \in Calls \cup {NoCall}
        BY <1>1, <1>2, FrameTypes DEF Orderly, Framed, TypeOK
      <3>2. run[q].call # NoCall => status'[run[q].call] = status[run[q].call]
        BY <1>s, <3>1 DEF Fits
      <3> QED
        BY <1>1, <3>1, <3>2 DEF Fits
    <2>3. \A d \in Calls : status'[d] = "sleeping" => retries'[d] < Retries
      BY <1>1, <1>s DEF Orderly
    <2> QED
      BY <2>1, <2>2, <2>3 DEF Orderly
  <1>5. ASSUME Unstolen PROVE Unstolen'
    <2>1. \A q \in Procs \ {p} : Holds(q)' /\ Knows(q)'
      BY <1>1, <1>2, <1>5 DEF Unstolen, Holds, Knows, Live, Framed
    <2>2. Holds(p)' /\ Knows(p)'
      BY <1>2, Outside DEF Sections
    <2>3. ASSUME NEW d \in Calls PROVE Placed(d)' /\ Owned(d)'
      <3>1. Placed(d) /\ Owned(d) /\ ProcOf[d] \in Procs
        BY <1>5 DEF Unstolen
      <3>2. CASE ProcOf[d] = p
        <4>1. ~Alive(ProcOf[d])'
          BY <1>2, <3>2 DEF Alive
        <4>2. Placed(d)'
          BY <1>s, <3>2 DEF Placed
        <4>3. Owned(d)'
          BY <4>1 DEF Owned, Holders
        <4> QED
          BY <4>2, <4>3
      <3>3. CASE ProcOf[d] # p
        <4>1. run'[ProcOf[d]] = run[ProcOf[d]]
          BY <1>2, <3>1, <3>3 DEF Framed
        <4> QED
          BY <1>1, <1>s, <3>1, <3>3, <4>1 DEF Placed, Owned, Torn, Holders, Alive
      <3> QED
        BY <3>2, <3>3
    <2> QED
      BY <2>1, <2>2, <2>3 DEF Unstolen
  <1> QED
    BY <1>1, <1>3, <1>4, <1>5 DEF IInv

LEMMA PidKeeps ==
  ASSUME IInv, NEW p \in Procs, PidTaken(p) \/ PidFreed(p)
  PROVE  IInv'
  <1>1. /\ UNCHANGED <<owner, ballot, elders, lease, lock, run, status, at, retries, lapsed, stolen>>
        /\ reused' \subseteq Procs /\ contested' \subseteq Procs
    BY DEF PidTaken, PidFreed, history, calls, IInv, TypeOK
  <1>2. TypeOK' /\ Orderly'
    BY <1>1 DEF IInv, TypeOK, Orderly, Fits
  <1>3. Unstolen => Unstolen'
    BY <1>1 DEF Unstolen, Holds, Knows, Live, Placed, Owned, Torn, Holders, Alive
  <1> QED
    BY <1>1, <1>2, <1>3 DEF IInv

LEMMA SectionKeeps ==
  ASSUME IInv, NEW p \in Procs, Section(p)
  PROVE  IInv'
  BY RecheckKeeps, DropKeeps, DropFailsKeeps, CreateKeeps, FillKeeps, FillFailsKeeps, VerifyKeeps,
     RewriteKeeps, RefillKeeps, RenewFailsKeeps DEF Section

LEMMA NextKeeps == IInv /\ [Next]_vars => IInv'
  <1> SUFFICES ASSUME IInv, [Next]_vars PROVE IInv'
    OBVIOUS
  <1>1. CASE UNCHANGED vars
    BY <1>1 DEF vars, IInv, TypeOK, Orderly, Fits, Unstolen, Holds, Knows, Live, Placed, Owned, Torn, Holders, Alive
  <1>2. ASSUME NEW p \in Procs, Step(p) PROVE IInv'
    BY <1>2, ElectionKeeps, ReadingKeeps, LockStepKeeps, SectionKeeps DEF Step
  <1> QED
    BY <1>1, <1>2, StatusKeeps, DieKeeps, PidKeeps, BeginKeeps, LapseKeeps, LockExpiresKeeps DEF Next

LEMMA Inductive == Spec => []IInv
  BY InitHolds, NextKeeps, PTL DEF Spec

-----------------------------------------------------------------------------
(* Elections. *)

\* A process about to make its owner file has none yet, and nobody has beaten it before
\* it reads.  The older owners an election began with stand, live, and wait to be read
\* or have been found to beat it.
Stands(p) ==
  /\ run[p].pc = "open" => owner[p] = "none"
  /\ run[p].pc = "write" => owner[p] = "blank"
  /\ \A q \in elders[p] :
       /\ Older(q, p) /\ owner[q] = "full" /\ Alive(q)
       /\ run[p].pc \in Electing
       /\ run[p].pc = "scan" => q \in ballot[p].left \/ ballot[p].beaten

EInv == \A p \in Procs : Stands(p)

\* A process's new frame is not in an election.
Elsewhere(p) == \E g : run' = [run EXCEPT ![p] = g] /\ g.pc \notin Electing \cup {"dead"}

LEMMA EntersElsewhere ==
  ASSUME NEW p \in Procs, NEW l \in {"idle", "observe", "look", "lock"}, NEW sec, NEW c, NEW s,
         Enter(p, At(l, sec, c, s))
  PROVE  Elsewhere(p)
  <1> DEFINE g == At(l, sec, c, s)
  <1>1. g.pc = l
    BY DEF At
  <1>2. run' = [run EXCEPT ![p] = g]
    BY DEF Enter
  <1> HIDE DEF g
  <1> QED
    BY <1>1, <1>2 DEF Electing, Elsewhere

LEMMA GoesElsewhere ==
  ASSUME TypeOK, NEW p \in Procs, NEW l \in PCs \ (Electing \cup {"dead"}), Goto(p, l)
  PROVE  Elsewhere(p)
  <1> DEFINE g == [run[p] EXCEPT !.pc = l]
  <1>1. run' = [run EXCEPT ![p] = g]
    BY DEF Goto
  <1>2. g.pc = l
    BY DEF TypeOK, Frames
  <1> HIDE DEF g
  <1> QED
    BY <1>1, <1>2 DEF Elsewhere

LEMMA ReturnsElsewhere ==
  ASSUME TypeOK, NEW p \in Procs, NEW ok \in BOOLEAN, Return(p, ok)
  PROVE  Elsewhere(p)
  <1> DEFINE g == [run[p] EXCEPT !.pc = "unlock", !.ok = ok]
  <1>1. run' = [run EXCEPT ![p] = g]
    BY DEF Return, Enter
  <1>2. g.pc = "unlock"
    BY DEF TypeOK, Frames
  <1> HIDE DEF g
  <1> QED
    BY <1>1, <1>2 DEF Elsewhere, Electing

LEMMA RetriesElsewhere ==
  ASSUME TypeOK, NEW p \in Procs, Enter(p, [run[p] EXCEPT !.pc = "lock", !.second = TRUE])
  PROVE  Elsewhere(p)
  <1> DEFINE g == [run[p] EXCEPT !.pc = "lock", !.second = TRUE]
  <1>1. run' = [run EXCEPT ![p] = g]
    BY DEF Enter
  <1>2. g.pc = "lock"
    BY DEF TypeOK, Frames
  <1> HIDE DEF g
  <1> QED
    BY <1>1, <1>2 DEF Elsewhere, Electing

LEMMA LocksElsewhere ==
  ASSUME TypeOK, NEW p \in Procs, NEW l \in PCs \ (Electing \cup {"dead"}),
         Enter(p, [run[p] EXCEPT !.pc = l, !.second = FALSE])
  PROVE  Elsewhere(p)
  <1> DEFINE g == [run[p] EXCEPT !.pc = l, !.second = FALSE]
  <1>1. run' = [run EXCEPT ![p] = g]
    BY DEF Enter
  <1>2. g.pc = l
    BY DEF TypeOK, Frames
  <1> HIDE DEF g
  <1> QED
    BY <1>1, <1>2 DEF Elsewhere

LEMMA IdlesElsewhere ==
  ASSUME NEW p \in Procs, Enter(p, Idle)
  PROVE  Elsewhere(p)
  BY EntersElsewhere DEF Idle

LEMMA LooksElsewhere == "look" \in PCs \ (Electing \cup {"dead"})
  BY Places DEF Electing

LEMMA DoneElsewhere ==
  ASSUME TypeOK, NEW p \in Procs, NEW ok \in BOOLEAN,
         PruneDone(p) \/ TakeDone(p, ok) \/ RenewDone(p, ok) \/ ReleaseDone(p, ok)
  PROVE  Elsewhere(p)
  <1>1. CASE PruneDone(p)
    BY <1>1, EntersElsewhere, IdlesElsewhere DEF PruneDone
  <1>2. CASE TakeDone(p, ok)
    BY <1>2, EntersElsewhere, IdlesElsewhere DEF TakeDone
  <1>3. CASE RenewDone(p, ok)
    BY <1>3, IdlesElsewhere DEF RenewDone
  <1>4. CASE ReleaseDone(p, ok)
    BY <1>4, IdlesElsewhere, LooksElsewhere, GoesElsewhere DEF ReleaseDone
  <1> QED
    BY <1>1, <1>2, <1>3, <1>4

LEMMA EndsElsewhere ==
  ASSUME TypeOK, NEW p \in Procs, NEW ok \in BOOLEAN, SectionDone(p, ok)
  PROVE  Elsewhere(p)
  <1>1. run[p].sec \in {"prune", "take", "renew", "release"}
    BY FrameTypes DEF TypeOK
  <1> QED
    BY <1>1, DoneElsewhere DEF SectionDone

LEMMA RefusalElsewhere ==
  ASSUME TypeOK, NEW p \in Procs, LockRefused(p)
  PROVE  Elsewhere(p)
  <1>1. CASE Goto(p, "look")
    BY <1>1, LooksElsewhere, GoesElsewhere
  <1>2. CASE SectionDone(p, FALSE)
    BY <1>2, EndsElsewhere
  <1> QED
    BY <1>1, <1>2 DEF LockRefused

\* Steps that are not about an election leave elections alone and begin none.
LEMMA ElsewhereStands ==
  ASSUME TypeOK, EInv, NEW p \in Procs, UNCHANGED election, run[p].pc \notin Electing, Elsewhere(p)
  PROVE  EInv'
  <1>1. PICK g : run' = [run EXCEPT ![p] = g] /\ g.pc \notin Electing \cup {"dead"}
    BY DEF Elsewhere
  <1>2. run'[p] = g /\ \A q \in Procs \ {p} : run'[q] = run[q]
    BY <1>1 DEF TypeOK
  <1>3. Stands(p)'
    BY <1>1, <1>2 DEF EInv, Stands, election, history, Electing
  <1>4. ASSUME NEW r \in Procs \ {p} PROVE Stands(r)'
    BY <1>1, <1>2, <1>4 DEF EInv, Stands, election, history, Alive
  <1> QED
    BY <1>3, <1>4 DEF EInv

LEMMA WorkElsewhere ==
  ASSUME TypeOK, NEW p \in Procs, Read(p) \/ LockStep(p) \/ Section(p) \/ BeginStatus(p)
  PROVE  UNCHANGED election /\ run[p].pc \notin Electing /\ Elsewhere(p)
  <1>1. UNCHANGED election
    BY DEF Read, LockStep, Section, BeginStatus, Observe, LookFree, LookOwned, LookLeft, Lock, LockFails,
       Inspect, Evict, EvictFails, Unlock, Recheck, Drop, Create, Fill, FillFails, Verify, Rewrite, Refill, RenewFails, DropFails, Throws
  <1>2. run[p].pc \notin Electing
    BY IdleIs DEF Read, LockStep, Section, BeginStatus, Observe, LookFree, LookOwned, LookLeft, Lock, LockFails,
       Inspect, Evict, EvictFails, Unlock, Recheck, Drop, Create, Fill, FillFails, Verify, Rewrite, Refill, RenewFails, DropFails, Throws, Electing
  <1>3. ASSUME NEW l \in {"lock", "inspect", "evict", "recheck", "create", "verify", "drop", "fill",
                          "rewrite", "refill"}, Goto(p, l)
        PROVE  Elsewhere(p)
    BY <1>3, Places, GoesElsewhere DEF Electing
  <1>4. Elsewhere(p)
    <2>1. CASE Read(p)
      BY <1>3, <2>1, DoneElsewhere, IdlesElsewhere
         DEF Read, Observe, LookFree, LookOwned, LookLeft, Live
    <2>2. CASE LockStep(p)
      <3>1. CASE Lock(p)
        <4>1. Entry[run[p].sec] \in {"recheck", "create", "verify"}
          BY EntryIs, FrameTypes DEF TypeOK
        <4>2. Entry[run[p].sec] \in PCs \ (Electing \cup {"dead"})
          BY <4>1, Places DEF Electing
        <4> QED
          BY <1>3, <3>1, <4>2, LocksElsewhere DEF Lock
      <3>2. CASE LockFails(p) \/ Inspect(p) \/ EvictFails(p)
        BY <1>3, <3>2, RefusalElsewhere DEF LockFails, Inspect, EvictFails
      <3>3. CASE Evict(p)
        BY <3>3, RefusalElsewhere, RetriesElsewhere DEF Evict
      <3>4. CASE Unlock(p)
        BY <3>4, EndsElsewhere, FrameTypes DEF Unlock, TypeOK
      <3> QED
        BY <2>2, <3>1, <3>2, <3>3, <3>4 DEF LockStep
    <2>3. CASE Section(p)
      BY <1>3, <2>3, ReturnsElsewhere, IdlesElsewhere
         DEF Section, Recheck, Drop, Create, Fill, FillFails, Verify, Rewrite, Refill, RenewFails, DropFails, Throws
    <2>4. CASE BeginStatus(p)
      BY <2>4, EntersElsewhere DEF BeginStatus
    <2> QED
      BY <2>1, <2>2, <2>3, <2>4
  <1> QED
    BY <1>1, <1>2, <1>4

LEMMA WorkStands ==
  ASSUME TypeOK, EInv, NEW p \in Procs, Read(p) \/ LockStep(p) \/ Section(p) \/ BeginStatus(p)
  PROVE  EInv'
  BY WorkElsewhere, ElsewhereStands

\* A process that keeps running where l says, in or out of the election.
LEMMA Relabelled ==
  ASSUME TypeOK, NEW p \in Procs, NEW l \in PCs, Goto(p, l)
  PROVE  run'[p].pc = l /\ \A q \in Procs \ {p} : run'[q] = run[q]
  BY GoesTo DEF Goes, Framed

LEMMA Idled ==
  ASSUME TypeOK, NEW p \in Procs, Enter(p, Idle)
  PROVE  run'[p].pc = "idle" /\ \A q \in Procs \ {p} : run'[q] = run[q]
  BY Idles DEF Framed

LEMMA ElectionStands ==
  ASSUME TypeOK, EInv, NEW p \in Procs, Elect(p)
  PROVE  EInv'
  <1>0. /\ \A q \in Procs : Stands(q) /\ elders[q] \subseteq Procs
        /\ owner \in [Procs -> {"none", "blank", "full"}]
        /\ ballot \in [Procs -> [left : SUBSET Procs, beaten : BOOLEAN]]
        /\ elders \in [Procs -> SUBSET Procs]
    BY DEF EInv, TypeOK
  <1>1. CASE OwnerOpen(p)
    <2>1. run'[p].pc = "write" /\ \A q \in Procs \ {p} : run'[q] = run[q]
      BY <1>1, Places, Relabelled DEF OwnerOpen
    <2>2. owner[p] = "none" /\ \A r \in Procs : p \notin elders[r]
      BY <1>0, <1>1 DEF OwnerOpen, Stands
    <2> QED
      BY <1>0, <1>1, <2>1, <2>2 DEF OwnerOpen, EInv, Stands, Alive, Electing, history
  <1>2. CASE OwnerWrite(p)
    <2>1. run'[p].pc = "list" /\ \A q \in Procs \ {p} : run'[q] = run[q]
      BY <1>2, Places, Relabelled DEF OwnerWrite
    <2> QED
      BY <1>0, <1>2, <2>1 DEF OwnerWrite, EInv, Stands, Alive, Electing, history
  <1>3. CASE OwnerCheckFails(p)
    <2>1. run'[p].pc = "idle" /\ \A q \in Procs \ {p} : run'[q] = run[q]
      BY <1>3, Idled DEF OwnerCheckFails, Elected
    <2> QED
      BY <1>0, <1>3, <2>1 DEF OwnerCheckFails, Elected, EInv, Stands, Alive, Electing
  <1>4. CASE List(p)
    <2>1. run'[p].pc = "scan" /\ \A q \in Procs \ {p} : run'[q] = run[q]
      BY <1>4, Places, Relabelled DEF List
    <2>2. /\ ballot'[p].left = {q \in Procs : owner[q] # "none"}
          /\ \A q \in Procs \ {p} : ballot'[q] = ballot[q]
      BY <1>0, <1>4 DEF List
    <2>3. UNCHANGED <<owner, elders>>
      BY <1>4 DEF List, history
    <2>4. Stands(p)'
      BY <1>0, <2>1, <2>2, <2>3 DEF Stands, Alive, Electing
    <2>5. ASSUME NEW r \in Procs \ {p} PROVE Stands(r)'
      BY <1>0, <2>1, <2>2, <2>3, <2>5 DEF Stands, Alive
    <2> QED
      BY <2>4, <2>5 DEF EInv
  <1>5. CASE Scan(p)
    <2>1. PICK x \in ballot[p].left :
            /\ ballot' = [ballot EXCEPT ![p] = [left |-> @.left \ {x}, beaten |-> @.beaten \/ (PidInUse(x) /\ Beats(x, p))]]
            /\ owner' = owner \/ (~Alive(x) /\ owner' = [owner EXCEPT ![x] = "none"])
      BY <1>5 DEF Scan, PidInUse
    <2>2. UNCHANGED <<elders, run>>
      BY <1>5 DEF Scan, history
    <2>3. \A q \in Procs \ {p} : ballot'[q] = ballot[q]
      BY <1>0, <2>1
    <2>4. ballot'[p].left = ballot[p].left \ {x}
      BY <1>0, <2>1
    <2>5. ballot[p].beaten \/ (Alive(x) /\ Beats(x, p)) => ballot'[p].beaten
      BY <1>0, <2>1 DEF PidInUse
    <2>6. \A q \in Procs : Alive(q) => owner'[q] = owner[q]
      BY <1>0, <2>1
    <2>7. \A q \in elders[p] : Beats(q, p)
      BY <1>0 DEF Stands, Beats
    <2>8. ASSUME NEW r \in Procs PROVE Stands(r)'
      <3>1. run[r].pc = "open" => owner'[r] = "none"
        BY <1>0, <2>6 DEF Stands, Alive
      <3>2. run[r].pc = "write" => owner'[r] = "blank"
        BY <1>0, <2>6 DEF Stands, Alive
      <3>3. ASSUME NEW q \in elders[r], run[r].pc = "scan"
            PROVE  q \in ballot'[r].left \/ ballot'[r].beaten
        BY <1>0, <2>3, <2>4, <2>5, <2>7, <3>3 DEF Stands
      <3> QED
        BY <1>0, <2>2, <2>6, <3>1, <3>2, <3>3 DEF Stands, Alive
    <2> QED
      BY <2>8 DEF EInv
  <1>6. CASE Decide(p) /\ ballot[p].beaten
    <2>1. run'[p].pc = "idle" /\ \A q \in Procs \ {p} : run'[q] = run[q]
      BY <1>6, Idled DEF Decide
    <2>2. elders' = [q \in Procs |-> IF q = p THEN {} ELSE elders[q] \ {p}]
      BY <1>6 DEF Decide
    <2>3. \A q \in Procs \ {p} : ballot'[q] = ballot[q] /\ owner'[q] = owner[q]
      BY <1>0, <1>6 DEF Decide
    <2>4. Stands(p)'
      BY <2>1, <2>2 DEF Stands
    <2>5. ASSUME NEW r \in Procs \ {p} PROVE Stands(r)'
      <3>1. elders'[r] = elders[r] \ {p} /\ elders[r] \subseteq Procs
        BY <1>0, <2>2
      <3> QED
        BY <1>0, <2>1, <2>3, <3>1 DEF Stands, Alive
    <2> QED
      BY <2>4, <2>5 DEF EInv
  <1>7. CASE Decide(p) /\ ~ballot[p].beaten
    <2>1. run'[p].pc = "observe" /\ \A q \in Procs \ {p} : run'[q] = run[q]
      BY <1>7, Places, Relabelled DEF Decide
    <2>2. \A q \in Procs \ {p} : ballot'[q] = ballot[q] /\ elders'[q] = elders[q]
      BY <1>0, <1>7 DEF Decide
    <2>3. elders'[p] = {} /\ owner' = owner
      BY <1>0, <1>7 DEF Decide
    <2>4. Stands(p)'
      BY <2>1, <2>3 DEF Stands
    <2>5. ASSUME NEW r \in Procs \ {p} PROVE Stands(r)'
      BY <1>0, <2>1, <2>2, <2>3, <2>5 DEF Stands, Alive
    <2> QED
      BY <2>4, <2>5 DEF EInv
  <1> QED
    BY <1>1, <1>2, <1>3, <1>4, <1>5, <1>6, <1>7 DEF Elect

LEMMA BeginStands ==
  ASSUME TypeOK, EInv, NEW p \in Procs, NEW c \in Calls, Begin(p, c)
  PROVE  EInv'
  <1>1. run[p].pc = "idle" /\ run[p].pc \notin Electing
    BY IdleIs DEF Begin, BeginAcquire, BeginRenew, BeginRelease, Electing
  <1>2. CASE BeginRenew(p, c) \/ BeginRelease(p, c)
    <2>1. Elsewhere(p) /\ UNCHANGED election
      BY <1>2, EntersElsewhere DEF BeginRenew, BeginRelease, election, history
    <2> QED
      BY <1>1, <2>1, ElsewhereStands
  <1>3. CASE BeginAcquire(p, c)
    <2>1. PICK l \in {"open", "list"} : /\ Enter(p, At(l, "prune", c, 0))
                                        /\ l = "open" => owner[p] = "none"
      BY <1>3 DEF BeginAcquire
    <2>2. Framed(p) /\ run'[p].pc = l
      BY <2>1, SlotZero, Places, Enters
    <2>3. /\ elders' = [elders EXCEPT ![p] = {q \in Procs : Older(q, p) /\ owner[q] = "full" /\ Alive(q)}]
          /\ UNCHANGED <<owner, ballot>>
      BY <1>3 DEF BeginAcquire
    <2>4. ~Older(p, p)
      BY DEF Older
    <2>5. elders'[p] = {q \in Procs : Older(q, p) /\ owner[q] = "full" /\ Alive(q)}
          /\ \A r \in Procs \ {p} : elders'[r] = elders[r]
      BY <2>3 DEF TypeOK
    <2>6. Stands(p)'
      BY <2>1, <2>2, <2>3, <2>4, <2>5 DEF Stands, Framed, Alive, Electing
    <2>7. ASSUME NEW r \in Procs \ {p} PROVE Stands(r)'
      <3>1. Stands(r) /\ elders[r] \subseteq Procs
        BY DEF EInv, TypeOK
      <3> QED
        BY <2>1, <2>2, <2>3, <2>5, <3>1 DEF Stands, Framed, Alive
    <2> QED
      BY <2>6, <2>7 DEF EInv
  <1> QED
    BY <1>2, <1>3 DEF Begin

LEMMA DieStands ==
  ASSUME TypeOK, EInv, NEW p \in Procs, Die(p)
  PROVE  EInv'
  <1>1. Framed(p) /\ run'[p].pc = "dead"
    BY IdleIs, Reframed DEF Die
  <1>2. /\ elders' = [q \in Procs |-> IF q = p THEN {} ELSE elders[q] \ {p}]
        /\ \A q \in Procs \ {p} : ballot'[q] = ballot[q]
        /\ owner' = owner
    BY DEF Die, TypeOK
  <1>3. \A q \in Procs : Stands(q) /\ elders[q] \subseteq Procs
    BY DEF EInv, TypeOK
  <1> QED
    BY <1>1, <1>2, <1>3 DEF EInv, Stands, Framed, Alive, Electing

LEMMA NextStands == TypeOK /\ EInv /\ [Next]_vars => EInv'
  <1> SUFFICES ASSUME TypeOK, EInv, [Next]_vars PROVE EInv'
    OBVIOUS
  <1>1. CASE UNCHANGED <<owner, ballot, elders, run>>
    BY <1>1 DEF EInv, Stands, Alive
  <1>2. UNCHANGED vars \/ (\E c \in Calls : Lapse(c)) \/ (\E s \in Slots : LockExpires(s))
       \/ (\E p \in Procs : PidTaken(p) \/ PidFreed(p)) =>
          UNCHANGED <<owner, ballot, elders, run>>
    BY DEF vars, Lapse, LockExpires, PidTaken, PidFreed, election, history
  <1>3. ASSUME NEW p \in Procs, Step(p) PROVE EInv'
    BY <1>3, ElectionStands, WorkStands DEF Step
  <1> QED
    BY <1>1, <1>2, <1>3, WorkStands, DieStands, BeginStands DEF Next

\* A process's step leaves the frames of the others.
LEMMA OwnRunOnly ==
  ASSUME TypeOK, NEW p \in Procs,
         Step(p) \/ BeginStatus(p) \/ Die(p) \/ \E c \in Calls : Begin(p, c)
  PROVE  \A q \in Procs \ {p} : run'[q] = run[q]
  <1>1. CASE Elsewhere(p)
    BY <1>1 DEF Elsewhere, TypeOK
  <1>2. CASE Elect(p)
    <2>1. CASE run' = run
      BY <2>1
    <2>2. CASE \E l \in {"write", "list", "scan", "observe"} : Goto(p, l)
      BY <2>2, Places, Relabelled
    <2>3. CASE Enter(p, Idle)
      BY <2>3, Idled
    <2> QED
      BY <1>2, <2>1, <2>2, <2>3 DEF Elect, OwnerOpen, OwnerWrite, OwnerCheckFails, Elected, List, Scan, Decide
  <1>3. CASE Die(p)
    BY <1>3, IdleIs, Reframed DEF Die, Framed
  <1>4. CASE \E c \in Calls : Begin(p, c)
    <2>1. PICK c \in Calls : Begin(p, c)
      BY <1>4
    <2>2. CASE BeginRenew(p, c) \/ BeginRelease(p, c)
      BY <2>2, EntersElsewhere, <1>1 DEF BeginRenew, BeginRelease
    <2>3. CASE BeginAcquire(p, c)
      <3>1. PICK l \in {"open", "list"} : Enter(p, At(l, "prune", c, 0))
        BY <2>3 DEF BeginAcquire
      <3> QED
        BY <3>1, SlotZero, Places, Enters DEF Framed
    <2> QED
      BY <2>1, <2>2, <2>3 DEF Begin
  <1> QED
    BY <1>1, <1>2, <1>3, <1>4, WorkElsewhere DEF Step

\* A winner has no elder.
LEMMA WinnerHasNoElder ==
  ASSUME TypeOK, EInv, [Next]_vars, NEW p \in Procs, run[p].pc = "scan", run'[p].pc = "observe"
  PROVE  elders[p] = {}
  <1>1. run'[p] # run[p]
    OBVIOUS
  <1>2. PICK q \in Procs : Step(q) \/ BeginStatus(q) \/ Die(q) \/ \E c \in Calls : Begin(q, c)
    <2>1. ~UNCHANGED run
      BY <1>1
    <2>2. UNCHANGED vars \/ (\E c \in Calls : Lapse(c)) \/ (\E s \in Slots : LockExpires(s))
         \/ (\E r \in Procs : PidTaken(r) \/ PidFreed(r)) => UNCHANGED run
      BY DEF vars, Lapse, LockExpires, PidTaken, PidFreed
    <2> QED
      BY <2>1, <2>2 DEF Next
  <1>3. q = p
    BY <1>1, <1>2, OwnRunOnly
  <1>4. ~Die(p)
    BY IdleIs, Reframed DEF Die
  <1>5. ~(BeginStatus(p) \/ \E c \in Calls : Begin(p, c))
    BY IdleIs DEF BeginStatus, Begin, BeginAcquire, BeginRenew, BeginRelease
  <1>6. Elect(p)
    BY <1>2, <1>3, <1>4, <1>5, WorkElsewhere DEF Step, Electing
  <1>7. Decide(p)
    <2>1. ~Scan(p)
      BY DEF Scan
    <2> QED
      BY <1>6, <2>1 DEF Elect, OwnerOpen, OwnerWrite, OwnerCheckFails, Elected, List
  <1>8. ~ballot[p].beaten
    BY <1>7, Idled DEF Decide
  <1> QED
    BY <1>7, <1>8 DEF Decide, EInv, Stands

\* The dead take no steps.
LEMMA OnlyTheLiving ==
  ASSUME NEW p \in Procs, Step(p) \/ BeginStatus(p) \/ Die(p) \/ \E c \in Calls : Begin(p, c)
  PROVE  Alive(p)
  <1>1. CASE Die(p)
    BY <1>1 DEF Die
  <1>2. CASE Elect(p)
    BY <1>2 DEF Elect, OwnerOpen, OwnerWrite, OwnerCheckFails, Elected, List, Scan, Decide, Alive
  <1>3. CASE Read(p) \/ LockStep(p)
    BY <1>3 DEF Read, Observe, LookFree, LookOwned, LookLeft, LockStep, Lock, LockFails, Inspect,
       Evict, EvictFails, Unlock, Alive
  <1>4. CASE Section(p)
    BY <1>4 DEF Section, Recheck, Drop, Create, Fill, FillFails, Verify, Rewrite, Refill, RenewFails, DropFails, Throws, Alive
  <1>5. CASE BeginStatus(p) \/ \E c \in Calls : Begin(p, c)
    BY <1>5, IdleIs DEF BeginStatus, Begin, BeginAcquire, BeginRenew, BeginRelease, Alive
  <1> QED
    BY <1>1, <1>2, <1>3, <1>4, <1>5 DEF Step

\* A process that elects without ever having been contested is the only owner whose pid is
\* in use; so nobody has beaten it, before it reads or unless it finds its own file blank.
Unbeaten(p) ==
  /\ run[p].pc # "scan" => ~ballot[p].beaten
  /\ run[p].pc \in {"list", "scan"} => owner[p] # "none"
  /\ run[p].pc \in Electing /\ p \notin contested => \A q \in Procs \ {p} : ~PidInUse(q)
  /\ run[p].pc = "scan" /\ ballot[p].beaten => p \in contested \/ owner[p] # "full"

UInv == \A p \in Procs : Unbeaten(p)

\* What the process does not do to the others: it neither ends their election nor removes
\* their owner files, and gives nobody a pid.
Spares(p) ==
  /\ \A q \in Procs \ {p} :
       /\ run'[q] = run[q] /\ ballot'[q] = ballot[q]
       /\ Alive(q) => owner'[q] = owner[q]
       /\ q \in contested => q \in contested'
  /\ \A q \in Procs : PidInUse(q)' => PidInUse(q)

LEMMA SparesThem ==
  ASSUME TypeOK, UInv, NEW p \in Procs, Spares(p), Unbeaten(p)'
  PROVE  UInv'
  <1> SUFFICES ASSUME NEW q \in Procs \ {p} PROVE Unbeaten(q)'
    BY DEF UInv
  <1>1. Unbeaten(q) /\ run'[q] = run[q] /\ ballot'[q] = ballot[q]
    BY DEF UInv, Spares
  <1>2. run[q].pc \in Electing => owner'[q] = owner[q]
    BY DEF Spares, Alive, Electing
  <1>3. \A r \in Procs : PidInUse(r)' => PidInUse(r)
    BY DEF Spares
  <1>4. q \in contested => q \in contested'
    BY DEF Spares
  <1> QED
    BY <1>1, <1>2, <1>3, <1>4 DEF Unbeaten, Electing

\* Nobody comes to life.
LEMMA SparesPids ==
  ASSUME NEW p \in Procs, Alive(p), \A q \in Procs \ {p} : run'[q] = run[q], reused' = reused,
         NEW q \in Procs, PidInUse(q)'
  PROVE  PidInUse(q)
  BY DEF PidInUse, Alive

LEMMA ElsewhereUnbeaten ==
  ASSUME TypeOK, UInv, NEW p \in Procs, Alive(p), UNCHANGED <<owner, ballot, reused, contested>>,
         run[p].pc \notin Electing, Elsewhere(p)
  PROVE  UInv'
  <1>1. run'[p].pc \notin Electing /\ \A q \in Procs \ {p} : run'[q] = run[q]
    BY DEF Elsewhere, TypeOK
  <1>2. Spares(p)
    BY <1>1, SparesPids DEF Spares
  <1>3. Unbeaten(p)'
    BY <1>1 DEF UInv, Unbeaten, Electing
  <1> QED
    BY <1>2, <1>3, SparesThem

LEMMA ElectionUnbeaten ==
  ASSUME TypeOK, UInv, NEW p \in Procs, Elect(p)
  PROVE  UInv'
  <1>0. /\ Unbeaten(p) /\ contested \subseteq Procs
        /\ owner \in [Procs -> {"none", "blank", "full"}]
        /\ ballot \in [Procs -> [left : SUBSET Procs, beaten : BOOLEAN]]
    BY DEF UInv, TypeOK
  <1>1. run[p].pc \in Electing /\ Alive(p) /\ reused' = reused
    BY DEF Elect, OwnerOpen, OwnerWrite, OwnerCheckFails, List, Scan, Decide, Electing, Alive
  <1>2. \A q \in Procs \ {p} : run'[q] = run[q]
    BY OwnRunOnly DEF Step
  <1>3. \A q \in Procs : PidInUse(q)' => PidInUse(q)
    BY <1>1, <1>2, SparesPids
  <1>4. CASE OwnerOpen(p) \/ OwnerWrite(p)
    <2>1. UNCHANGED <<ballot, contested>> /\ owner' \in {[owner EXCEPT ![p] = "blank"], [owner EXCEPT ![p] = "full"]}
      BY <1>4 DEF OwnerOpen, OwnerWrite, history
    <2>2. Spares(p)
      BY <1>0, <1>2, <1>3, <2>1 DEF Spares
    <2>3. run'[p].pc \in {"write", "list"} /\ run[p].pc # "scan"
      BY <1>4, Places, Relabelled DEF OwnerOpen, OwnerWrite
    <2>4. Unbeaten(p)'
      BY <1>0, <1>1, <1>3, <2>1, <2>3 DEF Unbeaten, Electing
    <2> QED
      BY <2>2, <2>4, SparesThem
  <1>5. CASE OwnerCheckFails(p)
    <2>1. UNCHANGED <<ballot, owner>> /\ contested' = contested \ {p} /\ run[p].pc # "scan"
      BY <1>5 DEF OwnerCheckFails, Elected
    <2>2. Spares(p)
      BY <1>0, <1>2, <1>3, <2>1 DEF Spares
    <2>3. run'[p].pc = "idle"
      BY <1>5, Idled DEF OwnerCheckFails
    <2>4. Unbeaten(p)'
      BY <1>0, <2>1, <2>3 DEF Unbeaten, Electing
    <2> QED
      BY <2>2, <2>4, SparesThem
  <1>6. CASE List(p)
    <2>1. /\ UNCHANGED <<owner, contested>> /\ run[p].pc = "list"
          /\ ballot'[p].beaten = ballot[p].beaten
          /\ \A q \in Procs \ {p} : ballot'[q] = ballot[q]
      BY <1>0, <1>6 DEF List, history
    <2>2. Spares(p)
      BY <1>0, <1>2, <1>3, <2>1 DEF Spares
    <2>3. run'[p].pc = "scan"
      BY <1>6, Places, Relabelled DEF List
    <2>4. Unbeaten(p)'
      BY <1>0, <1>1, <1>3, <2>1, <2>3 DEF Unbeaten
    <2> QED
      BY <2>2, <2>4, SparesThem
  <1>7. CASE Scan(p)
    <2>1. PICK x \in ballot[p].left :
            /\ ballot' = [ballot EXCEPT ![p] = [left |-> @.left \ {x}, beaten |-> @.beaten \/ (PidInUse(x) /\ Beats(x, p))]]
            /\ owner' = owner \/ (~Alive(x) /\ owner' = [owner EXCEPT ![x] = "none"])
      BY <1>7 DEF Scan, PidInUse
    <2>2. UNCHANGED <<contested, run>> /\ run[p].pc = "scan" /\ x \in Procs
      BY <1>0, <1>7 DEF Scan, history
    <2>3. /\ \A q \in Procs \ {p} : ballot'[q] = ballot[q]
          /\ \A q \in Procs : Alive(q) => owner'[q] = owner[q]
          /\ ballot'[p].beaten => ballot[p].beaten \/ (PidInUse(x) /\ Beats(x, p))
      BY <1>0, <2>1
    <2>4. Spares(p)
      BY <1>2, <1>3, <2>2, <2>3 DEF Spares
    <2>5. ballot'[p].beaten => p \in contested \/ owner[p] # "full"
      <3>1. CASE x = p
        BY <1>0, <2>2, <2>3, <3>1 DEF Unbeaten, Beats, Older
      <3>2. CASE x # p
        BY <1>0, <1>1, <2>2, <2>3, <3>2 DEF Unbeaten
      <3> QED
        BY <3>1, <3>2
    <2>6. owner'[p] = owner[p]
      BY <1>1, <2>3
    <2>7. Unbeaten(p)'
      BY <1>0, <1>1, <1>3, <2>2, <2>5, <2>6 DEF Unbeaten
    <2> QED
      BY <2>4, <2>7, SparesThem
  <1>8. CASE Decide(p)
    <2>1. /\ contested' = contested \ {p} /\ ballot' = [ballot EXCEPT ![p] = NoBallot]
          /\ owner' \in {owner, [owner EXCEPT ![p] = "none"]}
      BY <1>8 DEF Decide
    <2>2. Spares(p)
      BY <1>0, <1>2, <1>3, <2>1 DEF Spares
    <2>3. run'[p].pc \in {"idle", "observe"}
      <3>1. CASE ballot[p].beaten
        BY <1>8, <3>1, Idled DEF Decide
      <3>2. CASE ~ballot[p].beaten
        BY <1>8, <3>2, Places, Relabelled DEF Decide
      <3> QED
        BY <3>1, <3>2
    <2>4. ~ballot'[p].beaten
      BY <1>0, <2>1 DEF NoBallot
    <2>5. Unbeaten(p)'
      BY <2>3, <2>4 DEF Unbeaten, Electing
    <2> QED
      BY <2>2, <2>5, SparesThem
  <1> QED
    BY <1>4, <1>5, <1>6, <1>7, <1>8 DEF Elect

LEMMA BeginUnbeaten ==
  ASSUME TypeOK, UInv, NEW p \in Procs, NEW c \in Calls, Begin(p, c)
  PROVE  UInv'
  <1>1. run[p].pc = "idle" /\ Alive(p) /\ run[p].pc \notin Electing /\ Unbeaten(p)
    BY IdleIs DEF Begin, BeginAcquire, BeginRenew, BeginRelease, Electing, Alive, UInv
  <1>2. CASE BeginRenew(p, c) \/ BeginRelease(p, c)
    <2>1. Elsewhere(p) /\ UNCHANGED <<owner, ballot, reused, contested>>
      BY <1>2, EntersElsewhere DEF BeginRenew, BeginRelease, election, history
    <2> QED
      BY <1>1, <2>1, ElsewhereUnbeaten
  <1>3. CASE BeginAcquire(p, c)
    <2>1. PICK l \in {"open", "list"} : /\ Enter(p, At(l, "prune", c, 0))
                                        /\ l = "list" => owner[p] # "none"
      BY <1>3 DEF BeginAcquire
    <2>2. Framed(p) /\ run'[p].pc = l
      BY <2>1, SlotZero, Places, Enters
    <2>3. UNCHANGED <<owner, ballot, reused>>
      BY <1>3 DEF BeginAcquire
    <2>4. contested \subseteq contested' /\ (\E q \in Procs \ {p} : PidInUse(q)) => p \in contested'
      BY <1>3 DEF BeginAcquire
    <2>5. \A q \in Procs : PidInUse(q)' => PidInUse(q)
      BY <1>1, <2>2, <2>3, SparesPids DEF Framed
    <2>6. Spares(p)
      BY <1>3, <2>2, <2>3, <2>5 DEF Spares, Framed, BeginAcquire
    <2>7. Unbeaten(p)'
      BY <1>1, <1>3, <2>1, <2>2, <2>3, <2>5 DEF Unbeaten, BeginAcquire
    <2> QED
      BY <2>6, <2>7, SparesThem
  <1> QED
    BY <1>2, <1>3 DEF Begin

LEMMA EnvironmentUnbeaten ==
  ASSUME TypeOK, UInv, NEW p \in Procs, Die(p) \/ PidTaken(p) \/ PidFreed(p)
  PROVE  UInv'
  <1>0. ballot \in [Procs -> [left : SUBSET Procs, beaten : BOOLEAN]] /\ Unbeaten(p)
    BY DEF TypeOK, UInv
  <1>1. CASE Die(p)
    <2>1. Framed(p) /\ run'[p].pc = "dead" /\ Alive(p)
      BY <1>1, IdleIs, Reframed DEF Die
    <2>2. /\ UNCHANGED <<owner, reused>> /\ ballot' = [ballot EXCEPT ![p] = NoBallot]
          /\ contested' = contested \ {p}
      BY <1>1 DEF Die
    <2>3. Spares(p)
      BY <1>0, <2>1, <2>2, SparesPids DEF Spares, Framed
    <2>4. Unbeaten(p)'
      BY <1>0, <2>1, <2>2 DEF Unbeaten, Electing, NoBallot
    <2> QED
      BY <2>3, <2>4, SparesThem
  <1>2. CASE PidTaken(p)
    <2>1. UNCHANGED <<owner, ballot, run>> /\ contested' = contested \cup {q \in Procs : run[q].pc \in Electing}
      BY <1>2 DEF PidTaken
    <2> SUFFICES ASSUME NEW q \in Procs PROVE Unbeaten(q)'
      BY DEF UInv
    <2>2. Unbeaten(q)
      BY DEF UInv
    <2> QED
      BY <2>1, <2>2 DEF Unbeaten
  <1>3. CASE PidFreed(p)
    <2>1. UNCHANGED <<owner, ballot, run, contested>> /\ reused' \subseteq reused
      BY <1>3 DEF PidFreed, history
    <2>2. \A q \in Procs : PidInUse(q)' => PidInUse(q)
      BY <2>1 DEF PidInUse, Alive
    <2> QED
      BY <2>1, <2>2 DEF UInv, Unbeaten
  <1> QED
    BY <1>1, <1>2, <1>3

LEMMA NextUnbeaten == TypeOK /\ UInv /\ [Next]_vars => UInv'
  <1> SUFFICES ASSUME TypeOK, UInv, [Next]_vars PROVE UInv'
    OBVIOUS
  <1>1. CASE UNCHANGED <<owner, ballot, reused, contested, run>>
    BY <1>1 DEF UInv, Unbeaten, PidInUse, Alive
  <1>2. UNCHANGED vars \/ (\E c \in Calls : Lapse(c)) \/ (\E s \in Slots : LockExpires(s)) =>
          UNCHANGED <<owner, ballot, reused, contested, run>>
    BY DEF vars, Lapse, LockExpires, election, history
  <1>3. ASSUME NEW p \in Procs, Read(p) \/ LockStep(p) \/ Section(p) \/ BeginStatus(p) PROVE UInv'
    <2>1. Alive(p)
      BY <1>3, OnlyTheLiving DEF Step
    <2>2. UNCHANGED <<owner, ballot, reused, contested>> /\ run[p].pc \notin Electing /\ Elsewhere(p)
      BY <1>3, WorkElsewhere DEF election, history
    <2> QED
      BY <2>1, <2>2, ElsewhereUnbeaten
  <1> QED
    BY <1>1, <1>2, <1>3, ElectionUnbeaten, BeginUnbeaten, EnvironmentUnbeaten DEF Next, Step

\* What a process does tells at most the call it serves, and makes nobody new or outranked.
Spoken(c) == \/ UNCHANGED status
             \/ \E v \in Statuses \ {"new", "outranked"} : Tell(c, v)

LEMMA SpokenKeeps ==
  ASSUME TypeOK, NEW d, Spoken(d), NEW c \in Calls, status[c] \notin {"new", "outranked"}
  PROVE  status'[c] \notin {"new", "outranked"}
  BY DEF Spoken, Tell, TypeOK

LEMMA DoneSpoken ==
  ASSUME TypeOK, NEW p \in Procs, NEW ok \in BOOLEAN, SectionDone(p, ok)
  PROVE  Spoken(run[p].call)
  <1>1. run[p].sec \in {"prune", "take", "renew", "release"}
    BY FrameTypes DEF TypeOK
  <1>2. PruneDone(p) \/ TakeDone(p, ok) \/ RenewDone(p, ok) \/ ReleaseDone(p, ok)
    BY <1>1 DEF SectionDone
  <1> QED
    BY <1>2 DEF PruneDone, TakeDone, RenewDone, ReleaseDone, Spoken, Statuses, calls

LEMMA RefusalSpoken ==
  ASSUME TypeOK, NEW p \in Procs, LockRefused(p)
  PROVE  Spoken(run[p].call)
  BY DoneSpoken DEF LockRefused, Spoken, calls

LEMMA WorkSpoken ==
  ASSUME TypeOK, NEW p \in Procs, Read(p) \/ LockStep(p) \/ Section(p) \/ BeginStatus(p)
  PROVE  Spoken(run[p].call)
  <1>1. CASE Read(p)
    BY <1>1 DEF Read, Observe, LookFree, LookOwned, LookLeft, PruneDone, TakeDone, RenewDone, Spoken,
       Statuses, calls
  <1>2. CASE LockStep(p)
    <2>1. CASE Unlock(p)
      <3>1. run[p].ok \in BOOLEAN
        BY FrameTypes DEF TypeOK
      <3> QED
        BY <2>1, <3>1, DoneSpoken DEF Unlock
    <2>2. CASE ~Unlock(p)
      BY <1>2, <2>2, RefusalSpoken DEF LockStep, Lock, LockFails, Inspect, Evict, EvictFails, Spoken, calls
    <2> QED
      BY <2>1, <2>2
  <1>3. CASE Section(p) \/ BeginStatus(p)
    BY <1>3 DEF Section, BeginStatus, Recheck, Drop, Create, Fill, FillFails, Verify, Rewrite, Refill, RenewFails, DropFails, Throws,
       Spoken, Statuses, calls
  <1> QED
    BY <1>1, <1>2, <1>3

\* Only the end of an election tells a call that it is outranked.
LEMMA OutrankedIsBeaten ==
  ASSUME IInv, UInv, [Next]_vars, NEW c \in Calls, status[c] # "outranked", status'[c] = "outranked"
  PROVE  ProcOf[c] \in contested \/ owner[ProcOf[c]] = "blank"
  <1>1. TypeOK /\ Orderly /\ status \in [Calls -> Statuses]
    BY DEF IInv, TypeOK
  <1>2. ~UNCHANGED status
    OBVIOUS
  <1>3. ASSUME NEW d, Spoken(d) PROVE FALSE
    BY <1>1, <1>3 DEF Spoken, Tell
  <1>4. PICK p \in Procs : Elect(p)
    <2>1. UNCHANGED vars \/ (\E d \in Calls : Lapse(d)) \/ (\E s \in Slots : LockExpires(s))
            \/ (\E p \in Procs : PidTaken(p) \/ PidFreed(p)) => UNCHANGED status
      BY DEF vars, Lapse, LockExpires, PidTaken, PidFreed, calls
    <2>d. ASSUME NEW p \in Procs, Die(p) PROVE FALSE
      BY <2>d DEF Die
    <2>2. ASSUME NEW p \in Procs, NEW d \in Calls, Begin(p, d) PROVE FALSE
      BY <1>1, <2>2 DEF Begin, BeginAcquire, BeginRenew, BeginRelease, Tell, calls
    <2>3. \A p \in Procs : ~(Read(p) \/ LockStep(p) \/ Section(p) \/ BeginStatus(p))
      BY <1>1, <1>3, WorkSpoken
    <2> QED
      BY <1>2, <2>1, <2>d, <2>2, <2>3 DEF Next, Step
  <1>5. Decide(p) /\ ballot[p].beaten /\ run[p].call = c
    <2>1. ~(OwnerOpen(p) \/ OwnerWrite(p) \/ List(p) \/ Scan(p))
      BY <1>2 DEF OwnerOpen, OwnerWrite, List, Scan, calls
    <2>2. ~OwnerCheckFails(p)
      BY <1>1 DEF OwnerCheckFails, Tell
    <2>3. Decide(p)
      BY <1>4, <2>1, <2>2 DEF Elect
    <2> QED
      BY <1>1, <2>3 DEF Decide, Tell
  <1>6. ProcOf[c] = p /\ run[p].pc = "scan"
    <2>1. c # NoCall
      OBVIOUS
    <2> QED
      BY <1>1, <1>5, <2>1 DEF Decide, Orderly, Fits
  <1> QED
    BY <1>1, <1>5, <1>6 DEF UInv, Unbeaten, TypeOK

-----------------------------------------------------------------------------
(* The abstract scope. *)

\* The scope that the files implement, held by the calls whose lease counts.
Pool == INSTANCE LeasePool WITH Clients <- Calls, holders <- Holders

\* The limit of the scope: no more calls than slots hold unexpired leases, however
\* many processes think they own the directory.
WithinLimit == ~stolen => IsFiniteSet(Holders) /\ Cardinality(Holders) <= Limit

\* A process takes the leases of all its calls with it when it dies.
Dies(p) == Alive(p) /\ ~Alive(p)' /\ Holders' = {c \in Holders : ProcOf[c] # p}

\* As long as no slot lock was stolen the files are a lease pool: a step gives one free
\* slot to one call, or frees one, or is a death.
FilePool == [][~stolen' => Pool!Next \/ \E p \in Procs : Dies(p)]_Holders

LEMMA HoldersFit == IInv => WithinLimit
  <1> SUFFICES ASSUME IInv, ~stolen PROVE IsFiniteSet(Holders) /\ Cardinality(Holders) <= Limit
    BY DEF WithinLimit
  <1> DEFINE slotOf == [c \in Holders |-> at[c]]
  <1>1. \A c \in Holders : lease[at[c]].by = c /\ at[c] \in Slots
    BY DEF IInv, TypeOK, Unstolen, Owned, Holders
  <1>2. slotOf \in Injection(Holders, Slots)
    BY <1>1 DEF Injection, IsInjective
  <1>3. IsFiniteSet(Slots) /\ Cardinality(Slots) = Limit
    BY FS_Interval DEF Slots
  <1> HIDE DEF slotOf
  <1> QED
    BY <1>2, <1>3, FS_Injection

LEMMA StolenStays == [Next]_vars /\ stolen /\ stolen \in BOOLEAN => stolen'
  BY DEF Next, vars, Step, Elect, Read, LockStep, Section, BeginStatus, Begin, BeginAcquire, OwnerOpen,
     OwnerWrite, OwnerCheckFails, Elected, List, Scan, Decide, Lock, LockFails, Inspect, Evict, Unlock, Observe,
     LookFree, LookOwned, LookLeft, BeginRenew, BeginRelease, Recheck, Drop, Create, Fill, FillFails,
     Verify, Rewrite, Refill, DropFails, RenewFails, Throws, EvictFails, Lapse, LockExpires, Die, PidTaken,
     PidFreed

LEMMA PoolCardinality == \A S : Pool!Cardinality(S) = Cardinality(S)
  BY DEF Cardinality, Pool!Cardinality

\* A step that changes the standing of one call only is the pool's: a newcomer found a
\* slot free, since with it the limit still holds.
LEMMA OneStanding ==
  ASSUME WithinLimit, WithinLimit', ~stolen, ~stolen', NEW c \in Calls,
         \A d \in Calls \ {c} : (d \in Holders)' <=> d \in Holders
  PROVE  Holders' = Holders \/ Pool!Next
  <1>0. Holders \subseteq Calls /\ Holders' \subseteq Calls
    BY DEF Holders
  <1>1. CASE (c \in Holders)' <=> c \in Holders
    BY <1>0, <1>1
  <1>2. CASE c \in Holders /\ c \notin Holders'
    <2>1. Holders' = Holders \ {c}
      BY <1>0, <1>2
    <2> QED
      BY <1>2, <2>1 DEF Pool!Next, Pool!Give
  <1>3. CASE c \notin Holders /\ c \in Holders'
    <2>1. Holders' = Holders \cup {c}
      BY <1>0, <1>3
    <2>2. /\ IsFiniteSet(Holders) /\ Cardinality(Holders) \in Nat
          /\ Cardinality(Holders)' <= Limit
      BY FS_CardinalityType DEF WithinLimit
    <2>3. Cardinality(Holders \cup {c}) = Cardinality(Holders) + 1
      BY <1>3, <2>2, FS_AddElement
    <2>4. Cardinality(Holders) < Limit
      BY <2>1, <2>2, <2>3
    <2> QED
      BY <1>3, <2>1, <2>4, PoolCardinality DEF Pool!Next, Pool!Take
  <1> QED
    BY <1>1, <1>2, <1>3

\* A process at work changes the standing of the call it serves only.
LEMMA WorkStanding ==
  ASSUME IInv, NEW p \in Procs, Step(p) \/ BeginStatus(p), NEW d \in Calls, d # run[p].call
  PROVE  (d \in Holders)' <=> d \in Holders
  <1>0. TypeOK
    BY DEF IInv
  <1>1. Alive(p)' /\ Alive(p)
    <2>1. Alive(p)
      BY OnlyTheLiving
    <2>2. CASE Elect(p)
      <3>1. CASE run' = run
        BY <2>1, <3>1 DEF Alive
      <3>2. CASE \E l \in {"write", "list", "scan", "observe"} : Goto(p, l)
        BY <1>0, <2>1, <3>2, Places, Relabelled DEF Alive
      <3>3. CASE Enter(p, Idle)
        BY <1>0, <2>1, <3>3, Idled DEF Alive
      <3> QED
        BY <2>2, <3>1, <3>2, <3>3 DEF Elect, OwnerOpen, OwnerWrite, OwnerCheckFails, Elected, List, Scan, Decide
    <2>3. CASE Read(p) \/ LockStep(p) \/ Section(p) \/ BeginStatus(p)
      BY <1>0, <2>1, <2>3, WorkElsewhere DEF Elsewhere, Alive, TypeOK
    <2> QED
      BY <2>1, <2>2, <2>3 DEF Step
  <1>2. \A q \in Procs : Alive(q)' <=> Alive(q)
    BY <1>0, <1>1, OwnRunOnly DEF Alive
  <1>3. status'[d] = status[d]
    <2>1. CASE Elect(p)
      BY <1>0, <2>1 DEF Elect, OwnerOpen, OwnerWrite, OwnerCheckFails, Elected, List, Scan, Decide, Tell, calls, TypeOK
    <2>2. CASE Read(p) \/ LockStep(p) \/ Section(p) \/ BeginStatus(p)
      <3>1. Spoken(run[p].call)
        BY <1>0, <2>2, WorkSpoken
      <3>2. status \in [Calls -> Statuses]
        BY <1>0 DEF TypeOK
      <3> QED
        BY <3>1, <3>2 DEF Spoken, Tell
    <2> QED
      BY <2>1, <2>2 DEF Step
  <1>4. (d \in lapsed)' <=> d \in lapsed
    BY DEF Step, Elect, Read, LockStep, Section, BeginStatus, OwnerOpen, OwnerWrite, OwnerCheckFails, Elected,
       List, Scan, Decide, Lock, LockFails, Inspect, Evict, EvictFails, Unlock, Observe, LookFree, LookOwned,
       LookLeft, Recheck, Drop, Create, Fill, FillFails, Verify, Rewrite, Refill, RenewFails, DropFails, Throws
  <1>5. ProcOf[d] \in Procs
    OBVIOUS
  <1> QED
    BY <1>2, <1>3, <1>4, <1>5 DEF Holders

LEMMA BeginStanding ==
  ASSUME IInv, NEW p \in Procs, NEW c \in Calls, Begin(p, c), NEW d \in Calls, d # c
  PROVE  (d \in Holders)' <=> d \in Holders
  <1>1. status'[d] = status[d] /\ lapsed' = lapsed
    BY DEF IInv, TypeOK, Begin, BeginAcquire, BeginRenew, BeginRelease, Tell, calls
  <1>2. \E l \in PCs \ {"dead"} : \E sec \in {"prune", "renew", "release"} : \E s \in Slots :
          Enter(p, At(l, sec, c, s))
    BY SlotZero, Places DEF Begin, BeginAcquire, BeginRenew, BeginRelease, IInv, TypeOK
  <1>3. Framed(p) /\ Alive(p)'
    BY <1>2, Enters DEF IInv, Alive
  <1>4. Alive(p)
    BY OnlyTheLiving
  <1>5. Alive(ProcOf[d])' <=> Alive(ProcOf[d])
    BY <1>3, <1>4 DEF Framed, Alive
  <1> QED
    BY <1>1, <1>5 DEF Holders

LEMMA StepIsThePools ==
  ASSUME IInv, WithinLimit, WithinLimit', [Next]_vars, ~stolen'
  PROVE  Holders' = Holders \/ Pool!Next \/ \E p \in Procs : Dies(p)
  <1>0. ~stolen /\ WithinLimit /\ WithinLimit' /\ TypeOK
    <2>1. TypeOK /\ stolen \in BOOLEAN
      BY DEF IInv, TypeOK
    <2>2. ~stolen
      BY <2>1, StolenStays
    <2> QED
      BY <2>1, <2>2
  <1>1. CASE UNCHANGED <<run, status, lapsed>>
    BY <1>1 DEF Holders, Alive
  <1>2. UNCHANGED vars \/ (\E s \in Slots : LockExpires(s)) \/ (\E p \in Procs : PidTaken(p) \/ PidFreed(p)) =>
          UNCHANGED <<run, status, lapsed>>
    BY DEF vars, LockExpires, PidTaken, PidFreed, calls
  <1>3. ASSUME NEW c \in Calls, Lapse(c) PROVE Holders' = Holders \/ Pool!Next
    <2>1. \A d \in Calls \ {c} : (d \in Holders)' <=> d \in Holders
      BY <1>3 DEF Lapse, Holders, Alive, calls
    <2> QED
      BY <1>0, <2>1, OneStanding
  <1>4. ASSUME NEW p \in Procs, NEW c \in Calls, Begin(p, c) PROVE Holders' = Holders \/ Pool!Next
    BY <1>0, <1>4, BeginStanding, OneStanding
  <1>5. ASSUME NEW p \in Procs, Step(p) \/ BeginStatus(p) PROVE Holders' = Holders \/ Pool!Next
    <2>1. \A d \in Calls : d # run[p].call => ((d \in Holders)' <=> d \in Holders)
      BY <1>5, WorkStanding
    <2>2. CASE run[p].call \in Calls
      BY <1>0, <2>1, <2>2, OneStanding
    <2>3. CASE run[p].call \notin Calls
      <3>1. Holders \subseteq Calls /\ Holders' \subseteq Calls
        BY DEF Holders
      <3> QED
        BY <2>1, <2>3, <3>1
    <2> QED
      BY <2>2, <2>3
  <1>6. ASSUME NEW p \in Procs, Die(p) PROVE Dies(p)
    <2>1. Framed(p) /\ run'[p].pc = "dead" /\ Alive(p) /\ UNCHANGED lapsed
      BY <1>0, <1>6, IdleIs, Reframed DEF Die
    <2>s. \A c \in Calls : ProcOf[c] # p => status'[c] = status[c]
      BY <1>6 DEF Die
    <2>2. \A q \in Procs : Alive(q)' <=> Alive(q) /\ q # p
      BY <2>1 DEF Framed, Alive
    <2>3. Holders' = {c \in Holders : ProcOf[c] # p}
      BY <2>1, <2>s, <2>2 DEF Holders
    <2> QED
      BY <2>1, <2>2, <2>3 DEF Dies
  <1> QED
    BY <1>1, <1>2, <1>3, <1>4, <1>5, <1>6 DEF Next

-----------------------------------------------------------------------------
\* Every variable has its type, whatever is stolen or torn.
THEOREM FileTypeOK == Spec => []TypeOK
  <1>1. IInv => TypeOK
    BY DEF IInv
  <1> QED
    BY <1>1, Inductive, PTL

\* A lease is lost only by lapsing, for every number of processes, calls, slots and
\* retries, unless a slot lock was removed from under a process in its section.
THEOREM FileOwnership == Spec => []OwnsUntilLapsed
  <1>1. IInv => OwnsUntilLapsed
    BY DEF IInv, Unstolen, Owned, Holders, OwnsUntilLapsed
  <1> QED
    BY <1>1, Inductive, PTL

\* The scope's limit holds, for every number of slots, calls and processes.
THEOREM FileWithinLimit == Spec => []WithinLimit
  BY Inductive, HoldersFit, PTL

\* The files implement the pool that the provider attempts rely on (LeasePool), for any
\* number of slots, calls and processes: what PostgreSQL's table does for each scope.
THEOREM FileImplementsPool == Spec => Pool!Init /\ FilePool
  <1>1. Init => Pool!Init
    BY DEF Init, Pool!Init, Holders
  <1>2. IInv /\ WithinLimit /\ WithinLimit' /\ [Next]_vars => [~stolen' => Pool!Next \/ \E p \in Procs : Dies(p)]_Holders
    BY StepIsThePools
  <1> QED
    BY <1>1, <1>2, Inductive, FileWithinLimit, PTL DEF Spec, FilePool

LEMMA Electors == Spec => []EInv
  <1>1. Init => EInv
    BY IdleIs DEF Init, EInv, Stands
  <1> QED
    BY <1>1, NextStands, FileTypeOK, PTL DEF Spec

\* An older owner whose file stands throughout an election keeps a younger process
\* out of the slots, for any number of processes that open, write, remove and die.
THEOREM FileElderRespected == Spec => ElderRespected
  <1>1. TypeOK /\ EInv /\ [Next]_vars =>
          \A p \in Procs : run[p].pc = "scan" /\ run'[p].pc = "observe" => elders[p] = {}
    BY WinnerHasNoElder
  <1> QED
    BY <1>1, Electors, FileTypeOK, PTL DEF Spec, ElderRespected

\* A call is outranked only if, since its election began, another owner's pid was in use, or
\* its own file is blank, for any number of processes and of calls each makes.
THEOREM FileSurvivorServed == Spec => SurvivorServed
  <1>1. Init => UInv
    BY IdleIs DEF Init, UInv, Unbeaten, NoBallot, Electing
  <1>2. IInv /\ UInv /\ [Next]_vars => \A c \in Calls :
          status[c] # "outranked" /\ status'[c] = "outranked"
            => ProcOf[c] \in contested \/ owner[ProcOf[c]] = "blank"
    BY OutrankedIsBeaten
  <1> QED
    BY <1>1, <1>2, NextUnbeaten, FileTypeOK, Inductive, PTL DEF Spec, SurvivorServed

=============================================================================
