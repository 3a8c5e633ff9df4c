----------------------------- MODULE TL2Proofs ------------------------------
(***************************************************************************)
(* The steps of tm_end and the calls that abort keep the invariant of      *)
(* TL2Inv.tla, and with those of TL2ReadProofs.tla that makes the theorems *)
(* about Spec, for any set of threads, of words and of values, and for any *)
(* bound on the number of transactions.                                    *)
(*                                                                         *)
(* Then what TL2Words.tla says below: as long as the clock fits, an int    *)
(* with a version above its lock bit does what the locks of TL2.tla do;    *)
(* the order in which tm_end takes the locks, if ws_item_cmp is one; the   *)
(* Bloom filter of the write set has no false negatives.                   *)
(***************************************************************************)
EXTENDS TL2ReadProofs, TL2Words, FiniteSetTheorems, WellFoundedInduction

-----------------------------------------------------------------------------
(* Calls that abort, and the ends of a transaction without a write.        *)

LEMMA AbortsKept ==
  ASSUME IInv, TypeOK', NEW t \in Threads, Abort(t), pc[t] \notin Ending
  PROVE  IInv'
<1>1. held[t] = {} /\ pc[t] \notin Decided
  BY DEF IInv, ThreadInv, Phase, Ending
<1> QED  BY <1>1, AbortKept

LEMMA TmEndReadOnlyKept ==
  ASSUME IInv, TypeOK', NEW t \in Threads, TmEndReadOnly(t)
  PROVE  IInv'
<1>a. TypeOK /\ Clock /\ ThreadInv(t) /\ Call(t)
  BY DEF IInv, Call
<1>b. Others(t) /\ Local(t) /\ Monotone
  BY <1>a, CallEffect, LocalMonotone
<1>1. /\ pc[t] = "ready" /\ pc'[t] = "idle" /\ tx'[t] = NoTx /\ loc'[t] = NoLoc
      /\ seen'[t] = {} /\ suspect'[t] = {} /\ held' = held
      /\ done' = done \cup {[ro |-> tx[t].ro, at |-> tx[t].rv,
                             reads |-> seen[t], suspect |-> suspect[t]]}
  BY <1>a, CleanupEffect DEF TmEndReadOnly
<1>2. held[t] = {}
  BY <1>1, <1>a DEF ThreadInv, Phase, Ending, Locking, Decided
<1>3. ThreadInv(t)'
  BY <1>1, <1>2, IdleKept
<1>4. Owners' /\ Clock' /\ Latest'
  <2>1. tx'[t].rv <= gv /\ loc'[t].nrv <= gv
    BY <1>1, <1>a, TypeFacts DEF NoTx, NoLoc
  <2> QED  BY <1>b, <1>2, <2>1, LocalKeeps
<1>5. PICK s \in Nat : s = tx[t].rv
  BY <1>a, TypeFacts
<1>6. s <= gv /\ gv' = gv
  BY <1>5, <1>a, <1>b DEF Clock, Local
<1>7. ASSUME NEW r \in seen[t], r[1] \notin suspect[t] PROVE SettledRead(r, s)'
  <2>1. r[1] \in Words /\ SettledRead(r, s)
    BY <1>5, <1>7, <1>a, HistoryTypes DEF ThreadInv, Snapshot
  <2> QED  BY <2>1, <1>6, <1>b, LocalSettled
<1>8. Committed'
  <2>1. ASSUME NEW d \in done' \ done
        PROVE d.at <= gv' /\ \A r \in d.reads : r[1] \notin d.suspect => SettledRead(r, d.at)'
    <3>1. d.at = s /\ d.reads = seen[t] /\ d.suspect = suspect[t]
      BY <2>1, <1>1, <1>5
    <3> QED  BY <3>1, <1>6, <1>7
  <2> QED  BY <2>1, <1>b, CommittedKept
<1> QED  BY <1>b, <1>3, <1>4, <1>8, Assemble

LEMMA TmEndKept ==
  ASSUME IInv, TypeOK', NEW t \in Threads, TmEnd(t)
  PROVE  IInv'
<1>a. TypeOK /\ Clock /\ ThreadInv(t) /\ Call(t)
  BY DEF IInv, Call
<1>b. Others(t) /\ Local(t)
  BY <1>a, CallEffect
<1>1. /\ pc[t] = "ready" /\ pc'[t] = "lock" /\ tx' = tx /\ held' = held /\ done' = done
      /\ seen' = seen /\ suspect' = suspect /\ ~tx[t].ro /\ Written(t) # {}
      /\ loc' = [loc EXCEPT ![t].todo = Written(t)]
  BY <1>a, Domains DEF TmEnd, Goto
<1>2. /\ loc'[t].todo = Written(t) /\ loc'[t].prev = loc[t].prev /\ loc'[t].nrv = loc[t].nrv
  BY <1>1, <1>a, TypeFacts DEF Locals
<1>3. Phase(t)' /\ Validation(t)'
  <2>1. held[t] = {} /\ Written(t)' = Written(t)
    BY <1>1, <1>a DEF ThreadInv, Phase, Ending, Locking, Decided, Written
  <2> QED  BY <2>1, <1>1, <1>2 DEF Phase, Ending, Locking, Decided, Validation
<1>4. Copies(t)'
  <2>1. Copied(t)' = {}
    BY <1>1 DEF Copied
  <2> QED  BY <1>1, <1>2, <2>1, <1>a, <1>b DEF Copies, Reading, RoReading, ThreadInv, Local
<1> QED  BY <1>a, <1>b, <1>1, <1>2, <1>3, <1>4, QuietKept DEF Clock

-----------------------------------------------------------------------------
(* vl_try_lock, and the failures of tm_end.                                *)

LEMMA VlTryLockKept ==
  ASSUME IInv, TypeOK', NEW t \in Threads, VlTryLock(t)
  PROVE  IInv'
<1>a. TypeOK /\ Clock /\ ThreadInv(t) /\ Quiet(t)
  BY DEF IInv, Quiet
<1>b. Others(t) /\ Local(t)
  BY <1>a, QuietEffect
<1>1. PICK w \in First(loc[t].todo) :
        /\ ~Stale(vl[w], tx[t].rv)
        /\ loc' = [loc EXCEPT ![t] = [@ EXCEPT !.cur = {w}, !.prev[w] = vl[w].ver]]
  BY DEF VlTryLock
<1>2. /\ pc[t] = "lock" /\ pc'[t] = "cas" /\ tx' = tx /\ held' = held /\ done' = done
      /\ seen' = seen /\ suspect' = suspect
  BY <1>a, Domains DEF VlTryLock, Goto
<1>3. w \in loc[t].todo /\ w \in Words /\ vl[w].ver \in Nat /\ tx[t].rv \in Nat
  BY <1>1, <1>a, FirstSubset, TypeFacts
<1>4. /\ loc'[t].cur = {w} /\ loc'[t].todo = loc[t].todo /\ loc'[t].nrv = loc[t].nrv
      /\ loc'[t].prev[w] = vl[w].ver
      /\ \A u \in Words \ {w} : loc'[t].prev[u] = loc[t].prev[u]
  BY <1>1, <1>3, <1>a, TypeFacts DEF Locals
<1>5. vl[w].ver <= tx[t].rv
  BY <1>1, <1>3 DEF Stale, VlReadVersion
<1>6. Phase(t)' /\ Validation(t)'
  <2>1. Written(t)' = Written(t)
    BY <1>2 DEF Written
  <2> QED  BY <2>1, <1>2, <1>3, <1>4, <1>5, <1>a
           DEF Phase, Ending, Locking, Decided, Validation, ThreadInv
<1>7. Copies(t)'
  <2>1. Copied(t)' = {}
    BY <1>2 DEF Copied
  <2>2. \A u \in Words : loc'[t].prev[u] <= vl'[u].ver
    BY <1>3, <1>4, <1>a, <1>b DEF ThreadInv, Copies, Local
  <2> QED  BY <1>2, <2>1, <2>2 DEF Copies, Reading, RoReading
<1> QED  BY <1>a, <1>b, <1>2, <1>4, <1>6, <1>7, QuietKept DEF Clock

LEMMA FailKept ==
  ASSUME IInv, TypeOK', NEW t \in Threads, Fail(t), pc[t] \in Locking \cup {"validate"}
  PROVE  IInv'
<1>a. TypeOK /\ Clock /\ ThreadInv(t) /\ pc[t] \notin Decided
  BY DEF IInv, Locking, Decided
<1>b. Others(t) /\ Local(t)
  BY <1>a, FailEffect
<1>1. CASE held[t] = {}
  BY <1>1, <1>a, AbortKept DEF Fail
<1>2. CASE held[t] # {}
  <2>1. /\ pc'[t] = "release" /\ tx' = tx /\ held' = held /\ done' = done /\ loc' = loc
        /\ seen' = seen /\ suspect' = suspect
    BY <1>2, <1>a, Domains DEF Fail, Goto
  <2>2. Phase(t)' /\ Validation(t)'
    BY <2>1, <1>2, <1>a DEF Phase, Ending, Locking, Decided, Validation, ThreadInv
  <2>3. Copies(t)'
    <3>1. Copied(t)' = {}
      BY <2>1 DEF Copied
    <3> QED  BY <2>1, <3>1, <1>a, <1>b DEF Copies, Reading, RoReading, ThreadInv, Local
  <2>4. loc'[t].nrv <= gv /\ pc[t] # "idle"
    BY <2>1, <1>a DEF Clock, Locking
  <2> QED  BY <1>a, <1>b, <2>1, <2>2, <2>3, <2>4, QuietKept
<1> QED  BY <1>1, <1>2

-----------------------------------------------------------------------------
(* Taking and giving back a lock.                                          *)

LEMMA SharedFacts ==
  ASSUME IInv, NEW t \in Threads, Shared(t)
  PROVE  /\ TypeOK /\ Owners /\ Clock /\ Latest /\ Others(t) /\ Monotone
         /\ Phase(t) /\ Copies(t) /\ ReadSet(t) /\ Snapshot(t) /\ Validation(t)
  BY SharedOthers, SharedMonotone DEF IInv, ThreadInv

(* No word is committed, written or given back. *)
LEMMA LatestKept ==
  ASSUME IInv, NEW t \in Threads, Others(t), pc[t] \notin Decided, pc'[t] \notin Decided,
         mem' = mem, hist' = hist, \A w \in Words : vl'[w].ver = vl[w].ver
  PROVE  Latest'
<1>1. \A w \in Words : InWriteBack(w)' <=> InWriteBack(w)
  BY DEF InWriteBack, Others
<1>2. ASSUME NEW u \in Threads, pc'[u] \in Decided
      PROVE u # t /\ pc[u] = pc'[u] /\ loc'[u] = loc[u] /\ tx'[u] = tx[u] /\ held'[u] = held[u]
  BY <1>2 DEF Others
<1> QED  BY <1>1, <1>2 DEF Latest, IInv

LEMMA VlCasKept ==
  ASSUME IInv, TypeOK', NEW t \in Threads, VlCas(t)
  PROVE  IInv'
<1>a. /\ TypeOK /\ Owners /\ Clock /\ Latest /\ Others(t) /\ Monotone
      /\ Phase(t) /\ Copies(t) /\ ReadSet(t) /\ Snapshot(t) /\ Validation(t)
  BY SharedFacts DEF Shared
<1>1. PICK x \in loc[t].cur :
        /\ vl[x] = [ver |-> loc[t].prev[x], locked |-> FALSE]
        /\ vl' = [vl EXCEPT ![x].locked = TRUE]
        /\ held' = [held EXCEPT ![t] = @ \cup {x}]
        /\ loc' = [loc EXCEPT ![t] = [@ EXCEPT !.todo = loc[t].todo \ {x}, !.cur = {}]]
        /\ Goto(t, IF loc[t].todo = {x} THEN "tick" ELSE "lock")
        /\ pc[t] = "cas" /\ UNCHANGED <<gv, mem, tx, seen, suspect, begun, hist, done>>
  BY DEF VlCas
<1>2. /\ x \in loc[t].todo /\ loc[t].prev[x] <= tx[t].rv /\ x \in Words
  BY <1>1, <1>a, TypeFacts DEF Phase
<1>3. vl'[x].locked /\ vl'[x].ver = vl[x].ver /\ \A w \in Words \ {x} : vl'[w] = vl[w]
  BY <1>1, <1>2, <1>a DEF TypeOK
<1>4. pc'[t] = (IF loc[t].todo = {x} THEN "tick" ELSE "lock") /\ held'[t] = held[t] \cup {x}
  BY <1>1, <1>a, Domains DEF Goto
<1>5. /\ loc'[t].todo = loc[t].todo \ {x} /\ loc'[t].prev = loc[t].prev
      /\ loc'[t].nrv = loc[t].nrv
  BY <1>1, <1>a, TypeFacts DEF Locals
<1>6. Owners'
  <2>1. \A u \in Threads : x \notin held[u]
    BY <1>1, <1>2, <1>a DEF Owners
  <2>2. \A w \in Words : vl'[w].locked <=> \E u \in Threads : w \in held'[u]
    <3>1. \A w \in Words \ {x} : \A u \in Threads : w \in held'[u] <=> w \in held[u]
      BY <1>4, <1>a DEF Others
    <3> QED  BY <3>1, <1>3, <1>4, <1>a DEF Owners
  <2>3. \A u, v \in Threads : u # v => held'[u] \cap held'[v] = {}
    BY <2>1, <1>4, <1>a DEF Owners, Others
  <2>4. \A u \in Threads : \A w \in held'[u] : vl'[w].ver <= tx'[u].rv
    <3>1. \A w \in Words : vl'[w].ver = vl[w].ver
      BY <1>3
    <3>2. \A u \in Threads : held[u] \subseteq Words
      BY <1>a, TypeFacts
    <3>3. vl[x].ver <= tx[t].rv
      BY <1>1, <1>2
    <3>4. \A u \in Threads \ {t} : held'[u] = held[u]
      BY <1>a DEF Others
    <3> QED  BY <3>1, <3>2, <3>3, <3>4, <1>1, <1>2, <1>4, <1>a DEF Owners
  <2> QED  BY <2>2, <2>3, <2>4 DEF Owners
<1>7. Clock'
  <2>1. \A w \in Words : vl'[w].ver = vl[w].ver
    BY <1>3
  <2>2. ASSUME NEW u \in Threads
        PROVE /\ tx'[u].rv <= gv' /\ loc'[u].nrv <= gv'
              /\ pc'[u] \in Decided \cup {"validate"} =>
                   tx'[u].rv < loc'[u].wv /\ loc'[u].wv <= gv'
    BY <1>1, <1>4, <1>5, <1>a DEF Clock, Others, Decided
  <2> QED  BY <2>1, <2>2, <1>1, <1>a DEF Clock
<1>8. Latest'
  <2>1. \A w \in Words : vl'[w].ver = vl[w].ver
    BY <1>3
  <2> QED  BY <2>1, <1>1, <1>4, <1>a, LatestKept DEF Decided
<1>9. Committed'
  BY <1>1, <1>a, CommittedKept
<1>10. ReadSet(t)' /\ Snapshot(t)'
  BY <1>1, <1>4, <1>a, ReadsKept
<1>11. Phase(t)' /\ Validation(t)'
  <2>1. Written(t)' = Written(t)
    BY <1>1 DEF Written
  <2> QED  BY <2>1, <1>1, <1>2, <1>4, <1>5, <1>a DEF Phase, Ending, Locking, Decided, Validation
<1>12. Copies(t)'
  <2>1. Copied(t)' = {}
    BY <1>4 DEF Copied
  <2>2. \A w \in Words : loc'[t].prev[w] <= vl'[w].ver
    BY <1>3, <1>5, <1>a DEF Copies
  <2> QED  BY <2>1, <2>2, <1>4 DEF Copies, Reading, RoReading
<1> QED  BY <1>a, <1>6, <1>7, <1>8, <1>9, <1>10, <1>11, <1>12, Assemble DEF ThreadInv

LEMMA VlUnlockKept ==
  ASSUME IInv, TypeOK', NEW t \in Threads, VlUnlock(t)
  PROVE  IInv'
<1>a. /\ TypeOK /\ Owners /\ Clock /\ Latest /\ Others(t) /\ Monotone
      /\ Phase(t) /\ Copies(t) /\ ReadSet(t) /\ Snapshot(t) /\ Validation(t)
  BY SharedFacts DEF Shared
<1>1. PICK x \in First(held[t]) :
        /\ vl' = [vl EXCEPT ![x].locked = FALSE]
        /\ held' = [held EXCEPT ![t] = @ \ {x}]
        /\ pc[t] = "release" /\ UNCHANGED <<gv, mem, begun, hist, done>>
  BY DEF VlUnlock
<1>2. /\ x \in held[t] /\ x \in Words /\ held'[t] = held[t] \ {x}
  BY <1>1, <1>a, Domains, FirstSubset, TypeFacts
<1>3. ~vl'[x].locked /\ vl'[x].ver = vl[x].ver /\ \A w \in Words \ {x} : vl'[w] = vl[w]
  BY <1>1, <1>2, <1>a DEF TypeOK
<1>4. \/ /\ held'[t] = {} /\ pc'[t] = "idle" /\ tx'[t] = NoTx /\ loc'[t] = NoLoc
         /\ seen'[t] = {} /\ suspect'[t] = {}
      \/ held'[t] # {} /\ UNCHANGED <<pc, tx, loc, seen, suspect>>
  BY <1>a, CleanupEffect DEF VlUnlock
<1>5. \A w \in Words : vl'[w].ver = vl[w].ver
  BY <1>3
<1>6. Owners'
  <2>1. \A u \in Threads \ {t} : x \notin held[u] /\ held'[u] = held[u] /\ tx'[u] = tx[u]
    BY <1>2, <1>a DEF Owners, Others
  <2>2. \A w \in Words : vl'[w].locked <=> \E u \in Threads : w \in held'[u]
    <3>1. \A w \in Words \ {x} : \A u \in Threads : w \in held'[u] <=> w \in held[u]
      BY <1>2, <2>1
    <3>2. \A u \in Threads : x \notin held'[u]
      BY <1>2, <2>1
    <3> QED  BY <3>1, <3>2, <1>3, <1>a DEF Owners
  <2>3. \A u, v \in Threads : u # v => held'[u] \cap held'[v] = {}
    BY <2>1, <1>2, <1>a DEF Owners
  <2>4. \A u \in Threads : \A w \in held'[u] : vl'[w].ver <= tx'[u].rv
    <3>1. \A u \in Threads : held[u] \subseteq Words /\ held'[u] \subseteq held[u]
      BY <2>1, <1>2, <1>a, TypeFacts
    <3> QED  BY <3>1, <2>1, <1>4, <1>5, <1>a DEF Owners
  <2> QED  BY <2>2, <2>3, <2>4 DEF Owners
<1>7. Clock'
  <2>2. ASSUME NEW u \in Threads
        PROVE /\ tx'[u].rv <= gv' /\ loc'[u].nrv <= gv'
              /\ pc'[u] \in Decided \cup {"validate"} =>
                   tx'[u].rv < loc'[u].wv /\ loc'[u].wv <= gv'
    <3>1. NoTx.rv <= gv /\ NoLoc.nrv <= gv
      BY <1>a, TypeFacts DEF NoTx, NoLoc
    <3> QED  BY <3>1, <1>1, <1>4, <1>a DEF Clock, Others, Decided
  <2> QED  BY <2>2, <1>1, <1>5, <1>a DEF Clock
<1>8. Latest'
  BY <1>1, <1>4, <1>5, <1>a, LatestKept DEF Decided
<1>9. Committed'
  BY <1>1, <1>a, CommittedKept
<1>10. ThreadInv(t)'
  <2>1. CASE held'[t] = {}
    BY <2>1, <1>4, IdleKept
  <2>2. CASE held'[t] # {}
    <3>1. ReadSet(t)' /\ Snapshot(t)'
      BY <2>2, <1>1, <1>4, <1>a, ReadsKept
    <3>2. Phase(t)' /\ Validation(t)'
      BY <2>2, <1>1, <1>4, <1>a DEF Phase, Ending, Locking, Decided, Validation
    <3>3. Copies(t)'
      <4>1. Copied(t)' = {}
        BY <2>2, <1>1, <1>4 DEF Copied
      <4> QED  BY <4>1, <2>2, <1>1, <1>4, <1>5, <1>a DEF Copies, Reading, RoReading
    <3> QED  BY <3>1, <3>2, <3>3 DEF ThreadInv
  <2> QED  BY <2>1, <2>2
<1> QED  BY <1>a, <1>6, <1>7, <1>8, <1>9, <1>10, Assemble

-----------------------------------------------------------------------------
(* The commit: what the transaction was given still holds at its ticket.   *)

(* A word the transaction itself has locked was not written since it began. *)
LEMMA HeldSettled ==
  ASSUME IInv, NEW t \in Threads, pc[t] \in {"tick", "validate"}, NEW r, r[1] \in held[t],
         SettledRead(r, tx[t].rv), NEW s \in Nat, tx[t].rv <= s,
         pc[t] = "validate" => s < loc[t].wv
  PROVE  SettledRead(r, s)
<1>a. TypeOK /\ Owners /\ Latest /\ r[1] \in Words
  BY TypeFacts DEF IInv
<1>1. PICK h \in hist : h.word = r[1] /\ h.val = r[2] /\ Settled(r[1], h.ver, tx[t].rv)
  BY DEF SettledRead
<1>2. ~InWriteBack(r[1])
  BY <1>a DEF Owners, InWriteBack, Decided
<1>3. /\ h.ver \in Nat /\ tx[t].rv \in Nat /\ vl[r[1]].ver \in Nat
      /\ \A g \in hist : g.ver \in Nat
  BY <1>1, <1>a, HistoryTypes, TypeFacts
<1>4. \A g \in hist : g.word = r[1] => g.ver <= h.ver
  <2>1. \A g \in hist : g.word = r[1] => g.ver <= tx[t].rv
    <3>1. \A g \in hist : g.word = r[1] => g.ver <= vl[r[1]].ver
      BY <1>2, <1>a DEF Latest
    <3>2. vl[r[1]].ver <= tx[t].rv
      BY <1>a DEF Owners
    <3> QED  BY <3>1, <3>2, <1>3
  <2> QED  BY <2>1, <1>1 DEF Settled
<1>5. \A u \in Threads : pc[u] = "validate" /\ r[1] \in held[u] => loc[u].wv > s
  <2>1. \A u \in Threads : r[1] \in held[u] => u = t
    BY <1>a DEF Owners
  <2> QED  BY <2>1, <1>a, TypeFacts
<1>6. h.ver <= s
  BY <1>1, <1>3 DEF Settled
<1> QED  BY <1>1, <1>4, <1>5, <1>6 DEF SettledRead, Settled

(* A validated word was not written since either. *)
LEMMA ValidatedSettled ==
  ASSUME IInv, NEW t \in Threads, NEW r, r[1] \in Words, SettledRead(r, tx[t].rv),
         NEW s \in Nat, tx[t].rv <= s, Settled(r[1], tx[t].rv, s)
  PROVE  SettledRead(r, s)
<1>a. TypeOK
  BY DEF IInv
<1>1. PICK h \in hist : h.word = r[1] /\ h.val = r[2] /\ Settled(r[1], h.ver, tx[t].rv)
  BY DEF SettledRead
<1>2. /\ h.ver \in Nat /\ tx[t].rv \in Nat /\ \A g \in hist : g.ver \in Nat
  BY <1>1, <1>a, HistoryTypes, TypeFacts
<1>3. \A g \in hist : g.word = r[1] /\ g.ver <= s => g.ver <= h.ver
  BY <1>1, <1>2 DEF Settled
<1> QED  BY <1>1, <1>2, <1>3 DEF SettledRead, Settled

(* The test of the validation loop, and of tm_end before it: rv = gv. *)
LEMMA CheckedSettled ==
  ASSUME IInv, NEW t \in Threads, NEW w \in Words, ~Stale(vl[w], tx[t].rv),
         NEW s \in Nat, tx[t].rv <= s
  PROVE  Settled(w, tx[t].rv, s)
<1>1. vl[w].ver \in Nat /\ tx[t].rv \in Nat /\ \A g \in hist : g.ver \in Nat
  BY TypeFacts, HistoryTypes DEF IInv
<1>2. ~vl[w].locked /\ vl[w].ver <= tx[t].rv
  BY <1>1 DEF Stale, VlReadVersion
<1>3. vl[w].ver <= s
  BY <1>1, <1>2
<1>4. Settled(w, vl[w].ver, s)
  BY <1>2, <1>3, UnlockedSettled
<1> QED  BY <1>1, <1>2, <1>4 DEF Settled

LEMMA DecideKept ==
  ASSUME IInv, TypeOK', NEW t \in Threads, Shared(t), NEW wv \in Nat, Decide(t, wv),
         UNCHANGED <<vl, mem, tx, held, seen, suspect>>,
         pc[t] \in {"tick", "validate"}, tx[t].rv < wv, wv <= gv', wv - 1 <= gv,
         \A r \in seen[t] : SettledRead(r, wv - 1)
  PROVE  IInv'
<1>a. /\ TypeOK /\ Owners /\ Clock /\ Latest /\ Others(t) /\ Monotone
      /\ Phase(t) /\ Copies(t) /\ ReadSet(t) /\ Snapshot(t) /\ Validation(t)
  BY SharedFacts
<1>b. gv \in Nat /\ gv' \in Nat /\ tx[t].rv \in Nat /\ wv - 1 \in Nat /\ gv <= gv'
      /\ held[t] \subseteq Words /\ loc[t] \in Locals
  BY <1>a, TypeFacts DEF TypeOK, Monotone
<1>1. /\ held[t] = Written(t) /\ held[t] # {}
  BY <1>a DEF Phase
<1>2. /\ pc'[t] = "write" /\ loc'[t].wv = wv /\ loc'[t].todo = Written(t)
      /\ loc'[t].prev = loc[t].prev /\ loc'[t].nrv = loc[t].nrv
      /\ Written(t)' = Written(t)
  BY <1>a, <1>b, Domains DEF Decide, Goto, Locals, Written
<1>3. /\ \A h \in hist' \ hist : h.word \in held[t] /\ h.ver = wv
      /\ \A w \in held[t] : [word |-> w, ver |-> wv, val |-> tx[t].ws[w]] \in hist'
      /\ hist \subseteq hist'
  BY <1>1 DEF Decide
<1>4. \A w \in held[t] : \A h \in hist : h.word = w => h.ver < wv
  <2>1. \A w \in held[t] : ~InWriteBack(w) /\ vl[w].ver <= tx[t].rv /\ vl[w].ver \in Nat
    BY <1>a, <1>b, TypeFacts DEF Owners, InWriteBack, Decided
  <2>2. \A h \in hist : h.ver \in Nat
    BY <1>a, HistoryTypes
  <2>3. ASSUME NEW w \in held[t], NEW h \in hist, h.word = w PROVE h.ver < wv
    <3>1. h.ver <= vl[w].ver
      BY <2>1, <2>3, <1>a, <1>b DEF Latest
    <3> QED  BY <2>1, <2>2, <3>1, <1>b
  <2> QED  BY <2>3
<1>5. Owners'
  BY <1>a DEF Owners
<1>6. Clock'
  <2>1. ASSUME NEW u \in Threads
        PROVE /\ tx'[u].rv <= gv' /\ loc'[u].nrv <= gv'
              /\ pc'[u] \in Decided \cup {"validate"} =>
                   tx'[u].rv < loc'[u].wv /\ loc'[u].wv <= gv'
    <3>1. tx[u].rv \in Nat /\ loc[u].nrv \in Nat /\ loc[u].wv \in Nat
      BY <1>a, TypeFacts
    <3>2. CASE u = t
      BY <3>1, <3>2, <1>2, <1>a, <1>b DEF Clock
    <3>3. CASE u # t
      BY <3>1, <3>3, <1>a, <1>b DEF Clock, Others
    <3> QED  BY <3>2, <3>3
  <2>2. \A w \in Words : vl'[w].ver <= gv'
    BY <1>a, <1>b, TypeFacts DEF Clock
  <2>3. \A h \in hist' : h.ver <= gv'
    <3>1. \A h \in hist : h.ver \in Nat
      BY <1>a, HistoryTypes
    <3> QED  BY <3>1, <1>3, <1>a, <1>b DEF Clock
  <2> QED  BY <2>1, <2>2, <2>3 DEF Clock
<1>7. Latest'
  <2>1. ASSUME NEW w \in Words, ~InWriteBack(w)'
        PROVE /\ [word |-> w, ver |-> vl'[w].ver, val |-> mem'[w]] \in hist'
              /\ \A h \in hist' : h.word = w => h.ver <= vl'[w].ver
    <3>1. w \notin held[t] /\ ~InWriteBack(w)
      BY <2>1, <1>2, <1>a DEF InWriteBack, Decided, Others
    <3> QED  BY <3>1, <1>3, <1>a DEF Latest
  <2>2. ASSUME NEW u \in Threads, pc'[u] \in Decided, NEW w \in held'[u]
        PROVE /\ [word |-> w, ver |-> loc'[u].wv, val |-> tx'[u].ws[w]] \in hist'
              /\ \A h \in hist' : h.word = w => h.ver <= loc'[u].wv
              /\ pc'[u] = "unlock" /\ w \in loc'[u].cur => mem'[w] = tx'[u].ws[w]
    <3>1. CASE u = t
      <4>1. \A h \in hist' : h.word = w => h.ver <= wv
        <5>1. \A h \in hist : h.ver \in Nat
          BY <1>a, HistoryTypes
        <5> QED  BY <5>1, <3>1, <2>2, <1>3, <1>4
      <4> QED  BY <4>1, <3>1, <2>2, <1>2, <1>3
    <3>2. CASE u # t
      <4>1. w \notin held[t] /\ pc[u] \in Decided /\ w \in held[u]
        BY <3>2, <2>2, <1>a DEF Owners, Others
      <4> QED  BY <4>1, <3>2, <2>2, <1>3, <1>a DEF Latest, Others
    <3> QED  BY <3>1, <3>2
  <2> QED  BY <2>1, <2>2 DEF Latest
<1>8. Committed'
  <2>1. PICK s \in Nat : s = wv - 1
    BY <1>b
  <2>2. s <= gv /\ s <= gv'
    BY <2>1, <1>b
  <2>3. ASSUME NEW r \in seen[t] PROVE SettledRead(r, s)'
    <3>1. r[1] \in Words /\ SettledRead(r, s)
      BY <2>1, <2>3, <1>a, HistoryTypes
    <3> QED  BY <3>1, <2>2, <1>a, SettledReadStable
  <2>4. ASSUME NEW d \in done' \ done
        PROVE d.at <= gv' /\ \A r \in d.reads : r[1] \notin d.suspect => SettledRead(r, d.at)'
    <3>1. d.at = s /\ d.reads = seen[t]
      BY <2>1, <2>4 DEF Decide
    <3> QED  BY <3>1, <2>2, <2>3
  <2> QED  BY <2>4, <1>a, CommittedKept
<1>9. ReadSet(t)' /\ Snapshot(t)'
  BY <1>2, <1>a, ReadsKept
<1>10. Phase(t)' /\ Validation(t)'
  <2>1. ~tx[t].ro
    BY <1>a DEF Phase, Ending
  <2> QED  BY <2>1, <1>1, <1>2 DEF Phase, Ending, Locking, Decided, Validation
<1>11. Copies(t)'
  <2>1. Copied(t)' = {}
    BY <1>2 DEF Copied
  <2> QED  BY <2>1, <1>2, <1>a DEF Copies, Reading, RoReading
<1> QED  BY <1>a, <1>5, <1>6, <1>7, <1>8, <1>9, <1>10, <1>11, Assemble DEF ThreadInv

LEMMA TickKept ==
  ASSUME IInv, TypeOK', NEW t \in Threads, Tick(t)
  PROVE  IInv'
<1>a. /\ TypeOK /\ Owners /\ Clock /\ Latest /\ Others(t) /\ Monotone /\ Shared(t)
      /\ Phase(t) /\ Copies(t) /\ ReadSet(t) /\ Snapshot(t) /\ Validation(t)
  BY SharedFacts DEF Shared
<1>1. /\ pc[t] = "tick" /\ gv' = gv + 1 /\ (tx[t].rv = gv \/ tx[t].rs = {})
      /\ Decide(t, gv + 1) /\ UNCHANGED <<vl, mem, tx, held, seen, suspect>>
  BY DEF Tick
<1>2. gv \in Nat /\ tx[t].rv \in Nat /\ tx[t].rv <= gv
  BY <1>a, TypeFacts DEF Clock
<1>3. ~tx[t].ro /\ suspect[t] = {}
  BY <1>1, <1>a DEF Phase, Ending, ReadSet
<1>4. ASSUME NEW r \in seen[t] PROVE SettledRead(r, gv)
  <2>1. SettledRead(r, tx[t].rv)
    BY <1>3, <1>a DEF Snapshot
  <2>2. CASE tx[t].rv = gv
    BY <2>1, <2>2
  <2>3. CASE tx[t].rs = {}
    <3>1. r[1] \in held[t]
      BY <2>3, <1>1, <1>3, <1>a DEF ReadSet, Phase
    <3> QED  BY <3>1, <2>1, <1>1, <1>2, HeldSettled
  <2> QED  BY <2>2, <2>3, <1>1
<1>5. (gv + 1) - 1 = gv /\ gv + 1 \in Nat /\ tx[t].rv < gv + 1 /\ gv + 1 <= gv' /\ gv <= gv
  BY <1>1, <1>2
<1> QED  BY <1>1, <1>4, <1>5, <1>a, DecideKept

LEMMA TickValidateKept ==
  ASSUME IInv, TypeOK', NEW t \in Threads, TickValidate(t)
  PROVE  IInv'
<1>a. /\ TypeOK /\ Owners /\ Clock /\ Latest /\ Others(t) /\ Monotone
      /\ Phase(t) /\ Copies(t) /\ ReadSet(t) /\ Snapshot(t) /\ Validation(t)
  BY SharedFacts DEF Shared
<1>1. /\ pc[t] = "tick" /\ pc'[t] = "validate" /\ gv' = gv + 1
      /\ loc' = [loc EXCEPT ![t] = [@ EXCEPT !.wv = gv + 1, !.reval = tx[t].rs]]
      /\ UNCHANGED <<vl, mem, tx, held, seen, suspect, begun, hist, done>>
  BY <1>a, Domains DEF TickValidate, Goto
<1>2. gv \in Nat /\ tx[t].rv \in Nat /\ tx[t].rv <= gv
  BY <1>a, TypeFacts DEF Clock
<1>3. /\ loc'[t].wv = gv + 1 /\ loc'[t].reval = tx[t].rs /\ loc'[t].nrv = loc[t].nrv
      /\ loc'[t].prev = loc[t].prev
  BY <1>1, <1>a, TypeFacts DEF Locals
<1>4. Owners'
  BY <1>1, <1>a DEF Owners
<1>5. Clock'
  <2>1. ASSUME NEW u \in Threads
        PROVE /\ tx'[u].rv <= gv' /\ loc'[u].nrv <= gv'
              /\ pc'[u] \in Decided \cup {"validate"} =>
                   tx'[u].rv < loc'[u].wv /\ loc'[u].wv <= gv'
    <3>1. tx[u].rv \in Nat /\ loc[u].nrv \in Nat /\ loc[u].wv \in Nat
      BY <1>a, TypeFacts
    <3>2. CASE u = t
      BY <3>1, <3>2, <1>1, <1>2, <1>3, <1>a DEF Clock
    <3>3. CASE u # t
      BY <3>1, <3>3, <1>1, <1>2, <1>a DEF Clock, Others
    <3> QED  BY <3>2, <3>3
  <2>2. \A w \in Words : vl'[w].ver <= gv'
    BY <1>1, <1>2, <1>a, TypeFacts DEF Clock
  <2>3. \A h \in hist' : h.ver <= gv'
    BY <1>1, <1>2, <1>a, HistoryTypes DEF Clock
  <2> QED  BY <2>1, <2>2, <2>3 DEF Clock
<1>6. Latest'
  BY <1>1, <1>a, LatestKept DEF Decided
<1>7. Committed'
  BY <1>1, <1>a, CommittedKept
<1>8. ReadSet(t)' /\ Snapshot(t)'
  BY <1>1, <1>a, ReadsKept
<1>9. Phase(t)' /\ Validation(t)'
  <2>1. Written(t)' = Written(t) /\ held[t] = Written(t) /\ held[t] # {} /\ ~tx[t].ro
    BY <1>1, <1>a DEF Written, Phase, Ending
  <2> QED  BY <2>1, <1>1, <1>3 DEF Phase, Ending, Locking, Decided, Validation
<1>10. Copies(t)'
  <2>1. Copied(t)' = {}
    BY <1>1 DEF Copied
  <2> QED  BY <2>1, <1>1, <1>3, <1>a DEF Copies, Reading, RoReading
<1> QED  BY <1>a, <1>4, <1>5, <1>6, <1>7, <1>8, <1>9, <1>10, Assemble DEF ThreadInv

LEMMA ValidateKept ==
  ASSUME IInv, TypeOK', NEW t \in Threads, Validate(t)
  PROVE  IInv'
<1>a. /\ TypeOK /\ Owners /\ Clock /\ Latest /\ Others(t) /\ Monotone /\ Shared(t)
      /\ Phase(t) /\ Copies(t) /\ ReadSet(t) /\ Snapshot(t) /\ Validation(t)
  BY SharedFacts DEF Shared
<1>1. PICK e \in loc[t].reval :
        /\ ~Stale(vl[e[1]], tx[t].rv)
        /\ IF loc[t].reval = {e}
           THEN Decide(t, loc[t].wv)
           ELSE /\ loc' = [loc EXCEPT ![t].reval = @ \ {e}]
                /\ UNCHANGED <<pc, hist, done>>
  BY DEF Validate
<1>2. pc[t] = "validate" /\ UNCHANGED <<gv, vl, mem, tx, held, seen, suspect>>
  BY DEF Validate
<1>3. PICK wv \in Nat : wv = loc[t].wv
  BY <1>a, TypeFacts
<1>4. /\ gv \in Nat /\ tx[t].rv \in Nat /\ tx[t].rv < wv /\ wv <= gv /\ tx[t].rv <= wv - 1
      /\ wv - 1 \in Nat /\ wv - 1 <= gv
  BY <1>2, <1>3, <1>a, TypeFacts DEF Clock
<1>5. ~tx[t].ro /\ suspect[t] = {} /\ held[t] = Written(t) /\ held[t] # {}
  BY <1>2, <1>a DEF Phase, Ending, ReadSet
<1>6. e[1] \in Words /\ Settled(e[1], tx[t].rv, wv - 1)
  <2>1. e[1] \in Words
    BY <1>a, TypeFacts
  <2> QED  BY <2>1, <1>1, <1>4, CheckedSettled
<1>7. \A f \in tx[t].rs \ loc[t].reval : Settled(f[1], tx[t].rv, wv - 1)
  BY <1>2, <1>3, <1>a DEF Validation
<1>8. CASE loc[t].reval = {e}
  <2>1. ASSUME NEW r \in seen[t] PROVE SettledRead(r, wv - 1)
    <3>1. r[1] \in Words /\ SettledRead(r, tx[t].rv)
      BY <1>5, <1>a, HistoryTypes DEF Snapshot
    <3>2. CASE r[1] \in Written(t)
      BY <3>1, <3>2, <1>2, <1>3, <1>4, <1>5, HeldSettled
    <3>3. CASE \E f \in tx[t].rs : f[1] = r[1]
      <4>1. Settled(r[1], tx[t].rv, wv - 1)
        BY <3>3, <1>6, <1>7, <1>8
      <4> QED  BY <4>1, <3>1, <1>4, ValidatedSettled
    <3> QED  BY <3>2, <3>3, <1>5, <1>a DEF ReadSet
  <2> QED  BY <2>1, <1>1, <1>2, <1>3, <1>4, <1>8, <1>a, DecideKept
<1>9. CASE loc[t].reval # {e}
  <2>1. /\ pc' = pc /\ hist' = hist /\ done' = done
        /\ loc' = [loc EXCEPT ![t].reval = @ \ {e}]
    BY <1>1, <1>9
  <2>2. /\ loc'[t].reval = loc[t].reval \ {e} /\ loc'[t].wv = wv /\ loc'[t].nrv = loc[t].nrv
        /\ loc'[t].prev = loc[t].prev
    BY <2>1, <1>3, <1>a, TypeFacts DEF Locals
  <2>3. Owners'
    BY <1>2, <1>a DEF Owners
  <2>4. Clock'
    <3>1. \A u \in Threads :
            /\ tx'[u].rv <= gv' /\ loc'[u].nrv <= gv'
            /\ pc'[u] \in Decided \cup {"validate"} => tx'[u].rv < loc'[u].wv /\ loc'[u].wv <= gv'
      BY <2>1, <2>2, <1>2, <1>4, <1>a DEF Clock, Others
    <3> QED  BY <3>1, <2>1, <1>2, <1>a DEF Clock
  <2>5. Latest'
    BY <2>1, <1>2, <1>a, LatestKept DEF Decided
  <2>6. Committed'
    BY <2>1, <1>a, CommittedKept
  <2>7. ReadSet(t)' /\ Snapshot(t)'
    BY <2>1, <1>2, <1>a, ReadsKept
  <2>8. Phase(t)'
    <3>1. Written(t)' = Written(t)
      BY <1>2 DEF Written
    <3> QED  BY <3>1, <2>1, <1>2, <1>5 DEF Phase, Ending, Locking, Decided
  <2>9. Validation(t)'
    <3>1. ASSUME NEW f \in tx[t].rs \ loc'[t].reval PROVE Settled(f[1], tx[t].rv, wv - 1)'
      <4>1. PICK rv \in Nat, s \in Nat : rv = tx[t].rv /\ s = wv - 1
        BY <1>4
      <4>2. f[1] \in Words /\ Settled(f[1], rv, s)
        BY <3>1, <4>1, <2>2, <1>6, <1>7, <1>a, HistoryTypes
      <4>3. Settled(f[1], rv, s)'
        BY <4>1, <4>2, <1>4, <1>a DEF Monotone
      <4> QED  BY <4>1, <4>3, <1>2 DEF Settled
    <3> QED  BY <3>1, <2>1, <2>2, <1>2 DEF Validation, Settled
  <2>10. Copies(t)'
    <3>1. Copied(t)' = {}
      BY <2>1, <1>2 DEF Copied
    <3> QED  BY <3>1, <2>1, <2>2, <1>2, <1>a DEF Copies, Reading, RoReading
  <2> QED  BY <1>a, <2>3, <2>4, <2>5, <2>6, <2>7, <2>8, <2>9, <2>10, Assemble DEF ThreadInv
<1> QED  BY <1>8, <1>9

-----------------------------------------------------------------------------
(* Write-back.                                                             *)

LEMMA WriteBackKept ==
  ASSUME IInv, TypeOK', NEW t \in Threads, WriteBack(t)
  PROVE  IInv'
<1>a. /\ TypeOK /\ Owners /\ Clock /\ Latest /\ Others(t) /\ Monotone
      /\ Phase(t) /\ Copies(t) /\ ReadSet(t) /\ Snapshot(t) /\ Validation(t)
  BY SharedFacts DEF Shared
<1>1. PICK x \in First(loc[t].todo) :
        /\ mem' = [mem EXCEPT ![x] = Torn]
        /\ loc' = [loc EXCEPT ![t].cur = {x}]
  BY DEF WriteBack
<1>2. /\ pc[t] = "write" /\ pc'[t] = "copy"
      /\ UNCHANGED <<gv, vl, tx, held, seen, suspect, begun, hist, done>>
  BY <1>a, Domains DEF WriteBack, Goto
<1>3. x \in held[t] /\ x \in Words /\ held[t] = loc[t].todo /\ held[t] \subseteq Written(t)
  BY <1>1, <1>2, <1>a, FirstSubset, TypeFacts DEF Phase, Decided
<1>4. /\ loc'[t].cur = {x} /\ loc'[t].todo = loc[t].todo /\ loc'[t].wv = loc[t].wv
      /\ loc'[t].nrv = loc[t].nrv /\ loc'[t].prev = loc[t].prev
  BY <1>1, <1>a, TypeFacts DEF Locals
<1>5. \A w \in Words \ {x} : mem'[w] = mem[w]
  BY <1>1, <1>a DEF TypeOK
<1>6. Owners'
  BY <1>2, <1>a DEF Owners
<1>7. Clock'
  <2>1. \A u \in Threads :
          /\ tx'[u].rv <= gv' /\ loc'[u].nrv <= gv'
          /\ pc'[u] \in Decided \cup {"validate"} => tx'[u].rv < loc'[u].wv /\ loc'[u].wv <= gv'
    BY <1>2, <1>4, <1>a DEF Clock, Others, Decided
  <2> QED  BY <2>1, <1>2, <1>a DEF Clock
<1>8. Latest'
  <2>1. ASSUME NEW w \in Words, ~InWriteBack(w)'
        PROVE /\ [word |-> w, ver |-> vl'[w].ver, val |-> mem'[w]] \in hist'
              /\ \A h \in hist' : h.word = w => h.ver <= vl'[w].ver
    <3>1. w # x /\ ~InWriteBack(w)
      BY <2>1, <1>2, <1>3, <1>a DEF InWriteBack, Decided, Others
    <3> QED  BY <3>1, <2>1, <1>2, <1>5, <1>a DEF Latest
  <2>2. ASSUME NEW u \in Threads, pc'[u] \in Decided, NEW w \in held'[u]
        PROVE /\ [word |-> w, ver |-> loc'[u].wv, val |-> tx'[u].ws[w]] \in hist'
              /\ \A h \in hist' : h.word = w => h.ver <= loc'[u].wv
              /\ pc'[u] = "unlock" /\ w \in loc'[u].cur => mem'[w] = tx'[u].ws[w]
    <3>1. CASE u = t
      BY <3>1, <2>2, <1>2, <1>4, <1>a DEF Latest, Decided
    <3>2. CASE u # t
      <4>1. w \in Words /\ w # x /\ pc[u] \in Decided /\ w \in held[u]
        BY <3>2, <2>2, <1>3, <1>a, TypeFacts DEF Owners, Others
      <4> QED  BY <4>1, <3>2, <2>2, <1>2, <1>5, <1>a DEF Latest, Others
    <3> QED  BY <3>1, <3>2
  <2> QED  BY <2>1, <2>2 DEF Latest
<1>9. Committed'
  BY <1>2, <1>a, CommittedKept
<1>10. ReadSet(t)' /\ Snapshot(t)'
  BY <1>2, <1>a, ReadsKept
<1>11. Phase(t)' /\ Validation(t)'
  <2>1. Written(t)' = Written(t) /\ ~tx[t].ro
    BY <1>2, <1>a DEF Written, Phase, Ending, Decided
  <2> QED  BY <2>1, <1>2, <1>3, <1>4 DEF Phase, Ending, Locking, Decided, Validation
<1>12. Copies(t)'
  <2>1. Copied(t)' = {}
    BY <1>2 DEF Copied
  <2> QED  BY <2>1, <1>2, <1>4, <1>a DEF Copies, Reading, RoReading
<1> QED  BY <1>a, <1>6, <1>7, <1>8, <1>9, <1>10, <1>11, <1>12, Assemble DEF ThreadInv

LEMMA WriteBackEndKept ==
  ASSUME IInv, TypeOK', NEW t \in Threads, WriteBackEnd(t)
  PROVE  IInv'
<1>a. /\ TypeOK /\ Owners /\ Clock /\ Latest /\ Others(t) /\ Monotone
      /\ Phase(t) /\ Copies(t) /\ ReadSet(t) /\ Snapshot(t) /\ Validation(t)
  BY SharedFacts DEF Shared
<1>1. PICK x \in loc[t].cur : mem' = [mem EXCEPT ![x] = tx[t].ws[x]]
  BY DEF WriteBackEnd
<1>2. /\ pc[t] = "copy" /\ pc'[t] = "unlock"
      /\ UNCHANGED <<gv, vl, tx, held, loc, seen, suspect, begun, hist, done>>
  BY <1>a, Domains DEF WriteBackEnd, Goto
<1>3. /\ x \in held[t] /\ x \in Words /\ loc[t].cur = {x}
      /\ held[t] = loc[t].todo /\ held[t] \subseteq Written(t)
  BY <1>1, <1>2, <1>a, TypeFacts DEF Phase, Decided
<1>4. mem'[x] = tx[t].ws[x] /\ \A w \in Words \ {x} : mem'[w] = mem[w]
  BY <1>1, <1>3, <1>a DEF TypeOK
<1>5. Owners'
  BY <1>2, <1>a DEF Owners
<1>6. Clock'
  <2>1. \A u \in Threads :
          /\ tx'[u].rv <= gv' /\ loc'[u].nrv <= gv'
          /\ pc'[u] \in Decided \cup {"validate"} => tx'[u].rv < loc'[u].wv /\ loc'[u].wv <= gv'
    BY <1>2, <1>a DEF Clock, Others, Decided
  <2> QED  BY <2>1, <1>2, <1>a DEF Clock
<1>7. Latest'
  <2>1. ASSUME NEW w \in Words, ~InWriteBack(w)'
        PROVE /\ [word |-> w, ver |-> vl'[w].ver, val |-> mem'[w]] \in hist'
              /\ \A h \in hist' : h.word = w => h.ver <= vl'[w].ver
    <3>1. w # x /\ ~InWriteBack(w)
      BY <2>1, <1>2, <1>3, <1>a DEF InWriteBack, Decided, Others
    <3> QED  BY <3>1, <2>1, <1>2, <1>4, <1>a DEF Latest
  <2>2. ASSUME NEW u \in Threads, pc'[u] \in Decided, NEW w \in held'[u]
        PROVE /\ [word |-> w, ver |-> loc'[u].wv, val |-> tx'[u].ws[w]] \in hist'
              /\ \A h \in hist' : h.word = w => h.ver <= loc'[u].wv
              /\ pc'[u] = "unlock" /\ w \in loc'[u].cur => mem'[w] = tx'[u].ws[w]
    <3>1. CASE u = t
      BY <3>1, <2>2, <1>2, <1>3, <1>4, <1>a DEF Latest, Decided
    <3>2. CASE u # t
      <4>1. w \in Words /\ w # x /\ pc[u] \in Decided /\ w \in held[u]
        BY <3>2, <2>2, <1>2, <1>3, <1>a, TypeFacts DEF Owners, Others
      <4> QED  BY <4>1, <3>2, <2>2, <1>2, <1>4, <1>a DEF Latest, Others
    <3> QED  BY <3>1, <3>2
  <2> QED  BY <2>1, <2>2 DEF Latest
<1>8. Committed'
  BY <1>2, <1>a, CommittedKept
<1>9. ReadSet(t)' /\ Snapshot(t)'
  BY <1>2, <1>a, ReadsKept
<1>10. Phase(t)' /\ Validation(t)'
  <2>1. Written(t)' = Written(t) /\ ~tx[t].ro
    BY <1>2, <1>a DEF Written, Phase, Ending, Decided
  <2> QED  BY <2>1, <1>2, <1>3 DEF Phase, Ending, Locking, Decided, Validation
<1>11. Copies(t)'
  <2>1. Copied(t)' = {}
    BY <1>2 DEF Copied
  <2> QED  BY <2>1, <1>2, <1>a DEF Copies, Reading, RoReading
<1> QED  BY <1>a, <1>5, <1>6, <1>7, <1>8, <1>9, <1>10, <1>11, Assemble DEF ThreadInv

LEMMA VlUnlockUpdateKept ==
  ASSUME IInv, TypeOK', NEW t \in Threads, VlUnlockUpdate(t)
  PROVE  IInv'
<1>a. /\ TypeOK /\ Owners /\ Clock /\ Latest /\ Others(t) /\ Monotone
      /\ Phase(t) /\ Copies(t) /\ ReadSet(t) /\ Snapshot(t) /\ Validation(t)
  BY SharedFacts DEF Shared
<1>1. PICK x \in loc[t].cur :
        /\ vl' = [vl EXCEPT ![x] = [ver |-> loc[t].wv, locked |-> FALSE]]
        /\ held' = [held EXCEPT ![t] = @ \ {x}]
        /\ IF loc[t].todo = {x}
           THEN TransactionCleanup(t)
           ELSE /\ loc' = [loc EXCEPT ![t] = [@ EXCEPT !.todo = loc[t].todo \ {x}, !.cur = {}]]
                /\ Goto(t, "write")
                /\ UNCHANGED <<tx, seen, suspect>>
        /\ pc[t] = "unlock" /\ UNCHANGED <<gv, mem, begun, hist, done>>
  BY DEF VlUnlockUpdate
<1>2. /\ x \in held[t] /\ x \in Words /\ loc[t].cur = {x} /\ ~tx[t].ro
      /\ held[t] = loc[t].todo /\ held[t] \subseteq Written(t) /\ held'[t] = held[t] \ {x}
  BY <1>1, <1>a, TypeFacts, Domains DEF Phase, Decided, Ending
<1>3. vl'[x] = [ver |-> loc[t].wv, locked |-> FALSE] /\ \A w \in Words \ {x} : vl'[w] = vl[w]
  BY <1>1, <1>2, <1>a DEF TypeOK
<1>4. \/ /\ held'[t] = {} /\ pc'[t] = "idle" /\ tx'[t] = NoTx /\ loc'[t] = NoLoc
         /\ seen'[t] = {} /\ suspect'[t] = {}
      \/ /\ held'[t] # {} /\ pc'[t] = "write" /\ UNCHANGED <<tx, seen, suspect>>
         /\ loc'[t].todo = held'[t] /\ loc'[t].wv = loc[t].wv /\ loc'[t].nrv = loc[t].nrv
         /\ loc'[t].prev = loc[t].prev
  <2>1. CASE loc[t].todo = {x}
    BY <2>1, <1>1, <1>2, <1>a, CleanupEffect
  <2>2. CASE loc[t].todo # {x}
    <3>1. loc' = [loc EXCEPT ![t] = [@ EXCEPT !.todo = loc[t].todo \ {x}, !.cur = {}]]
          /\ pc'[t] = "write"
      BY <2>2, <1>1, <1>a, Domains DEF Goto
    <3> QED  BY <2>2, <3>1, <1>1, <1>2, <1>a, TypeFacts DEF Locals
  <2> QED  BY <2>1, <2>2
<1>5. \A u \in Threads \ {t} : x \notin held[u] /\ held'[u] = held[u] /\ tx'[u] = tx[u]
  BY <1>2, <1>a DEF Owners, Others
<1>6. Owners'
  <2>1. \A w \in Words : vl'[w].locked <=> \E u \in Threads : w \in held'[u]
    <3>1. \A w \in Words \ {x} : \A u \in Threads : w \in held'[u] <=> w \in held[u]
      BY <1>2, <1>5
    <3>2. \A u \in Threads : x \notin held'[u]
      BY <1>2, <1>5
    <3> QED  BY <3>1, <3>2, <1>3, <1>a DEF Owners
  <2>2. \A u, v \in Threads : u # v => held'[u] \cap held'[v] = {}
    BY <1>2, <1>5, <1>a DEF Owners
  <2>3. \A u \in Threads : \A w \in held'[u] : vl'[w].ver <= tx'[u].rv
    <3>1. \A u \in Threads : \A w \in held'[u] : w \in Words \ {x} /\ w \in held[u]
      BY <1>2, <1>5, <1>a, TypeFacts
    <3> QED  BY <3>1, <1>3, <1>4, <1>5, <1>a DEF Owners
  <2> QED  BY <2>1, <2>2, <2>3 DEF Owners
<1>7. Clock'
  <2>1. NoTx.rv <= gv /\ NoLoc.nrv <= gv /\ loc[t].wv <= gv
    BY <1>1, <1>a, TypeFacts DEF NoTx, NoLoc, Clock, Decided
  <2>2. \A u \in Threads :
          /\ tx'[u].rv <= gv' /\ loc'[u].nrv <= gv'
          /\ pc'[u] \in Decided \cup {"validate"} => tx'[u].rv < loc'[u].wv /\ loc'[u].wv <= gv'
    BY <2>1, <1>1, <1>4, <1>a DEF Clock, Others, Decided
  <2>3. \A w \in Words : vl'[w].ver <= gv'
    BY <2>1, <1>1, <1>3, <1>a DEF Clock
  <2> QED  BY <2>2, <2>3, <1>1, <1>a DEF Clock
<1>8. Latest'
  <2>1. /\ [word |-> x, ver |-> loc[t].wv, val |-> mem[x]] \in hist
        /\ \A h \in hist : h.word = x => h.ver <= loc[t].wv
    BY <1>1, <1>2, <1>a DEF Latest, Decided
  <2>2. ASSUME NEW w \in Words, ~InWriteBack(w)'
        PROVE /\ [word |-> w, ver |-> vl'[w].ver, val |-> mem'[w]] \in hist'
              /\ \A h \in hist' : h.word = w => h.ver <= vl'[w].ver
    <3>1. CASE w = x
      BY <3>1, <2>1, <1>1, <1>3
    <3>2. CASE w # x
      <4>1. ~InWriteBack(w)
        BY <3>2, <2>2, <1>2, <1>4, <1>a DEF InWriteBack, Decided, Others
      <4> QED  BY <3>2, <4>1, <1>1, <1>3, <1>a DEF Latest
    <3> QED  BY <3>1, <3>2
  <2>3. ASSUME NEW u \in Threads, pc'[u] \in Decided, NEW w \in held'[u]
        PROVE /\ [word |-> w, ver |-> loc'[u].wv, val |-> tx'[u].ws[w]] \in hist'
              /\ \A h \in hist' : h.word = w => h.ver <= loc'[u].wv
              /\ pc'[u] = "unlock" /\ w \in loc'[u].cur => mem'[w] = tx'[u].ws[w]
    <3>1. CASE u = t
      BY <3>1, <2>3, <1>1, <1>2, <1>4, <1>a DEF Latest, Decided
    <3>2. CASE u # t
      BY <3>2, <2>3, <1>1, <1>5, <1>a DEF Latest, Others
    <3> QED  BY <3>1, <3>2
  <2> QED  BY <2>2, <2>3 DEF Latest
<1>9. Committed'
  BY <1>1, <1>a, CommittedKept
<1>10. ThreadInv(t)'
  <2>1. CASE held'[t] = {}
    BY <2>1, <1>4, IdleKept
  <2>2. CASE held'[t] # {}
    <3>1. ReadSet(t)' /\ Snapshot(t)'
      BY <2>2, <1>1, <1>4, <1>a, ReadsKept
    <3>2. Phase(t)' /\ Validation(t)'
      <4>1. Written(t)' = Written(t)
        BY <2>2, <1>4 DEF Written
      <4> QED  BY <4>1, <2>2, <1>2, <1>4 DEF Phase, Ending, Locking, Decided, Validation
    <3>3. Copies(t)'
      <4>1. Copied(t)' = {}
        BY <2>2, <1>4 DEF Copied
      <4>2. \A w \in Words : loc'[t].prev[w] <= vl'[w].ver
        <5>1. \A w \in Words : vl[w].ver \in Nat /\ vl'[w].ver \in Nat /\ loc[t].prev[w] \in Nat
          BY <1>a, TypeFacts DEF TypeOK
        <5> QED  BY <5>1, <2>2, <1>4, <1>a DEF Copies, Monotone
      <4> QED  BY <4>1, <4>2, <2>2, <1>4 DEF Copies, Reading, RoReading
    <3> QED  BY <3>1, <3>2, <3>3 DEF ThreadInv
  <2> QED  BY <2>1, <2>2
<1> QED  BY <1>a, <1>6, <1>7, <1>8, <1>9, <1>10, Assemble

-----------------------------------------------------------------------------
(* The invariant holds initially and every step keeps it.                  *)

LEMMA InitIInv == Init => IInv
<1> SUFFICES ASSUME Init PROVE IInv
  OBVIOUS
<1>1. TypeOK
  BY ConstantsAssumption, PCsIn, NoTxType DEF Init, TypeOK, VlInit
<1>2. Owners
  BY DEF Init, Owners, VlInit
<1>3. Clock
  BY DEF Init, Clock, VlInit, NoTx, NoLoc, Decided
<1>4. Latest
  <2>1. \A w \in Words : [word |-> w, ver |-> vl[w].ver, val |-> mem[w]] \in hist
    BY ConstantsAssumption DEF Init, VlInit
  <2>2. \A w \in Words : \A h \in hist : h.ver <= vl[w].ver
    BY DEF Init, VlInit
  <2> QED  BY <2>1, <2>2 DEF Init, Latest, Decided
<1>5. Committed
  BY DEF Init, Committed
<1>6. ASSUME NEW t \in Threads PROVE ThreadInv(t)
  <2>1. /\ pc[t] = "idle" /\ tx[t] = NoTx /\ loc[t] = NoLoc
        /\ seen[t] = {} /\ suspect[t] = {} /\ held[t] = {}
    BY DEF Init
  <2>2. Phase(t) /\ Snapshot(t) /\ Validation(t)
    BY <2>1 DEF Phase, Locking, Decided, Ending, Snapshot, Validation
  <2>3. Copies(t)
    <3>1. \A w \in Words : vl[w].ver = 0 /\ loc[t].prev[w] = 0
      BY <2>1 DEF Init, VlInit, NoLoc
    <3>2. Copied(t) = {}
      BY <2>1 DEF Copied
    <3> QED  BY <2>1, <3>1, <3>2 DEF Copies, Reading, RoReading
  <2>4. ReadSet(t)
    BY <2>1 DEF ReadSet, NoTx
  <2> QED  BY <2>2, <2>3, <2>4 DEF ThreadInv
<1> QED  BY <1>1, <1>2, <1>3, <1>4, <1>5, <1>6 DEF IInv

LEMMA StepType ==
  ASSUME IInv, NEW t \in Threads, Step(t)
  PROVE  TypeOK'
  BY CallType, ReadStepType, EndStepType DEF Step, IInv, ThreadInv

LEMMA CallKept ==
  ASSUME IInv, NEW t \in Threads, Call(t)
  PROVE  IInv'
<1>t. TypeOK'
  BY StepType DEF Step
<1>1. ASSUME NEW ro \in BOOLEAN, TmBegin(t, ro) PROVE IInv'
  BY <1>t, <1>1, TmBeginKept
<1>2. ASSUME NEW w \in Words, RwRead(t, w) PROVE IInv'
  BY <1>t, <1>2, RwReadKept
<1>3. ASSUME NEW w \in Words, RwReadStale(t, w) PROVE IInv'
  BY <1>t, <1>3, AbortsKept DEF RwReadStale, Ending, Locking, Decided
<1>4. ASSUME NEW w \in Words, NEW v \in Writes, TmWrite(t, w, v) PROVE IInv'
  BY <1>t, <1>4, TmWriteKept
<1>5. ASSUME NEW w \in Words, TmWriteStale(t, w) PROVE IInv'
  BY <1>t, <1>5, AbortsKept DEF TmWriteStale, Ending, Locking, Decided
<1>6. ASSUME NEW S \in Spans, RoRead(t, S) PROVE IInv'
  BY <1>t, <1>6, RoReadKept
<1>7. ASSUME AllocFails(t) PROVE IInv'
  BY <1>t, <1>7, AbortsKept DEF AllocFails, Ending, Locking, Decided
<1>8. ASSUME TmEndReadOnly(t) PROVE IInv'
  BY <1>t, <1>8, TmEndReadOnlyKept
<1>9. ASSUME TmEnd(t) PROVE IInv'
  BY <1>t, <1>9, TmEndKept
<1> QED  BY <1>1, <1>2, <1>3, <1>4, <1>5, <1>6, <1>7, <1>8, <1>9, ConstantsAssumption DEF Call

LEMMA ReadStepKept ==
  ASSUME IInv, NEW t \in Threads, ReadStep(t)
  PROVE  IInv'
<1>t. TypeOK'
  BY StepType DEF Step
<1>1. CASE RwCopy(t) \/ RwPost(t)
  BY <1>t, <1>1, RwCopyKept, RwPostKept
<1>2. CASE RwPostChanged(t) \/ RoPreLocked(t) \/ RoPostChanged(t) \/ RevalidateSetsFails(t)
  BY <1>t, <1>2, AbortsKept
     DEF RwPostChanged, RoPreLocked, RoPostChanged, RevalidateSetsFails,
         Ending, Locking, Decided
<1>3. CASE RoPre(t) \/ RoCopy(t) \/ RoPost(t) \/ RoPostNewer(t)
  BY <1>t, <1>3, RoPreKept, RoCopyKept, RoPostKept, RoPostNewerKept
<1>4. CASE RoClock(t) \/ RevalidateSets(t) \/ RoRevalidated(t)
  BY <1>t, <1>4, RoClockKept, RevalidateSetsKept, RoRevalidatedKept
<1> QED  BY <1>1, <1>2, <1>3, <1>4 DEF ReadStep

LEMMA EndStepKept ==
  ASSUME IInv, NEW t \in Threads, EndStep(t)
  PROVE  IInv'
<1>t. TypeOK'
  BY StepType DEF Step
<1>1. CASE VlTryLock(t) \/ VlCas(t) \/ VlUnlock(t)
  BY <1>t, <1>1, VlTryLockKept, VlCasKept, VlUnlockKept
<1>2. CASE VlTryLockStale(t) \/ VlCasFails(t) \/ ValidateStale(t)
  BY <1>t, <1>2, FailKept DEF VlTryLockStale, VlCasFails, ValidateStale, Locking
<1>3. CASE Tick(t) \/ TickValidate(t) \/ Validate(t)
  BY <1>t, <1>3, TickKept, TickValidateKept, ValidateKept
<1>4. CASE WriteBack(t) \/ WriteBackEnd(t) \/ VlUnlockUpdate(t)
  BY <1>t, <1>4, WriteBackKept, WriteBackEndKept, VlUnlockUpdateKept
<1> QED  BY <1>1, <1>2, <1>3, <1>4 DEF EndStep

LEMMA StutterKept ==
  ASSUME IInv, UNCHANGED vars
  PROVE  IInv'
<1>1. TypeOK' /\ Owners' /\ Clock'
  BY DEF IInv, vars, TypeOK, Owners, Clock
<1>2. Latest'
  BY DEF IInv, vars, Latest, InWriteBack
<1>3. Committed'
  BY DEF IInv, vars, Committed, SettledRead, Settled
<1>4. ASSUME NEW t \in Threads PROVE ThreadInv(t)'
  <2>a. ThreadInv(t)
    BY DEF IInv
  <2>1. Phase(t)' /\ ReadSet(t)'
    BY <2>a DEF vars, ThreadInv, Phase, ReadSet, Written
  <2>2. Copies(t)'
    BY <2>a DEF vars, ThreadInv, Copies, Copied, InWriteBack
  <2>3. Snapshot(t)' /\ Validation(t)'
    BY <2>a DEF vars, ThreadInv, Snapshot, Validation, SettledRead, Settled
  <2> QED  BY <2>1, <2>2, <2>3 DEF ThreadInv
<1> QED  BY <1>1, <1>2, <1>3, <1>4 DEF IInv

LEMMA NextIInv == IInv /\ [Next]_vars => IInv'
<1> SUFFICES ASSUME IInv, [Next]_vars PROVE IInv'
  OBVIOUS
<1>1. ASSUME NEW t \in Threads, Call(t) \/ ReadStep(t) \/ EndStep(t) PROVE IInv'
  BY <1>1, CallKept, ReadStepKept, EndStepKept
<1>2. CASE Stopped \/ UNCHANGED vars
  BY <1>2, StutterKept DEF Stopped
<1> QED  BY <1>1, <1>2 DEF Next

-----------------------------------------------------------------------------
(* Theorems.                                                               *)

(* What tm_begin, tm_read, tm_write and tm_end keep between any two of      *)
(* their accesses to shared memory, for every number of threads and words.  *)
THEOREM InductiveInvariant == Spec => []IInv
  BY InitIInv, NextIInv, PTL DEF Spec

(* Every variable of the model keeps its type: versions are naturals, a     *)
(* write set maps words to contents.                                        *)
THEOREM TypeCorrect == Spec => []TypeOK
<1>1. IInv => TypeOK
  BY DEF IInv
<1> QED  BY <1>1, InductiveInvariant, PTL

(* vl_try_lock, vl_unlock and vl_unlock_update: a lock bit is set exactly   *)
(* while one thread, in tm_end, owns the lock.                              *)
THEOREM LocksOwned == Spec => []LockOwnership
<1>1. IInv => LockOwnership
  <2> SUFFICES ASSUME IInv PROVE LockOwnership
    OBVIOUS
  <2>1. \A t \in Threads : held[t] # {} => pc[t] \in Ending
    BY DEF IInv, ThreadInv, Phase
  <2> QED  BY <2>1 DEF IInv, Owners, LockOwnership, Ending, Locking, Decided
<1> QED  BY <1>1, InductiveInvariant, PTL

(* tm_end: a word that is not locked holds what the last commit that wrote  *)
(* it put there, under that commit's version.                               *)
THEOREM MemoryUpToDate == Spec => []LatestInMemory
<1>1. IInv => LatestInMemory
  BY UnlockedSettled DEF IInv, Latest, LatestInMemory
<1> QED  BY <1>1, InductiveInvariant, PTL

(* What is settled is the content at that point of the commit order. *)
LEMMA SettledHolds ==
  ASSUME NEW r, NEW s, SettledRead(r, s)
  PROVE  Holds(r[1], r[2], s)
  BY DEF SettledRead, Settled, Holds

(* tm_read: all that a running transaction was given, revalidation's word   *)
(* apart, is the content of the region at its read version.                 *)
THEOREM Opaque == Spec => []Opacity
<1>1. IInv => Opacity
  BY SettledHolds DEF IInv, ThreadInv, Snapshot, Opacity, Consistent, Trusted
<1> QED  BY <1>1, InductiveInvariant, PTL

(* tm_end: transactions that committed are serializable in clock order, the *)
(* word a read-only one revalidated for apart.                              *)
THEOREM CommitsSerializable == Spec => []Serializable
<1>1. IInv => Serializable
  BY SettledHolds DEF IInv, Committed, Serializable, Consistent, Trusted
<1> QED  BY <1>1, InductiveInvariant, PTL

(* tm_read, the word a read-only transaction revalidated for included: only *)
(* committed contents, never half of a write-back, are given to a caller.   *)
THEOREM ReadsCommitted == Spec => []ReadCommitted
<1>1. IInv => ReadCommitted
  <2> SUFFICES ASSUME IInv, NEW t \in Threads, NEW r \in seen[t]
               PROVE  \E h \in hist : h.word = r[1] /\ h.val = r[2]
    BY DEF ReadCommitted
  <2>1. ReadSet(t) /\ Snapshot(t) /\ TypeOK
    BY DEF IInv, ThreadInv
  <2>2. CASE tx[t].ro
    <3>1. PICK e \in tx[t].rs : [word |-> r[1], ver |-> e[2], val |-> r[2]] \in hist
      BY <2>1, <2>2 DEF ReadSet
    <3> QED  BY <3>1
  <2>3. CASE ~tx[t].ro
    BY <2>1, <2>3 DEF ReadSet, Snapshot, SettledRead
  <2> QED  BY <2>2, <2>3
<1> QED  BY <1>1, InductiveInvariant, PTL

(* tm_end: no step changes the content of a word whose lock is free, or     *)
(* moves a version back.                                                    *)
THEOREM WritesGuarded == Spec => GuardedWrites
<1> DEFINE Guarded == \A w \in Words :
       /\ mem'[w] # mem[w] => vl[w].locked /\ vl'[w].locked
       /\ vl'[w].ver # vl[w].ver => vl'[w].ver > vl[w].ver /\ vl[w].locked
<1>1. IInv /\ [Next]_vars => [Guarded]_vars
  <2> SUFFICES ASSUME IInv, NEW t \in Threads, Step(t) PROVE Guarded
    BY DEF Next, Step, Stopped
  <2>a. TypeOK /\ Owners /\ Phase(t)
    BY DEF IInv, ThreadInv
  <2>b. \A w \in Words : vl[w].ver \in Nat /\ (w \in held[t] => vl[w].locked)
    BY <2>a, TypeFacts DEF Owners
  <2>1. CASE Call(t) \/ ReadStep(t) \/ Quiet(t)
    BY <2>1, <2>a, CallEffect, ReadStepEffect, QuietEffect DEF Local
  <2>2. CASE VlCas(t) \/ VlUnlock(t)
    <3>1. mem' = mem
      BY <2>2 DEF VlCas, VlUnlock
    <3>2. CASE VlCas(t)
      <4>1. PICK x \in loc[t].cur : vl' = [vl EXCEPT ![x].locked = TRUE]
        BY <3>2 DEF VlCas
      <4> QED  BY <4>1, <3>1, <2>a DEF TypeOK
    <3>3. CASE VlUnlock(t)
      <4>1. PICK x \in First(held[t]) : vl' = [vl EXCEPT ![x].locked = FALSE]
        BY <3>3 DEF VlUnlock
      <4> QED  BY <4>1, <3>1, <2>a DEF TypeOK
    <3> QED  BY <2>2, <3>2, <3>3
  <2>3. CASE Tick(t) \/ TickValidate(t) \/ Validate(t)
    BY <2>3 DEF Tick, TickValidate, Validate
  <2>4. CASE WriteBack(t)
    <3>1. PICK x \in First(loc[t].todo) : mem' = [mem EXCEPT ![x] = Torn]
      BY <2>4 DEF WriteBack
    <3>2. x \in held[t] /\ vl' = vl
      BY <2>4, <3>1, <2>a, FirstSubset DEF WriteBack, Phase, Decided
    <3> QED  BY <3>1, <3>2, <2>a, <2>b DEF TypeOK
  <2>5. CASE WriteBackEnd(t)
    <3>1. PICK x \in loc[t].cur : mem' = [mem EXCEPT ![x] = tx[t].ws[x]]
      BY <2>5 DEF WriteBackEnd
    <3>2. x \in held[t] /\ vl' = vl
      BY <2>5, <3>1, <2>a DEF WriteBackEnd, Phase
    <3> QED  BY <3>1, <3>2, <2>a, <2>b DEF TypeOK
  <2>6. CASE VlUnlockUpdate(t)
    <3>1. PICK x \in loc[t].cur : vl' = [vl EXCEPT ![x] = [ver |-> loc[t].wv, locked |-> FALSE]]
      BY <2>6 DEF VlUnlockUpdate
    <3>2. x \in held[t] /\ mem' = mem /\ x \in Words
      BY <2>6, <3>1, <2>a, TypeFacts DEF VlUnlockUpdate, Phase
    <3>3. vl[x].ver < loc[t].wv
      <4>1. vl[x].ver <= tx[t].rv /\ tx[t].rv < loc[t].wv
        BY <2>6, <3>2 DEF IInv, Owners, Clock, VlUnlockUpdate, Decided
      <4> QED  BY <4>1, <2>a, <2>b, <3>2, TypeFacts
    <3> QED  BY <3>1, <3>2, <3>3, <2>a, <2>b, TypeFacts DEF TypeOK
  <2> QED  BY <2>1, <2>2, <2>3, <2>4, <2>5, <2>6, StepKinds DEF Shared
<1>2. Spec => [][Guarded]_vars
  BY <1>1, InductiveInvariant, PTL DEF Spec
<1> QED  BY <1>2 DEF GuardedWrites

-----------------------------------------------------------------------------
(* The words of the locks.                                                 *)

(* A number that fits is not changed by the conversion to an int. *)
LEMMA ToIntFits ==
  ASSUME NEW n \in Nat, 2 * n < IntRange
  PROVE  ToInt(n) = n
<1>1. IntRange \in Nat \ {0} /\ 0 <= n /\ n < IntRange
  BY ConstantsAssumption
<1>2. n % IntRange = n
  BY <1>1, SMTT(30)
<1> QED  BY <1>2 DEF ToInt

LEMMA VlType ==
  ASSUME TypeOK, NEW w \in Words
  PROVE  vl[w] = [ver |-> vl[w].ver, locked |-> vl[w].locked]
         /\ vl[w].ver \in Nat /\ vl[w].locked \in BOOLEAN
  BY DEF TypeOK

(* The two parts of the int. *)
LEMMA WordParts ==
  ASSUME NEW n \in Nat
  PROVE  /\ (2 * n) % 2 = 0 /\ (2 * n) \div 2 = n
         /\ (2 * n + 1) % 2 = 1 /\ (2 * n + 1) \div 2 = n
  OBVIOUS

LEMMA AnswersRight == ASSUME TypeOK PROVE WordsAnswer
<1> SUFFICES ASSUME NEW w \in Words, NEW rv \in 0 .. gv
             PROVE  /\ WordReadVersion(Word(vl[w])) = VlReadVersion(vl[w])
                    /\ WordRefused(Word(vl[w]), rv) <=> Stale(vl[w], rv)
  <2>1. 0 \in 0 .. gv
    BY DEF TypeOK
  <2>2. Word(VlInit) = WordInit
    BY DEF Word, VlInit, WordInit
  <2> QED  BY <2>1, <2>2 DEF WordsAnswer
<1>1. vl[w].ver \in Nat /\ vl[w].locked \in BOOLEAN /\ rv \in Nat
  BY VlType DEF TypeOK
<1>2. CASE vl[w].locked
  <2>1. Word(vl[w]) = 2 * vl[w].ver + 1
    BY <1>2 DEF Word
  <2> QED  BY <2>1, <1>1, <1>2, WordParts DEF WordReadVersion, WordRefused, LockBit, VlReadVersion, Stale
<1>3. CASE ~vl[w].locked
  <2>1. Word(vl[w]) = 2 * vl[w].ver
    BY <1>1, <1>3 DEF Word
  <2> QED  BY <2>1, <1>1, <1>3, WordParts DEF WordReadVersion, WordRefused, LockBit, VlReadVersion, Stale
<1> QED  BY <1>2, <1>3

LEMMA ChangesRight ==
  ASSUME IInv, [Next]_vars, ClockFits, ClockFits'
  PROVE  WordsChange
<1> SUFFICES ASSUME NEW w \in Words, vl'[w] # vl[w]
             PROVE  \E t \in Threads :
      \/ /\ pc[t] = "cas" /\ ~WordRefused(Word(vl[w]), tx[t].rv)
         /\ Word(vl'[w]) = WordTryLock(Word(vl[w]))
      \/ pc[t] = "release" /\ Word(vl'[w]) = WordUnlock(Word(vl[w]))
      \/ pc[t] = "unlock" /\ Word(vl'[w]) = WordUnlockUpdate(loc[t].wv)
  BY DEF WordsChange
<1>1. PICK t \in Threads : Step(t)
  BY DEF Next, Step, Stopped, vars
<1>a. TypeOK /\ Owners /\ Phase(t) /\ Clock
  BY DEF IInv, ThreadInv
<1>b. vl[w].ver \in Nat /\ vl[w].ver <= gv /\ gv \in Nat /\ IntRange \in Nat /\ tx[t].rv \in Nat
  BY <1>a, TypeFacts, ConstantsAssumption DEF Clock, TypeOK
<1>2. CASE VlCas(t)
  <2>1. PICK x \in loc[t].cur : /\ vl[x] = [ver |-> loc[t].prev[x], locked |-> FALSE]
                                /\ vl' = [vl EXCEPT ![x].locked = TRUE]
    BY <1>2 DEF VlCas
  <2>2. x = w /\ pc[t] = "cas"
    BY <1>2, <2>1, <1>a DEF TypeOK, VlCas
  <2>3. vl'[w] = [ver |-> vl[w].ver, locked |-> TRUE] /\ ~vl[w].locked
    BY <2>1, <2>2, <1>a DEF TypeOK
  <2>4. vl[w].ver <= tx[t].rv
    BY <2>1, <2>2, <1>a DEF Phase
  <2>5. Word(vl[w]) = 2 * vl[w].ver /\ Word(vl'[w]) = 2 * vl[w].ver + 1
    BY <2>3, <1>b DEF Word
  <2> QED  BY <2>2, <2>4, <2>5, <1>b, WordParts DEF WordRefused, WordTryLock, LockBit
<1>3. CASE VlUnlock(t)
  <2>1. PICK x \in First(held[t]) : vl' = [vl EXCEPT ![x].locked = FALSE]
    BY <1>3 DEF VlUnlock
  <2>2. x = w /\ x \in held[t] /\ pc[t] = "release"
    BY <1>3, <2>1, <1>a, FirstSubset DEF TypeOK, VlUnlock
  <2>3. vl'[w] = [ver |-> vl[w].ver, locked |-> FALSE] /\ vl[w].locked
    <3>1. w \in held[t]
      BY <2>2
    <3>2. vl[w].locked
      BY <3>1, <1>a DEF Owners
    <3>3. vl'[w] = [ver |-> vl[w].ver, locked |-> FALSE]
      BY <2>1, <2>2, <1>a DEF TypeOK
    <3> QED  BY <3>2, <3>3
  <2>4. Word(vl[w]) = 2 * vl[w].ver + 1 /\ Word(vl'[w]) = 2 * vl[w].ver
    BY <2>3, <1>b DEF Word
  <2>5. ToInt(2 * vl[w].ver) = 2 * vl[w].ver
    BY <1>b, ToIntFits DEF ClockFits
  <2>6. Word(vl[w]) - 1 = 2 * vl[w].ver
    BY <2>4, <1>b
  <2>7. Word(vl'[w]) = WordUnlock(Word(vl[w]))
    BY <2>4, <2>5, <2>6 DEF WordUnlock
  <2> QED  BY <2>2, <2>7
<1>4. CASE VlUnlockUpdate(t)
  <2>1. PICK x \in loc[t].cur : vl' = [vl EXCEPT ![x] = [ver |-> loc[t].wv, locked |-> FALSE]]
    BY <1>4 DEF VlUnlockUpdate
  <2>2. x = w /\ pc[t] = "unlock"
    BY <1>4, <2>1, <1>a DEF TypeOK, VlUnlockUpdate
  <2>3. vl'[w] = [ver |-> loc[t].wv, locked |-> FALSE]
    BY <2>1, <2>2, <1>a DEF TypeOK
  <2>4. loc[t].wv \in Nat /\ loc[t].wv <= gv
    BY <2>2, <1>a, TypeFacts DEF Clock, Decided
  <2>5. ToInt(2 * loc[t].wv) = 2 * loc[t].wv
    BY <2>4, <1>b, ToIntFits DEF ClockFits
  <2>6. Word(vl'[w]) = 2 * loc[t].wv
    BY <2>3, <2>4 DEF Word
  <2> QED  BY <2>2, <2>5, <2>6 DEF WordUnlockUpdate
<1>5. CASE ~(VlCas(t) \/ VlUnlock(t) \/ VlUnlockUpdate(t))
  <2>1. vl' = vl
    <3>1. CASE Call(t) \/ ReadStep(t) \/ Quiet(t)
      BY <3>1, <1>a, CallEffect, ReadStepEffect, QuietEffect DEF Local
    <3>2. CASE Shared(t)
      BY <3>2, <1>5 DEF Shared, Tick, TickValidate, Validate, WriteBack, WriteBackEnd
    <3> QED  BY <3>1, <3>2, <1>1, StepKinds
  <2> QED  BY <2>1
<1> QED  BY <1>2, <1>3, <1>4, <1>5

(* vl_try_lock, vl_read_version, vl_unlock and vl_unlock_update on an int   *)
(* are the lock that TL2.tla uses, up to a quarter of the range of the int. *)
THEOREM LocksAreWords == Spec => LockWords
<1> DEFINE Right == ClockFits /\ ClockFits' => WordsAnswer /\ WordsChange
<1>1. IInv /\ [Next]_vars => [Right]_vars
  <2> SUFFICES ASSUME IInv, [Next]_vars, ClockFits, ClockFits'
               PROVE  WordsAnswer /\ WordsChange
    OBVIOUS
  <2>1. TypeOK
    BY DEF IInv
  <2> QED  BY <2>1, AnswersRight, ChangesRight
<1>2. Spec => [][Right]_vars
  BY <1>1, InductiveInvariant, PTL DEF Spec
<1> QED  BY <1>2 DEF LockWords

-----------------------------------------------------------------------------
(* The order of the locks                                                  *)

(* A remainder is one, whatever the multiple that is added to it. *)
LEMMA RemainderOf ==
  ASSUME NEW n \in Nat \ {0}, NEW r \in 0 .. n - 1, NEW k \in Int
  PROVE  (r + k * n) % n = r
  BY Z3T(30)

(* A difference modulo n is that of the remainders. *)
LEMMA DifferenceMod ==
  ASSUME NEW x \in Nat, NEW y \in Nat, NEW n \in Nat \ {0}
  PROVE  (x - y) % n = ((x % n) - (y % n)) % n
<1> DEFINE q == (x \div n) - (y \div n)
           d == (x % n) - (y % n)
<1>1. /\ x = n * (x \div n) + (x % n) /\ y = n * (y \div n) + (y % n)
      /\ x \div n \in Int /\ y \div n \in Int /\ x % n \in 0 .. n - 1 /\ y % n \in 0 .. n - 1
  BY Z3T(30)
<1>2. x - y = d + q * n /\ q \in Int /\ d \in Int /\ d < n /\ 0 - n < d
  BY <1>1, Z3T(30)
<1>3. (x - y) % n = d % n
  <2> HIDE DEF q, d
  <2>1. CASE d >= 0
    <3>1. d \in 0 .. n - 1
      BY <1>2, <2>1
    <3>2. (d + q * n) % n = d /\ (d + 0 * n) % n = d
      BY <1>2, <3>1, RemainderOf
    <3> QED  BY <1>2, <3>2
  <2>2. CASE d < 0
    <3>1. d + n \in 0 .. n - 1
      BY <1>2, <2>2
    <3>2. ASSUME NEW k \in Int PROVE ((d + n) + k * n) % n = d + n
      BY <3>1, RemainderOf
    <3>3. /\ q - 1 \in Int /\ (d + n) + (q - 1) * n = d + q * n
          /\ 0 - 1 \in Int /\ (d + n) + (0 - 1) * n = d
      BY <1>2, Z3T(30)
    <3> QED  BY <1>2, <3>2, <3>3
  <2> QED  BY <1>2, <2>1, <2>2
<1> QED  BY <1>3

LEMMA LowBitsNat == \A w \in Words : LowBits(w) \in Nat
  BY ConstantsAssumption DEF LowBits

LEMMA CmpIsDifference ==
  ASSUME NEW v \in Words, 2 * LowBits(v) < IntRange,
         NEW w \in Words, 2 * LowBits(w) < IntRange
  PROVE  WsItemCmp(v, w) = LowBits(v) - LowBits(w)
<1> DEFINE d == LowBits(v) - LowBits(w)
<1>1. IntRange \in Nat \ {0} /\ Addr[v] \in Nat /\ Addr[w] \in Nat
  BY ConstantsAssumption
<1>2. (Addr[v] - Addr[w]) % IntRange = d % IntRange
  BY <1>1, DifferenceMod DEF LowBits
<1>3. d \in Int /\ 2 * d < IntRange /\ 2 * (0 - d) < IntRange
  BY <1>1, LowBitsNat
<1> HIDE DEF d
<1>4. CASE d >= 0
  <2>1. d % IntRange = d
    BY <1>1, <1>3, <1>4, SMTT(30)
  <2> QED  BY <1>2, <1>3, <2>1 DEF WsItemCmp, d
<1>5. CASE ~(d >= 0)
  <2>1. d % IntRange = d + IntRange
    BY <1>1, <1>3, <1>5, SMTT(30)
  <2>2. ~(2 * (d % IntRange) < IntRange)
    BY <1>1, <1>3, <2>1
  <2> QED  BY <1>1, <1>2, <1>3, <2>1, <2>2 DEF WsItemCmp, d
<1> QED  BY <1>4, <1>5

(* Induction on the natural numbers, as a fact about sets of them. *)
LEMMA Least ==
  ASSUME NEW T \in SUBSET Nat, T # {}
  PROVE  \E x \in T : \A y \in T : x <= y
<1> DEFINE R == {p \in Nat \X Nat : p[1] < p[2]}
<1>1. IsWellFoundedOn(R, Nat)
  BY NatLessThanWellFounded DEF OpToRel
<1>2. \E x \in T : \A y \in T : ~ (<<y, x>> \in R)
  <2> HIDE DEF R
  <2> QED  BY <1>1, WFMin
<1>3. PICK x \in T : \A y \in T : ~ (<<y, x>> \in R)
  BY <1>2
<1>4. ASSUME NEW y \in T PROVE x <= y
  <2>1. <<y, x>> \in Nat \X Nat /\ ~ (<<y, x>> \in R)
    BY <1>3
  <2>2. ~ (y < x)
    BY <2>1
  <2> QED  BY <2>2
<1> QED  BY <1>4

LEMMA LeastOffset ==
  ASSUME NEW S \in SUBSET Words, S # {}
  PROVE  \E x \in S : \A y \in S : LowBits(x) <= LowBits(y)
<1> DEFINE T == {LowBits(w) : w \in S}
<1>1. T \in SUBSET Nat /\ T # {}
  BY LowBitsNat
<1>2. PICK n \in T : \A m \in T : n <= m
  <2> HIDE DEF T
  <2> QED  BY <1>1, Least
<1> QED  BY <1>2

(* No offset of S is at half the range of an int or beyond. *)
InOrder(S) == \A w \in S : 2 * LowBits(w) < IntRange

(* Where a loop over such a set goes first is one of its least offsets. *)
LEMMA FirstIsLeast ==
  ASSUME NEW S \in SUBSET Words, InOrder(S), NEW w \in First(S), NEW u \in S
  PROVE  LowBits(w) <= LowBits(u)
<1>1. PICK x \in S : \A y \in S : LowBits(x) <= LowBits(y)
  BY LeastOffset
<1>2. \A y \in S : WsItemCmp(x, y) <= 0
  <2> SUFFICES ASSUME NEW y \in S PROVE WsItemCmp(x, y) <= 0
    OBVIOUS
  <2>1. WsItemCmp(x, y) = LowBits(x) - LowBits(y) /\ LowBits(x) \in Nat /\ LowBits(y) \in Nat
    BY CmpIsDifference, LowBitsNat DEF InOrder
  <2> QED  BY <1>1, <2>1
<1>3. w \in S /\ WsItemCmp(w, u) <= 0
  BY <1>2 DEF First
<1>4. WsItemCmp(w, u) = LowBits(w) - LowBits(u) /\ LowBits(w) \in Nat /\ LowBits(u) \in Nat
  BY <1>3, CmpIsDifference, LowBitsNat DEF InOrder
<1> QED  BY <1>3, <1>4

(* What tm_end has locked is not above what it has left. *)
Ascending(t) ==
  /\ InOrder(Written(t)) /\ pc[t] \in Locking =>
       \A v \in held[t], w \in loc[t].todo : LowBits(v) <= LowBits(w)
  /\ pc[t] = "cas" => loc[t].cur \subseteq First(loc[t].todo)

(* Only three steps lead into the loop that takes the locks. *)
LEMMA LeavesLocking ==
  ASSUME TypeOK, NEW t \in Threads, Step(t), ~TmEnd(t), ~VlTryLock(t), ~VlCas(t)
  PROVE  pc'[t] \notin Locking
<1> USE DEF Locking
<1>1. ASSUME TransactionCleanup(t) PROVE pc'[t] \notin Locking
  BY <1>1, CleanupEffect
<1>2. ASSUME NEW l \in PCs \ Locking, Goto(t, l) PROVE pc'[t] \notin Locking
  BY <1>2, Domains DEF Goto
<1>3. CASE Call(t)
  <2>1. ASSUME NEW ro \in BOOLEAN, TmBegin(t, ro) PROVE pc'[t] \notin Locking
    BY <1>2, <2>1 DEF TmBegin, PCs
  <2>2. ASSUME NEW w \in Words, RwRead(t, w) PROVE pc'[t] \notin Locking
    BY <1>2, <2>2 DEF RwRead, PCs
  <2>3. ASSUME NEW w \in Words, RwReadStale(t, w) \/ TmWriteStale(t, w) PROVE pc'[t] \notin Locking
    BY <1>1, <2>3 DEF RwReadStale, TmWriteStale, Abort
  <2>4. ASSUME NEW w \in Words, NEW v \in Writes, TmWrite(t, w, v) PROVE pc'[t] \notin Locking
    BY <2>4 DEF TmWrite
  <2>5. ASSUME NEW S \in Spans, RoRead(t, S) PROVE pc'[t] \notin Locking
    BY <1>2, <2>5 DEF RoRead, PCs
  <2>6. ASSUME AllocFails(t) \/ TmEndReadOnly(t) PROVE pc'[t] \notin Locking
    BY <1>1, <2>6 DEF AllocFails, TmEndReadOnly, Abort
  <2> QED  BY <1>3, <2>1, <2>2, <2>3, <2>4, <2>5, <2>6 DEF Call
<1>4. CASE ReadStep(t)
  <2>1. CASE RwCopy(t) \/ RwPost(t) \/ RoPostNewer(t) \/ RoClock(t)
    BY <1>2, <2>1 DEF RwCopy, RwPost, RoPostNewer, RoClock, PCs
  <2>2. CASE RwPostChanged(t) \/ RoPreLocked(t) \/ RoPostChanged(t) \/ RevalidateSetsFails(t)
    BY <1>1, <2>2 DEF RwPostChanged, RoPreLocked, RoPostChanged, RevalidateSetsFails, Abort
  <2>3. CASE RoPre(t)
    BY <1>2, <2>3 DEF RoPre, PCs
  <2>4. CASE RoCopy(t)
    BY <1>2, <2>4 DEF RoCopy, PCs
  <2>5. CASE RoPost(t) \/ RoRevalidated(t)
    <3>1. \E l \in {"ready", "ro_post"} : Goto(t, l)
      BY <2>5 DEF RoPost, RoRevalidated, RoAccept
    <3> QED  BY <1>2, <3>1 DEF PCs
  <2>6. CASE RevalidateSets(t)
    BY <2>6 DEF RevalidateSets
  <2> QED  BY <1>4, <2>1, <2>2, <2>3, <2>4, <2>5, <2>6 DEF ReadStep
<1>5. ASSUME Fail(t) PROVE pc'[t] \notin Locking
  BY <1>1, <1>2, <1>5 DEF Fail, Abort, PCs
<1>6. CASE EndStep(t)
  <2>1. CASE VlTryLockStale(t) \/ VlCasFails(t) \/ ValidateStale(t)
    BY <1>5, <2>1 DEF VlTryLockStale, VlCasFails, ValidateStale
  <2>2. CASE VlUnlock(t)
    BY <1>1, <2>2 DEF VlUnlock
  <2>3. CASE Tick(t) \/ TickValidate(t) \/ WriteBack(t) \/ WriteBackEnd(t)
    BY <1>2, <2>3 DEF Tick, TickValidate, WriteBack, WriteBackEnd, Decide, PCs
  <2>4. CASE Validate(t)
    <3>1. Goto(t, "write") \/ (pc' = pc /\ pc[t] = "validate")
      BY <2>4 DEF Validate, Decide
    <3> QED  BY <1>2, <3>1 DEF PCs
  <2>5. CASE VlUnlockUpdate(t)
    <3>1. Goto(t, "write") \/ TransactionCleanup(t)
      BY <2>5 DEF VlUnlockUpdate
    <3> QED  BY <1>1, <1>2, <3>1 DEF PCs
  <2> QED  BY <1>6, <2>1, <2>2, <2>3, <2>4, <2>5 DEF EndStep
<1> QED  BY <1>3, <1>4, <1>6 DEF Step

LEMMA AscendingKept ==
  ASSUME IInv, [Next]_vars, \A t \in Threads : Ascending(t)
  PROVE  \A t \in Threads : Ascending(t)'
<1>a. TypeOK /\ \A t \in Threads : Phase(t)
  BY DEF IInv, ThreadInv
<1>1. CASE UNCHANGED vars
  BY <1>1 DEF vars, Ascending, Written
<1>2. ASSUME NEW t \in Threads, Step(t) PROVE \A u \in Threads : Ascending(u)'
  <2>1. Others(t)
    BY <1>a, <1>2, CallEffect, ReadStepEffect, QuietEffect, SharedOthers, StepKinds
  <2>2. ASSUME NEW u \in Threads \ {t} PROVE Ascending(u)'
    BY <2>1 DEF Others, Ascending, Written
  <2>3. CASE TmEnd(t)
    <3>1. held'[t] = {} /\ pc'[t] = "lock"
      BY <1>a, <2>3, Domains DEF TmEnd, Phase, Ending, Locking, Decided, Goto
    <3> QED  BY <2>2, <3>1 DEF Ascending
  <2>4. CASE VlTryLock(t)
    <3>1. PICK w \in First(loc[t].todo) :
            loc' = [loc EXCEPT ![t] = [@ EXCEPT !.cur = {w}, !.prev[w] = vl[w].ver]]
      BY <2>4 DEF VlTryLock
    <3>2. loc[t] \in Locals
      BY <1>a DEF TypeOK
    <3>3. loc'[t].todo = loc[t].todo /\ loc'[t].cur = {w} /\ held' = held /\ pc[t] = "lock"
      BY <1>a, <2>4, <3>1, <3>2 DEF VlTryLock, TypeOK, Locals
    <3>4. tx' = tx
      BY <2>4 DEF VlTryLock
    <3> QED  BY <2>2, <3>1, <3>3, <3>4 DEF Ascending, Locking, Written
  <2>5. CASE VlCas(t)
    <3>1. PICK w \in loc[t].cur :
            /\ held' = [held EXCEPT ![t] = @ \cup {w}]
            /\ loc' = [loc EXCEPT ![t] = [@ EXCEPT !.todo = loc[t].todo \ {w}, !.cur = {}]]
      BY <2>5 DEF VlCas
    <3>2. loc[t] \in Locals /\ held[t] \in SUBSET Words
      BY <1>a DEF TypeOK
    <3>3. held'[t] = held[t] \cup {w} /\ loc'[t].todo = loc[t].todo \ {w} /\ loc'[t].cur = {}
      BY <1>a, <3>1, <3>2 DEF TypeOK, Locals
    <3>4. w \in First(loc[t].todo) /\ loc[t].todo \in SUBSET Words
      BY <2>5, <3>1, <3>2 DEF VlCas, Ascending, Locals
    <3>5. loc[t].todo \subseteq Written(t) /\ tx' = tx
      BY <1>a, <2>5 DEF VlCas, Phase, Locking
    <3>6. ASSUME InOrder(Written(t)) PROVE \A u \in loc[t].todo \ {w} : LowBits(w) <= LowBits(u)
      BY <3>4, <3>5, <3>6, FirstIsLeast DEF InOrder
    <3>7. InOrder(Written(t)) => \A v \in held[t], u \in loc[t].todo : LowBits(v) <= LowBits(u)
      BY <2>5 DEF VlCas, Ascending, Locking
    <3>8. Ascending(t)'
      BY <3>3, <3>5, <3>6, <3>7 DEF Ascending, Written
    <3> QED  BY <2>2, <3>8
  <2>6. CASE ~TmEnd(t) /\ ~VlTryLock(t) /\ ~VlCas(t)
    <3>1. pc'[t] \notin Locking
      BY <1>a, <1>2, <2>6, LeavesLocking
    <3> QED  BY <2>2, <3>1 DEF Ascending, Locking
  <2> QED  BY <2>2, <2>3, <2>4, <2>5, <2>6
<1> QED  BY <1>1, <1>2 DEF Next, Step, Stopped

(* tm_end, whatever the segments: two transactions that each hold the lock  *)
(* the other one is about to fail on do so over two words of the same offset *)
(* (no address of either write set being 2 GiB or more into its segment).   *)
(* Between words that ws_item_cmp tells apart, tm_end locks in one order.   *)
THEOREM LocksNotCrossed == Spec => []NoCrossedLocks
<1> DEFINE Sorted == \A t \in Threads : Ascending(t)
<1>1. Init => Sorted
  BY DEF Init, Ascending, Locking
<1>2. IInv /\ Sorted /\ [Next]_vars => Sorted'
  BY AscendingKept
<1>3. IInv /\ Sorted => NoCrossedLocks
  <2> SUFFICES ASSUME IInv, Sorted, NEW t \in Threads, NEW u \in Threads,
                      NEW v \in held[t], NEW w \in held[u],
                      pc[t] = "lock", w \in First(loc[t].todo),
                      pc[u] = "lock", v \in First(loc[u].todo),
                      \A x \in Written(t) \cup Written(u) : 2 * LowBits(x) < IntRange
               PROVE  LowBits(v) = LowBits(w)
    BY DEF NoCrossedLocks
  <2>1. w \in loc[t].todo /\ v \in loc[u].todo
    BY FirstSubset
  <2>2. LowBits(v) <= LowBits(w) /\ LowBits(w) <= LowBits(v)
    BY <2>1 DEF Ascending, Locking, InOrder
  <2>3. v \in Words /\ w \in Words
    BY DEF IInv, TypeOK
  <2> QED  BY <2>2, <2>3, LowBitsNat
<1> HIDE DEF Sorted
<1> QED  BY <1>1, <1>2, <1>3, InductiveInvariant, PTL DEF Spec

-----------------------------------------------------------------------------
(* The filter of the write set                                             *)

LEMMA MaskNotEmpty ==
  ASSUME NEW pos
  PROVE  Mask(pos) # {}
<1>1. 31 \in 31 .. 63
  OBVIOUS
<1> QED  BY <1>1 DEF Mask

(* Whatever order FoldSet takes, every word leaves its bits in the filter. *)
LEMMA FilterHolds ==
  ASSUME NEW S \in SUBSET Words, IsFiniteSet(S)
  PROVE  \A w \in S : UNION Masks(Addr[w]) \subseteq Filter(S)
<1> DEFINE Pick(s) == CHOOSE x \in s : TRUE
           Is(f) == f = [s \in SUBSET S |-> IF s = {} THEN {}
                                            ELSE BfAdd(f[s \ {Pick(s)}], Addr[Pick(s)])]
           All(s) == UNION {UNION Masks(Addr[w]) : w \in s}
           iter == CHOOSE f : Is(f)
<1>1. Filter(S) = iter[S]
  BY DEF Filter, FoldSet, MapThenFoldSet
<1>2. \A s \in SUBSET S : s # {} => Pick(s) \in s
  OBVIOUS
<1>3. \E f : Is(f)
  <2> DEFINE g == [s \in SUBSET S |-> All(s)]
  <2>1. ASSUME NEW s \in SUBSET S
        PROVE  All(s) = IF s = {} THEN {} ELSE BfAdd(g[s \ {Pick(s)}], Addr[Pick(s)])
    <3>1. CASE s = {}
      BY <3>1
    <3>2. CASE s # {}
      <4>1. Pick(s) \in s /\ s \ {Pick(s)} \in SUBSET S
        BY <1>2, <3>2
      <4> HIDE DEF Pick
      <4>2. All(s) = All(s \ {Pick(s)}) \cup UNION Masks(Addr[Pick(s)])
        BY <4>1
      <4> QED  BY <3>2, <4>1, <4>2 DEF BfAdd
    <3> QED  BY <3>1, <3>2
  <2> HIDE DEF All, Pick
  <2>2. Is(g)
    BY <2>1
  <2> QED  BY <2>2
<1>4. Is(iter)
  BY <1>3
<1>5. \A s \in SUBSET S : iter[s] = IF s = {} THEN {}
                                    ELSE iter[s \ {Pick(s)}] \cup UNION Masks(Addr[Pick(s)])
  <2> HIDE DEF iter, Pick
  <2> QED  BY <1>4 DEF BfAdd
<1> DEFINE Bad == {n \in Nat : \E s \in SUBSET S : Cardinality(s) = n /\ ~(All(s) \subseteq iter[s])}
<1> HIDE DEF iter, Pick
<1>6. Bad = {}
  <2> SUFFICES ASSUME Bad # {} PROVE FALSE
    OBVIOUS
  <2>1. PICK n \in Bad : \A m \in Bad : n <= m
    BY Least
  <2>2. PICK s \in SUBSET S : Cardinality(s) = n /\ ~(All(s) \subseteq iter[s])
    BY <2>1
  <2>3. s # {}
    BY <2>2
  <2> DEFINE x == Pick(s)
             r == s \ {x}
  <2>4. x \in s /\ r \in SUBSET S
    BY <1>2, <2>3
  <2>5. IsFiniteSet(s) /\ Cardinality(r) = n - 1 /\ n \in Nat /\ Cardinality(r) \in Nat
    BY <2>2, <2>4, FS_Subset, FS_RemoveElement, FS_CardinalityType
  <2>6. All(r) \subseteq iter[r]
    <3>1. n - 1 \notin Bad
      <4> HIDE DEF Bad
      <4> QED  BY <2>1, <2>5
    <3> HIDE DEF r
    <3> QED  BY <2>4, <2>5, <3>1
  <2>7. All(s) = All(r) \cup UNION Masks(Addr[x])
    BY <2>4
  <2>8. iter[s] = iter[r] \cup UNION Masks(Addr[x])
    BY <1>5, <2>3
  <2> HIDE DEF All, r, x
  <2> QED  BY <2>2, <2>6, <2>7, <2>8
<1>7. All(S) \subseteq iter[S]
  <2>1. Cardinality(S) \in Nat
    BY FS_CardinalityType
  <2> HIDE DEF All
  <2> QED  BY <1>6, <2>1
<1> QED  BY <1>1, <1>7

(* The filter of bloom.c has no false negatives, although a shift by more   *)
(* than 31 bits puts the bits elsewhere: tm_read and tm_write find every    *)
(* word that the transaction has written, in a memory of finitely many      *)
(* words with addresses of their own.                                       *)
THEOREM WritesFound ==
  ASSUME IsFiniteSet(Words), \A v, w \in Words : v # w => Addr[v] # Addr[w]
  PROVE  Spec => []OwnWritesFound
<1>1. OwnWritesFound
  <2> SUFFICES ASSUME NEW t \in Threads, NEW w \in Written(t), NEW u \in Written(t)
               PROVE  BfIn(Filter(Written(t)), Addr[w]) /\ (Addr[u] = Addr[w] => u = w)
    BY DEF OwnWritesFound
  <2>1. Written(t) \in SUBSET Words /\ IsFiniteSet(Written(t)) /\ w \in Words /\ u \in Words
    BY FS_Subset DEF Written
  <2>2. UNION Masks(Addr[w]) \subseteq Filter(Written(t))
    BY <2>1, FilterHolds
  <2>3. ASSUME NEW m \in Masks(Addr[w]) PROVE m # {}
    <3>1. PICK i \in 0 .. 4 : m = Mask(Hash(Addr[w], i * 31) % 64)
      BY DEF Masks, NumHashes, BitsetSize
    <3> QED  BY <3>1, MaskNotEmpty
  <2> QED  BY <2>1, <2>2, <2>3 DEF BfIn
<1> QED  BY <1>1, PTL

=============================================================================
