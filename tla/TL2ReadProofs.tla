--------------------------- MODULE TL2ReadProofs ----------------------------
(***************************************************************************)
(* Every action of TL2.tla keeps TypeOK; a step of tm_end needs two parts  *)
(* of the invariant for it (its ticket is a natural number, what it gives  *)
(* back is a word).  The steps of tm_begin, tm_read and tm_write keep the  *)
(* invariant of TL2Inv.tla.  The proof sorts the actions by what they do   *)
(* to shared memory: most do nothing to it, and what a thread relies on    *)
(* survives the eight others (Monotone), all of them in tm_end.            *)
(***************************************************************************)
EXTENDS TL2Inv, TLAPS

-----------------------------------------------------------------------------
(* Types.                                                                  *)

LEMMA FirstSubset == \A S : First(S) \subseteq S
  BY DEF First

LEMMA NoTxType == NoTx \in Transaction /\ NoLoc \in Locals
  BY ConstantsAssumption DEF NoTx, NoLoc, Transaction, Locals

LEMMA PCsIn ==
  \A l \in {"idle", "ready", "rw_copy", "rw_post", "ro_pre", "ro_copy", "ro_post",
            "ro_clock", "ro_reval", "lock", "cas", "release", "tick", "validate",
            "write", "copy", "unlock"} : l \in PCs
  BY DEF PCs

(* The updates of the locals and of the transaction that the actions make. *)
LEMMA LocalsUpdate ==
  ASSUME NEW l \in Locals, NEW w \in Words, NEW S \in SUBSET Words, NEW n \in Nat,
         NEW v \in Values \cup {Torn}
  PROVE  /\ [l EXCEPT !.cur = {w}, !.prev[w] = n] \in Locals
         /\ [l EXCEPT !.prev[w] = n, !.todo = S] \in Locals
         /\ [l EXCEPT !.buf[w] = v] \in Locals
         /\ [l EXCEPT !.buf[w] = v, !.todo = S] \in Locals
<1>1. [l EXCEPT !.cur = {w}, !.prev[w] = n] \in Locals
  BY DEF Locals
<1>2. [l EXCEPT !.prev[w] = n, !.todo = S] \in Locals
  BY DEF Locals
<1>3. [l EXCEPT !.buf[w] = v] \in Locals
  BY DEF Locals
<1>4. [l EXCEPT !.buf[w] = v, !.todo = S] \in Locals
  BY DEF Locals
<1> QED  BY <1>1, <1>2, <1>3, <1>4

LEMMA LocalsUpdateSets ==
  ASSUME NEW l \in Locals, NEW S \in SUBSET Words, NEW n \in Nat,
         NEW R \in SUBSET (Words \X Nat)
  PROVE  /\ [l EXCEPT !.todo = S] \in Locals
         /\ [l EXCEPT !.cur = S] \in Locals
         /\ [l EXCEPT !.todo = S, !.cur = {}] \in Locals
         /\ [l EXCEPT !.span = S, !.todo = S] \in Locals
         /\ [l EXCEPT !.reval = R] \in Locals
         /\ [l EXCEPT !.nrv = n, !.reval = R] \in Locals
         /\ [l EXCEPT !.wv = n, !.reval = R] \in Locals
         /\ [l EXCEPT !.wv = n, !.todo = S, !.reval = {}] \in Locals
<1>1. [l EXCEPT !.todo = S] \in Locals
  BY DEF Locals
<1>2. [l EXCEPT !.todo = S, !.cur = {}] \in Locals
  BY DEF Locals
<1>3. [l EXCEPT !.span = S, !.todo = S] \in Locals
  BY DEF Locals
<1>4. [l EXCEPT !.reval = R] \in Locals
  BY DEF Locals
<1>5. [l EXCEPT !.nrv = n, !.reval = R] \in Locals
  BY DEF Locals
<1>6. [l EXCEPT !.wv = n, !.reval = R] \in Locals
  BY DEF Locals
<1>7. [l EXCEPT !.wv = n, !.todo = S, !.reval = {}] \in Locals
  BY DEF Locals
<1>8. [l EXCEPT !.cur = S] \in Locals
  BY DEF Locals
<1> QED  BY <1>1, <1>2, <1>3, <1>4, <1>5, <1>6, <1>7, <1>8

LEMMA TransactionWrite ==
  ASSUME NEW x \in Transaction, NEW w \in Words, NEW v \in Values,
         NEW R \in SUBSET (Words \X Nat)
  PROVE  [x EXCEPT !.ws[w] = v, !.rs = R] \in Transaction
  BY DEF Transaction

LEMMA TransactionRead ==
  ASSUME NEW x \in Transaction, NEW n \in Nat, NEW R \in SUBSET (Words \X Nat)
  PROVE  /\ [x EXCEPT !.rs = R] \in Transaction
         /\ [x EXCEPT !.rv = n, !.rs = R] \in Transaction
<1>1. [x EXCEPT !.rs = R] \in Transaction
  BY DEF Transaction
<1>2. [x EXCEPT !.rv = n, !.rs = R] \in Transaction
  BY DEF Transaction
<1> QED  BY <1>1, <1>2

(* What Decide writes is of the right type. *)
LEMMA DecideType ==
  ASSUME TypeOK, NEW t \in Threads, NEW wv \in Nat, wv > 0, Decide(t, wv)
  PROVE  /\ hist' \in SUBSET [word : Words, ver : Nat, val : Values]
         /\ done' \in SUBSET [ro : BOOLEAN, at : Nat, suspect : SUBSET Words,
                              reads : SUBSET (Words \X (Values \cup {Torn}))]
         /\ loc' \in [Threads -> Locals]
         /\ pc' \in [Threads -> PCs]
<1>1. \A w \in Written(t) : w \in Words /\ tx[t].ws[w] \in Values
  BY DEF TypeOK, Written, Transaction
<1>2. {[word |-> w, ver |-> wv, val |-> tx[t].ws[w]] : w \in Written(t)}
        \subseteq [word : Words, ver : Nat, val : Values]
  BY <1>1
<1>3. hist' \in SUBSET [word : Words, ver : Nat, val : Values]
  BY <1>2 DEF TypeOK, Decide
<1>4. seen[t] \in SUBSET (Words \X (Values \cup {Torn}))
  BY DEF TypeOK
<1>5. [ro |-> FALSE, at |-> wv - 1, reads |-> seen[t], suspect |-> {}]
        \in [ro : BOOLEAN, at : Nat, suspect : SUBSET Words,
             reads : SUBSET (Words \X (Values \cup {Torn}))]
  BY <1>4
<1>6. done' \in SUBSET [ro : BOOLEAN, at : Nat, suspect : SUBSET Words,
                       reads : SUBSET (Words \X (Values \cup {Torn}))]
  BY <1>5 DEF TypeOK, Decide
<1>7. loc \in [Threads -> Locals] /\ loc[t] \in Locals /\ Written(t) \in SUBSET Words
  BY DEF TypeOK, Written
<1>8. loc' \in [Threads -> Locals]
  <2>1. [loc[t] EXCEPT !.wv = wv, !.todo = Written(t), !.reval = {}] \in Locals
    BY <1>7, LocalsUpdateSets
  <2> QED  BY <1>7, <2>1 DEF Decide
<1>9. pc' \in [Threads -> PCs]
  BY PCsIn DEF TypeOK, Decide, Goto
<1> QED  BY <1>3, <1>6, <1>8, <1>9

LEMMA CleanupType ==
  ASSUME TypeOK, NEW t \in Threads, TransactionCleanup(t)
  PROVE  /\ pc' \in [Threads -> PCs]
         /\ tx' \in [Threads -> Transaction]
         /\ loc' \in [Threads -> Locals]
         /\ seen' \in [Threads -> SUBSET (Words \X (Values \cup {Torn}))]
         /\ suspect' \in [Threads -> SUBSET Words]
  BY PCsIn, NoTxType DEF TypeOK, TransactionCleanup, Goto

LEMMA AbortType ==
  ASSUME TypeOK, NEW t \in Threads, Abort(t)
  PROVE  TypeOK'
  BY CleanupType DEF TypeOK, Abort

(* What TypeOK says of one thread, word by word. *)
LEMMA TypeFacts ==
  ASSUME TypeOK, NEW t \in Threads
  PROVE  /\ pc[t] \in PCs
         /\ tx \in [Threads -> Transaction] /\ tx[t] \in Transaction
         /\ loc \in [Threads -> Locals] /\ loc[t] \in Locals
         /\ gv \in Nat /\ gv + 1 \in Nat
         /\ Written(t) \in SUBSET Words
         /\ tx[t].rv \in Nat /\ tx[t].rs \in SUBSET (Words \X Nat)
         /\ tx[t].ro \in BOOLEAN
         /\ loc[t].cur \in SUBSET Words /\ loc[t].todo \in SUBSET Words
         /\ loc[t].span \in SUBSET Words
         /\ loc[t].reval \in SUBSET (Words \X Nat)
         /\ loc[t].nrv \in Nat /\ loc[t].wv \in Nat
         /\ held[t] \in SUBSET Words
         /\ \A w \in Words : /\ vl[w].ver \in Nat /\ vl[w].locked \in BOOLEAN
                             /\ mem[w] \in Values \cup {Torn}
                             /\ tx[t].ws[w] \in Values \cup {None}
                             /\ loc[t].prev[w] \in Nat
                             /\ loc[t].buf[w] \in Values \cup {Torn}
<1>1. /\ tx \in [Threads -> Transaction] /\ tx[t] \in Transaction
      /\ loc \in [Threads -> Locals] /\ loc[t] \in Locals
      /\ gv \in Nat /\ gv + 1 \in Nat /\ held[t] \in SUBSET Words /\ pc[t] \in PCs
      /\ \A w \in Words : /\ vl[w].ver \in Nat /\ vl[w].locked \in BOOLEAN
                          /\ mem[w] \in Values \cup {Torn}
  BY DEF TypeOK
<1>2. /\ tx[t].rv \in Nat /\ tx[t].rs \in SUBSET (Words \X Nat)
      /\ tx[t].ro \in BOOLEAN
      /\ \A w \in Words : tx[t].ws[w] \in Values \cup {None}
  BY <1>1 DEF Transaction
<1>3. /\ loc[t].cur \in SUBSET Words /\ loc[t].todo \in SUBSET Words
      /\ loc[t].span \in SUBSET Words
      /\ loc[t].reval \in SUBSET (Words \X Nat)
      /\ loc[t].nrv \in Nat /\ loc[t].wv \in Nat
      /\ \A w \in Words : /\ loc[t].prev[w] \in Nat
                          /\ loc[t].buf[w] \in Values \cup {Torn}
  BY <1>1 DEF Locals
<1> QED  BY <1>1, <1>2, <1>3 DEF Written

LEMMA CallType ==
  ASSUME TypeOK, NEW t \in Threads, Call(t)
  PROVE  TypeOK'
<1>1. ASSUME NEW ro \in BOOLEAN, TmBegin(t, ro) PROVE TypeOK'
  <2>1. [NoTx EXCEPT !.ro = ro, !.rv = gv] \in Transaction
    BY TypeFacts, NoTxType DEF Transaction
  <2> QED  BY <1>1, <2>1, PCsIn DEF TypeOK, TmBegin, Goto
<1>2. ASSUME NEW w \in Words, RwRead(t, w) PROVE TypeOK'
  <2>1. [loc[t] EXCEPT !.cur = {w}, !.prev[w] = vl[w].ver] \in Locals
    BY TypeFacts, LocalsUpdate
  <2> QED  BY <1>2, <2>1, PCsIn DEF TypeOK, RwRead, Goto
<1>3. ASSUME NEW w \in Words, RwReadStale(t, w) PROVE TypeOK'
  BY <1>3, AbortType DEF RwReadStale
<1>4. ASSUME NEW w \in Words, NEW v \in Values, TmWrite(t, w, v) PROVE TypeOK'
  <2>1. WithoutWord(t, w) \in SUBSET (Words \X Nat)
    BY TypeFacts DEF WithoutWord
  <2>2. [tx[t] EXCEPT !.ws[w] = v, !.rs = WithoutWord(t, w)] \in Transaction
    BY TypeFacts, <2>1, TransactionWrite
  <2> QED  BY <1>4, <2>2 DEF TypeOK, TmWrite
<1>5. ASSUME NEW w \in Words, TmWriteStale(t, w) PROVE TypeOK'
  BY <1>5, AbortType DEF TmWriteStale
<1>6. ASSUME NEW S \in Spans, RoRead(t, S) PROVE TypeOK'
  <2>1. S \in SUBSET Words
    BY ConstantsAssumption
  <2>2. [loc[t] EXCEPT !.span = S, !.todo = S] \in Locals
    BY TypeFacts, <2>1, LocalsUpdateSets
  <2> QED  BY <1>6, <2>2, PCsIn DEF TypeOK, RoRead, Goto
<1>7. ASSUME AllocFails(t) PROVE TypeOK'
  BY <1>7, AbortType DEF AllocFails
<1>8. ASSUME TmEndReadOnly(t) PROVE TypeOK'
  <2>1. [ro |-> tx[t].ro, at |-> tx[t].rv, reads |-> seen[t], suspect |-> suspect[t]]
          \in [ro : BOOLEAN, at : Nat, suspect : SUBSET Words,
               reads : SUBSET (Words \X (Values \cup {Torn}))]
    <3>1. seen[t] \in SUBSET (Words \X (Values \cup {Torn})) /\ suspect[t] \in SUBSET Words
      BY DEF TypeOK
    <3> QED  BY TypeFacts, <3>1
  <2> QED  BY <1>8, <2>1, CleanupType DEF TypeOK, TmEndReadOnly
<1>9. ASSUME TmEnd(t) PROVE TypeOK'
  <2>1. [loc[t] EXCEPT !.todo = Written(t)] \in Locals
    BY TypeFacts, LocalsUpdateSets
  <2>2. loc' \in [Threads -> Locals]
    BY <1>9, <2>1, TypeFacts DEF TmEnd
  <2> QED  BY <1>9, <2>2, PCsIn DEF TypeOK, TmEnd, Goto
<1> QED  BY <1>1, <1>2, <1>3, <1>4, <1>5, <1>6, <1>7, <1>8, <1>9, ConstantsAssumption DEF Call

LEMMA ReadStepType ==
  ASSUME TypeOK, NEW t \in Threads, ReadStep(t)
  PROVE  TypeOK'
<1>0. /\ First(loc[t].todo) \subseteq Words
      /\ \A w \in Words : Left(t, w) \in SUBSET Words
      /\ \A w \in Words : AddToReadset(t, w) \in SUBSET (Words \X Nat)
      /\ \A w \in Words : <<w, loc[t].buf[w]>> \in Words \X (Values \cup {Torn})
      /\ seen[t] \in SUBSET (Words \X (Values \cup {Torn}))
  BY TypeFacts, FirstSubset DEF Left, AddToReadset, TypeOK
<1>1. ASSUME RwCopy(t) PROVE TypeOK'
  <2>1. PICK w \in loc[t].cur : loc' = [loc EXCEPT ![t] = [@ EXCEPT !.buf[w] = mem[w]]]
    BY <1>1 DEF RwCopy
  <2>2. [loc[t] EXCEPT !.buf[w] = mem[w]] \in Locals
    BY TypeFacts, LocalsUpdate
  <2>3. loc' \in [Threads -> Locals]
    BY <2>1, <2>2, TypeFacts
  <2> QED  BY <1>1, <2>3, PCsIn DEF TypeOK, RwCopy, Goto
<1>2. ASSUME RwPost(t) PROVE TypeOK'
  <2>1. PICK w \in loc[t].cur :
          /\ tx' = [tx EXCEPT ![t].rs = AddToReadset(t, w)]
          /\ seen' = [seen EXCEPT ![t] = @ \cup {<<w, loc[t].buf[w]>>}]
    BY <1>2 DEF RwPost
  <2>2. [tx[t] EXCEPT !.rs = AddToReadset(t, w)] \in Transaction
    BY TypeFacts, <1>0, TransactionRead
  <2>3. tx' \in [Threads -> Transaction]
    BY <2>1, <2>2, TypeFacts
  <2>4. seen' \in [Threads -> SUBSET (Words \X (Values \cup {Torn}))]
    BY <2>1, <1>0, TypeFacts DEF TypeOK
  <2> QED  BY <1>2, <2>3, <2>4, PCsIn, NoTxType DEF TypeOK, RwPost, Goto
<1>3. ASSUME NEW w \in Words, NEW rv \in Nat, RoAccept(t, w, rv), suspect' \in [Threads -> SUBSET Words]
      PROVE TypeOK'
  <2>1. [tx[t] EXCEPT !.rv = rv, !.rs = AddToReadset(t, w)] \in Transaction
    BY TypeFacts, <1>0, TransactionRead
  <2>2. tx' \in [Threads -> Transaction]
    BY <1>3, <2>1, TypeFacts DEF RoAccept
  <2>3. seen' \in [Threads -> SUBSET (Words \X (Values \cup {Torn}))]
    BY <1>3, <1>0, TypeFacts DEF TypeOK, RoAccept
  <2>4. [loc[t] EXCEPT !.todo = loc[t].todo \ {w}, !.cur = {}] \in Locals
    BY TypeFacts, LocalsUpdateSets
  <2>5. loc' \in [Threads -> Locals]
    <3>1. CASE loc[t].todo = {w}
      BY <1>3, <3>1, TypeFacts, NoTxType DEF RoAccept
    <3>2. CASE loc[t].todo # {w}
      BY <1>3, <3>2, <2>4, TypeFacts DEF RoAccept
    <3> QED  BY <3>1, <3>2
  <2>6. pc' \in [Threads -> PCs]
    BY <1>3, PCsIn DEF TypeOK, RoAccept, Goto
  <2> QED  BY <1>3, <2>2, <2>3, <2>5, <2>6 DEF TypeOK, RoAccept
<1>4. ASSUME RwPostChanged(t) \/ RoPreLocked(t) \/ RoPostChanged(t) \/ RevalidateSetsFails(t)
      PROVE TypeOK'
  BY <1>4, AbortType DEF RwPostChanged, RoPreLocked, RoPostChanged, RevalidateSetsFails
<1>5. ASSUME RoPre(t) PROVE TypeOK'
  <2>1. PICK w \in First(loc[t].todo) :
          /\ loc' = [loc EXCEPT ![t] = [@ EXCEPT !.prev[w] = vl[w].ver, !.todo = Left(t, w)]]
          /\ Goto(t, IF loc[t].todo = {w} THEN "ro_copy" ELSE "ro_pre")
    BY <1>5 DEF RoPre
  <2>2. [loc[t] EXCEPT !.prev[w] = vl[w].ver, !.todo = Left(t, w)] \in Locals
    BY TypeFacts, <1>0, LocalsUpdate
  <2>3. loc' \in [Threads -> Locals]
    BY <2>1, <2>2, TypeFacts
  <2>4. pc' \in [Threads -> PCs]
    BY <2>1, PCsIn DEF TypeOK, Goto
  <2> QED  BY <1>5, <2>3, <2>4 DEF TypeOK, RoPre
<1>6. ASSUME RoCopy(t) PROVE TypeOK'
  <2>1. PICK w \in First(loc[t].todo) :
          /\ loc' = [loc EXCEPT ![t] = [@ EXCEPT !.buf[w] = mem[w], !.todo = Left(t, w)]]
          /\ Goto(t, IF loc[t].todo = {w} THEN "ro_post" ELSE "ro_copy")
    BY <1>6 DEF RoCopy
  <2>2. [loc[t] EXCEPT !.buf[w] = mem[w], !.todo = Left(t, w)] \in Locals
    BY TypeFacts, <1>0, LocalsUpdate
  <2>3. loc' \in [Threads -> Locals]
    BY <2>1, <2>2, TypeFacts
  <2>4. pc' \in [Threads -> PCs]
    BY <2>1, PCsIn DEF TypeOK, Goto
  <2> QED  BY <1>6, <2>3, <2>4 DEF TypeOK, RoCopy
<1>7. ASSUME RoPost(t) PROVE TypeOK'
  <2>1. suspect' \in [Threads -> SUBSET Words]
    BY <1>7 DEF RoPost, TypeOK
  <2> QED  BY <1>7, <2>1, <1>3, <1>0, TypeFacts DEF RoPost
<1>8. ASSUME RoPostNewer(t) PROVE TypeOK'
  <2>1. PICK w \in First(loc[t].todo) : loc' = [loc EXCEPT ![t].cur = {w}]
    BY <1>8 DEF RoPostNewer
  <2>2. [loc[t] EXCEPT !.cur = {w}] \in Locals
    <3>1. {w} \in SUBSET Words /\ loc[t] \in Locals
      BY <1>0, TypeFacts
    <3> QED  BY <3>1 DEF Locals
  <2>3. loc' \in [Threads -> Locals]
    BY <2>1, <2>2, TypeFacts
  <2> QED  BY <1>8, <2>3, PCsIn DEF TypeOK, RoPostNewer, Goto
<1>9. ASSUME RoClock(t) PROVE TypeOK'
  <2>1. [loc[t] EXCEPT !.nrv = gv, !.reval = tx[t].rs] \in Locals
    BY TypeFacts, LocalsUpdateSets
  <2>2. loc' \in [Threads -> Locals]
    BY <1>9, <2>1, TypeFacts DEF RoClock
  <2> QED  BY <1>9, <2>2, PCsIn DEF TypeOK, RoClock, Goto
<1>10. ASSUME RevalidateSets(t) PROVE TypeOK'
  <2>1. PICK r \in loc[t].reval : loc' = [loc EXCEPT ![t].reval = @ \ {r}]
    BY <1>10 DEF RevalidateSets
  <2>2. [loc[t] EXCEPT !.reval = @ \ {r}] \in Locals
    BY TypeFacts, LocalsUpdateSets
  <2>3. loc' \in [Threads -> Locals]
    BY <2>1, <2>2, TypeFacts
  <2> QED  BY <1>10, <2>3 DEF TypeOK, RevalidateSets
<1>11. ASSUME RoRevalidated(t) PROVE TypeOK'
  <2>1. suspect' \in [Threads -> SUBSET Words]
    BY <1>11, TypeFacts DEF RoRevalidated, TypeOK
  <2> QED  BY <1>11, <2>1, <1>3, TypeFacts DEF RoRevalidated
<1> QED  BY <1>1, <1>2, <1>4, <1>5, <1>6, <1>7, <1>8, <1>9, <1>10, <1>11 DEF ReadStep

LEMMA FailType ==
  ASSUME TypeOK, NEW t \in Threads, Fail(t)
  PROVE  TypeOK'
<1>1. CASE held[t] = {}
  BY <1>1, AbortType DEF Fail
<1>2. CASE held[t] # {}
  BY <1>2, PCsIn DEF TypeOK, Fail, Goto
<1> QED  BY <1>1, <1>2

(* The type of the history needs a ticket that is not zero, the type of the *)
(* memory that what is written back is in the write set.                    *)
LEMMA EndStepType ==
  ASSUME TypeOK, Clock, NEW t \in Threads, Phase(t), EndStep(t)
  PROVE  TypeOK'
<1>0. /\ First(loc[t].todo) \subseteq Words
      /\ First(held[t]) \subseteq Words
  BY TypeFacts, FirstSubset
<1>1. ASSUME VlTryLock(t) PROVE TypeOK'
  <2>1. PICK w \in First(loc[t].todo) :
          loc' = [loc EXCEPT ![t] = [@ EXCEPT !.cur = {w}, !.prev[w] = vl[w].ver]]
    BY <1>1 DEF VlTryLock
  <2>2. [loc[t] EXCEPT !.cur = {w}, !.prev[w] = vl[w].ver] \in Locals
    BY TypeFacts, <1>0, LocalsUpdate
  <2>3. loc' \in [Threads -> Locals]
    BY <2>1, <2>2, TypeFacts
  <2> QED  BY <1>1, <2>3, PCsIn DEF TypeOK, VlTryLock, Goto
<1>2. ASSUME VlTryLockStale(t) \/ VlCasFails(t) \/ ValidateStale(t) PROVE TypeOK'
  BY <1>2, FailType DEF VlTryLockStale, VlCasFails, ValidateStale
<1>3. ASSUME VlCas(t) PROVE TypeOK'
  <2>1. PICK w \in loc[t].cur :
          /\ vl' = [vl EXCEPT ![w].locked = TRUE]
          /\ held' = [held EXCEPT ![t] = @ \cup {w}]
          /\ loc' = [loc EXCEPT ![t] = [@ EXCEPT !.todo = loc[t].todo \ {w}, !.cur = {}]]
          /\ Goto(t, IF loc[t].todo = {w} THEN "tick" ELSE "lock")
    BY <1>3 DEF VlCas
  <2>2. [loc[t] EXCEPT !.todo = loc[t].todo \ {w}, !.cur = {}] \in Locals
    BY TypeFacts, LocalsUpdateSets
  <2>3. loc' \in [Threads -> Locals]
    BY <2>1, <2>2, TypeFacts
  <2>4. pc' \in [Threads -> PCs]
    BY <2>1, PCsIn DEF TypeOK, Goto
  <2>5. w \in Words
    BY TypeFacts
  <2>6. /\ vl' \in [Words -> [ver : Nat, locked : BOOLEAN]]
        /\ held' \in [Threads -> SUBSET Words]
    BY <2>1, <2>5 DEF TypeOK
  <2> QED  BY <1>3, <2>3, <2>4, <2>6 DEF TypeOK, VlCas
<1>4. ASSUME VlUnlock(t) PROVE TypeOK'
  <2>1. PICK w \in First(held[t]) :
          /\ vl' = [vl EXCEPT ![w].locked = FALSE]
          /\ held' = [held EXCEPT ![t] = @ \ {w}]
    BY <1>4 DEF VlUnlock
  <2>2. /\ vl' \in [Words -> [ver : Nat, locked : BOOLEAN]]
        /\ held' \in [Threads -> SUBSET Words]
    <3>1. w \in Words /\ vl \in [Words -> [ver : Nat, locked : BOOLEAN]]
      BY <1>0 DEF TypeOK
    <3>2. vl' \in [Words -> [ver : Nat, locked : BOOLEAN]]
      BY <2>1, <3>1
    <3>3. held' \in [Threads -> SUBSET Words]
      BY <2>1 DEF TypeOK
    <3> QED  BY <3>2, <3>3
  <2>3. CASE held'[t] = {}
    BY <1>4, <2>2, <2>3, CleanupType DEF TypeOK, VlUnlock
  <2>4. CASE held'[t] # {}
    BY <1>4, <2>2, <2>4 DEF TypeOK, VlUnlock
  <2> QED  BY <2>3, <2>4
<1>5. ASSUME Tick(t) PROVE TypeOK'
  <2>1. Decide(t, gv + 1) /\ gv + 1 \in Nat /\ gv + 1 > 0
    BY <1>5, TypeFacts DEF Tick
  <2> QED  BY <1>5, <2>1, DecideType DEF TypeOK, Tick
<1>6. ASSUME TickValidate(t) PROVE TypeOK'
  <2>1. [loc[t] EXCEPT !.wv = gv + 1, !.reval = tx[t].rs] \in Locals
    BY TypeFacts, LocalsUpdateSets
  <2>2. loc' \in [Threads -> Locals]
    BY <1>6, <2>1, TypeFacts DEF TickValidate
  <2> QED  BY <1>6, <2>2, PCsIn DEF TypeOK, TickValidate, Goto
<1>7. ASSUME Validate(t) PROVE TypeOK'
  <2>1. PICK r \in loc[t].reval :
          IF loc[t].reval = {r}
          THEN Decide(t, loc[t].wv)
          ELSE loc' = [loc EXCEPT ![t].reval = @ \ {r}] /\ UNCHANGED <<pc, hist, done>>
    BY <1>7 DEF Validate
  <2>2. CASE loc[t].reval = {r}
    <3>1. Decide(t, loc[t].wv) /\ loc[t].wv \in Nat /\ loc[t].wv > 0
      BY <1>7, <2>1, <2>2, TypeFacts DEF Clock, Validate
    <3> QED  BY <1>7, <3>1, DecideType DEF TypeOK, Validate
  <2>3. CASE loc[t].reval # {r}
    <3>1. [loc[t] EXCEPT !.reval = @ \ {r}] \in Locals
      BY TypeFacts, LocalsUpdateSets
    <3>2. loc' \in [Threads -> Locals]
      BY <2>1, <2>3, <3>1, TypeFacts
    <3> QED  BY <1>7, <2>1, <2>3, <3>2 DEF TypeOK, Validate
  <2> QED  BY <2>2, <2>3
<1>8. ASSUME WriteBack(t) PROVE TypeOK'
  <2>1. PICK w \in First(loc[t].todo) :
          /\ mem' = [mem EXCEPT ![w] = Torn]
          /\ loc' = [loc EXCEPT ![t].cur = {w}]
    BY <1>8 DEF WriteBack
  <2>2. [loc[t] EXCEPT !.cur = {w}] \in Locals
    <3>1. {w} \in SUBSET Words /\ loc[t] \in Locals
      BY <1>0, TypeFacts
    <3> QED  BY <3>1 DEF Locals
  <2>3. loc' \in [Threads -> Locals]
    BY <2>1, <2>2, TypeFacts
  <2>4. mem' \in [Words -> Values \cup {Torn}]
    BY <2>1 DEF TypeOK
  <2> QED  BY <1>8, <2>3, <2>4, PCsIn DEF TypeOK, WriteBack, Goto
<1>9. ASSUME WriteBackEnd(t) PROVE TypeOK'
  <2>1. PICK w \in loc[t].cur : mem' = [mem EXCEPT ![w] = tx[t].ws[w]]
    BY <1>9 DEF WriteBackEnd
  <2>2. w \in Written(t)
    BY <1>9 DEF WriteBackEnd, Phase, Decided
  <2>3. tx[t].ws[w] \in Values
    BY <2>2, TypeFacts DEF Written
  <2>4. mem' \in [Words -> Values \cup {Torn}]
    BY <2>1, <2>3 DEF TypeOK
  <2> QED  BY <1>9, <2>4, PCsIn DEF TypeOK, WriteBackEnd, Goto
<1>10. ASSUME VlUnlockUpdate(t) PROVE TypeOK'
  <2>1. PICK w \in loc[t].cur :
          /\ vl' = [vl EXCEPT ![w] = [ver |-> loc[t].wv, locked |-> FALSE]]
          /\ held' = [held EXCEPT ![t] = @ \ {w}]
          /\ IF loc[t].todo = {w}
             THEN TransactionCleanup(t)
             ELSE /\ loc' = [loc EXCEPT ![t] = [@ EXCEPT !.todo = loc[t].todo \ {w}, !.cur = {}]]
                  /\ Goto(t, "write")
                  /\ UNCHANGED <<tx, seen, suspect>>
    BY <1>10 DEF VlUnlockUpdate
  <2>2. /\ vl' \in [Words -> [ver : Nat, locked : BOOLEAN]]
        /\ held' \in [Threads -> SUBSET Words]
    BY <2>1, TypeFacts DEF TypeOK
  <2>3. CASE loc[t].todo = {w}
    BY <1>10, <2>1, <2>2, <2>3, CleanupType DEF TypeOK, VlUnlockUpdate
  <2>4. CASE loc[t].todo # {w}
    <3>1. [loc[t] EXCEPT !.todo = loc[t].todo \ {w}, !.cur = {}] \in Locals
      BY TypeFacts, LocalsUpdateSets
    <3>2. loc' \in [Threads -> Locals]
      BY <2>1, <2>4, <3>1, TypeFacts
    <3> QED  BY <1>10, <2>1, <2>2, <2>4, <3>2, PCsIn DEF TypeOK, VlUnlockUpdate, Goto
  <2> QED  BY <2>3, <2>4
<1> QED  BY <1>1, <1>2, <1>3, <1>4, <1>5, <1>6, <1>7, <1>8, <1>9, <1>10 DEF EndStep

-----------------------------------------------------------------------------
(* Effects of a step.                                                      *)

Step(t) == Call(t) \/ ReadStep(t) \/ EndStep(t)

(* What a step of thread t leaves alone. *)
Others(t) ==
  \A u \in Threads \ {t} :
    /\ pc'[u] = pc[u] /\ tx'[u] = tx[u] /\ loc'[u] = loc[u]
    /\ held'[u] = held[u] /\ seen'[u] = seen[u] /\ suspect'[u] = suspect[u]

(* A step that touches no shared memory and commits nothing. *)
Local(t) ==
  /\ UNCHANGED <<gv, vl, mem, held, hist>>
  /\ pc[t] \notin Decided /\ pc'[t] \notin Decided \cup {"validate"}

LEMMA Domains ==
  ASSUME TypeOK
  PROVE  /\ pc = [t \in Threads |-> pc[t]] /\ tx = [t \in Threads |-> tx[t]]
         /\ loc = [t \in Threads |-> loc[t]] /\ held = [t \in Threads |-> held[t]]
         /\ seen = [t \in Threads |-> seen[t]] /\ suspect = [t \in Threads |-> suspect[t]]
  BY DEF TypeOK

LEMMA CleanupEffect ==
  ASSUME TypeOK, NEW t \in Threads, TransactionCleanup(t)
  PROVE  /\ pc'[t] = "idle" /\ tx'[t] = NoTx /\ loc'[t] = NoLoc
         /\ seen'[t] = {} /\ suspect'[t] = {}
         /\ held' = held => Others(t)
  BY Domains DEF TransactionCleanup, Goto, Others

LEMMA AbortEffect ==
  ASSUME TypeOK, NEW t \in Threads, Abort(t), pc[t] \notin Decided
  PROVE  Others(t) /\ Local(t)
  BY CleanupEffect DEF Abort, Local, Decided

LEMMA CallEffect ==
  ASSUME TypeOK, NEW t \in Threads, Call(t)
  PROVE  Others(t) /\ Local(t)
<1>1. ASSUME NEW ro \in BOOLEAN, TmBegin(t, ro) PROVE Others(t) /\ Local(t)
  BY <1>1, Domains DEF TmBegin, Goto, Others, Local, Decided
<1>2. ASSUME NEW w \in Words, RwRead(t, w) PROVE Others(t) /\ Local(t)
  BY <1>2, Domains DEF RwRead, Goto, Others, Local, Decided
<1>3. ASSUME NEW w \in Words, RwReadStale(t, w) PROVE Others(t) /\ Local(t)
  BY <1>3, AbortEffect DEF RwReadStale, Decided
<1>4. ASSUME NEW w \in Words, NEW v \in Values, TmWrite(t, w, v) PROVE Others(t) /\ Local(t)
  BY <1>4, Domains DEF TmWrite, Others, Local, Decided
<1>5. ASSUME NEW w \in Words, TmWriteStale(t, w) PROVE Others(t) /\ Local(t)
  BY <1>5, AbortEffect DEF TmWriteStale, Decided
<1>6. ASSUME NEW S \in Spans, RoRead(t, S) PROVE Others(t) /\ Local(t)
  BY <1>6, Domains DEF RoRead, Goto, Others, Local, Decided
<1>7. ASSUME AllocFails(t) PROVE Others(t) /\ Local(t)
  BY <1>7, AbortEffect DEF AllocFails, Decided
<1>8. ASSUME TmEndReadOnly(t) PROVE Others(t) /\ Local(t)
  BY <1>8, CleanupEffect DEF TmEndReadOnly, Local, Decided
<1>9. ASSUME TmEnd(t) PROVE Others(t) /\ Local(t)
  BY <1>9, Domains DEF TmEnd, Goto, Others, Local, Decided
<1> QED  BY <1>1, <1>2, <1>3, <1>4, <1>5, <1>6, <1>7, <1>8, <1>9, ConstantsAssumption DEF Call

LEMMA ReadStepEffect ==
  ASSUME TypeOK, NEW t \in Threads, ReadStep(t)
  PROVE  Others(t) /\ Local(t)
<1>1. ASSUME RwCopy(t) PROVE Others(t) /\ Local(t)
  BY <1>1, Domains DEF RwCopy, Goto, Others, Local, Decided
<1>2. ASSUME RwPost(t) PROVE Others(t) /\ Local(t)
  BY <1>2, Domains DEF RwPost, Goto, Others, Local, Decided
<1>3. ASSUME RwPostChanged(t) \/ RoPreLocked(t) \/ RoPostChanged(t) \/ RevalidateSetsFails(t)
      PROVE Others(t) /\ Local(t)
  BY <1>3, AbortEffect
     DEF RwPostChanged, RoPreLocked, RoPostChanged, RevalidateSetsFails, Decided
<1>4. ASSUME RoPre(t) PROVE Others(t) /\ Local(t)
  BY <1>4, Domains DEF RoPre, Goto, Others, Local, Decided
<1>5. ASSUME RoCopy(t) PROVE Others(t) /\ Local(t)
  BY <1>5, Domains DEF RoCopy, Goto, Others, Local, Decided
<1>6. ASSUME NEW w, NEW rv, RoAccept(t, w, rv), pc[t] \notin Decided,
             \A u \in Threads \ {t} : suspect'[u] = suspect[u]
      PROVE Others(t) /\ Local(t)
  <2>1. CASE loc[t].todo = {w}
    BY <1>6, <2>1, Domains DEF RoAccept, Goto, Others, Local, Decided
  <2>2. CASE loc[t].todo # {w}
    BY <1>6, <2>2, Domains DEF RoAccept, Goto, Others, Local, Decided
  <2> QED  BY <2>1, <2>2
<1>7. ASSUME RoPost(t) PROVE Others(t) /\ Local(t)
  BY <1>6, <1>7 DEF RoPost, Decided
<1>8. ASSUME RoPostNewer(t) PROVE Others(t) /\ Local(t)
  BY <1>8, Domains DEF RoPostNewer, Goto, Others, Local, Decided
<1>9. ASSUME RoClock(t) PROVE Others(t) /\ Local(t)
  BY <1>9, Domains DEF RoClock, Goto, Others, Local, Decided
<1>10. ASSUME RevalidateSets(t) PROVE Others(t) /\ Local(t)
  BY <1>10, Domains DEF RevalidateSets, Others, Local, Decided
<1>11. ASSUME RoRevalidated(t) PROVE Others(t) /\ Local(t)
  <2>1. \A u \in Threads \ {t} : suspect'[u] = suspect[u]
    BY <1>11, Domains DEF RoRevalidated
  <2> QED  BY <1>6, <1>11, <2>1 DEF RoRevalidated, Decided
<1> QED  BY <1>1, <1>2, <1>3, <1>4, <1>5, <1>7, <1>8, <1>9, <1>10, <1>11 DEF ReadStep

LEMMA FailEffect ==
  ASSUME TypeOK, NEW t \in Threads, Fail(t), pc[t] \notin Decided
  PROVE  Others(t) /\ Local(t)
<1>1. CASE held[t] = {}
  BY <1>1, AbortEffect DEF Fail
<1>2. CASE held[t] # {}
  BY <1>2, Domains DEF Fail, Goto, Others, Local, Decided
<1> QED  BY <1>1, <1>2

(* The steps of tm_end that do something to shared memory... *)
Shared(t) ==
  \/ VlCas(t) \/ VlUnlock(t) \/ Tick(t) \/ TickValidate(t) \/ Validate(t)
  \/ WriteBack(t) \/ WriteBackEnd(t) \/ VlUnlockUpdate(t)

(* ... and those that do not. *)
Quiet(t) == VlTryLock(t) \/ VlTryLockStale(t) \/ VlCasFails(t) \/ ValidateStale(t)

LEMMA QuietEffect ==
  ASSUME TypeOK, NEW t \in Threads, Quiet(t)
  PROVE  Others(t) /\ Local(t)
<1>1. ASSUME VlTryLock(t) PROVE Others(t) /\ Local(t)
  BY <1>1, Domains DEF VlTryLock, Goto, Others, Local, Decided
<1>2. ASSUME VlTryLockStale(t) \/ VlCasFails(t) \/ ValidateStale(t)
      PROVE Others(t) /\ Local(t)
  BY <1>2, FailEffect DEF VlTryLockStale, VlCasFails, ValidateStale, Decided
<1> QED  BY <1>1, <1>2 DEF Quiet

LEMMA SharedOthers ==
  ASSUME TypeOK, NEW t \in Threads, Shared(t)
  PROVE  Others(t)
<1>1. ASSUME VlCas(t) PROVE Others(t)
  BY <1>1, Domains DEF VlCas, Goto, Others
<1>2. ASSUME VlUnlock(t) PROVE Others(t)
  <2>1. \A u \in Threads \ {t} : held'[u] = held[u]
    BY <1>2, Domains DEF VlUnlock
  <2>2. CASE held'[t] = {}
    BY <1>2, <2>1, <2>2, Domains DEF VlUnlock, Others, TransactionCleanup, Goto
  <2>3. CASE held'[t] # {}
    BY <1>2, <2>1, <2>3, Domains DEF VlUnlock, Others
  <2> QED  BY <2>2, <2>3
<1>3. ASSUME Tick(t) PROVE Others(t)
  BY <1>3, Domains DEF Tick, Decide, Goto, Others
<1>4. ASSUME TickValidate(t) PROVE Others(t)
  BY <1>4, Domains DEF TickValidate, Goto, Others
<1>5. ASSUME Validate(t) PROVE Others(t)
  <2>1. PICK r \in loc[t].reval :
          IF loc[t].reval = {r}
          THEN Decide(t, loc[t].wv)
          ELSE loc' = [loc EXCEPT ![t].reval = @ \ {r}] /\ UNCHANGED <<pc, hist, done>>
    BY <1>5 DEF Validate
  <2>2. CASE loc[t].reval = {r}
    BY <1>5, <2>1, <2>2, Domains DEF Validate, Decide, Goto, Others
  <2>3. CASE loc[t].reval # {r}
    BY <1>5, <2>1, <2>3, Domains DEF Validate, Others
  <2> QED  BY <2>2, <2>3
<1>6. ASSUME WriteBack(t) PROVE Others(t)
  BY <1>6, Domains DEF WriteBack, Goto, Others
<1>7. ASSUME WriteBackEnd(t) PROVE Others(t)
  BY <1>7, Domains DEF WriteBackEnd, Goto, Others
<1>8. ASSUME VlUnlockUpdate(t) PROVE Others(t)
  <2>1. PICK w \in loc[t].cur :
          /\ held' = [held EXCEPT ![t] = @ \ {w}]
          /\ IF loc[t].todo = {w}
             THEN TransactionCleanup(t)
             ELSE /\ loc' = [loc EXCEPT ![t] = [@ EXCEPT !.todo = loc[t].todo \ {w}, !.cur = {}]]
                  /\ Goto(t, "write")
                  /\ UNCHANGED <<tx, seen, suspect>>
    BY <1>8 DEF VlUnlockUpdate
  <2>2. CASE loc[t].todo = {w}
    BY <2>1, <2>2, Domains DEF Others, TransactionCleanup, Goto
  <2>3. CASE loc[t].todo # {w}
    BY <2>1, <2>3, Domains DEF Others, Goto
  <2> QED  BY <2>2, <2>3
<1> QED  BY <1>1, <1>2, <1>3, <1>4, <1>5, <1>6, <1>7, <1>8 DEF Shared

LEMMA StepKinds ==
  ASSUME NEW t \in Threads, Step(t)
  PROVE  Call(t) \/ ReadStep(t) \/ Quiet(t) \/ Shared(t)
  BY DEF Step, EndStep, Quiet, Shared

-----------------------------------------------------------------------------
(* What every thread may rely on across a step of another one.             *)

Monotone ==
  /\ hist \subseteq hist' /\ gv <= gv'
  /\ \A w \in Words : vl[w].ver <= vl'[w].ver
  /\ \A w \in Words :
       ~InWriteBack(w)' /\ vl'[w].ver = vl[w].ver => ~InWriteBack(w) /\ mem'[w] = mem[w]
  /\ \A w \in Words, v \in Nat, s \in Nat :
       s <= gv /\ Settled(w, v, s) => Settled(w, v, s)'

(* A commit that is not decided yet does not touch what is settled. *)
LEMMA SettledStable ==
  ASSUME TypeOK, NEW t \in Threads, Others(t),
         NEW w \in Words, NEW v \in Nat, NEW s \in Nat, Settled(w, v, s),
         \A h \in hist' \ hist : h.word = w => ~(h.ver <= s),
         pc'[t] = "validate" /\ w \in held'[t] => loc'[t].wv > s
  PROVE  Settled(w, v, s)'
<1>1. \A h \in hist' : h.word = w /\ h.ver <= s => h.ver <= v
  BY DEF Settled
<1>2. \A u \in Threads : pc'[u] = "validate" /\ w \in held'[u] => loc'[u].wv > s
  BY DEF Others, Settled
<1>3. v <= s
  BY DEF Settled
<1> QED  BY <1>1, <1>2, <1>3 DEF Settled

LEMMA LocalMonotone ==
  ASSUME TypeOK, NEW t \in Threads, Others(t), Local(t)
  PROVE  Monotone
<1>1. hist \subseteq hist' /\ gv <= gv' /\ \A w \in Words : vl[w].ver <= vl'[w].ver
  BY TypeFacts DEF Local, TypeOK
<1>2. \A w \in Words : InWriteBack(w) => InWriteBack(w)'
  BY DEF InWriteBack, Others, Local
<1>3. ASSUME NEW w \in Words, NEW v \in Nat, NEW s \in Nat, Settled(w, v, s)
      PROVE Settled(w, v, s)'
  BY <1>3, SettledStable DEF Local
<1> QED  BY <1>1, <1>2, <1>3 DEF Monotone, Local

(* What IInv says of the thread that is about to do a shared step. *)
LEMMA SharedMonotone ==
  ASSUME IInv, NEW t \in Threads, Shared(t)
  PROVE  Monotone
<1>a. TypeOK /\ Owners /\ Clock /\ Phase(t) /\ Others(t)
  BY SharedOthers DEF IInv, ThreadInv
<1>b. gv \in Nat /\ loc[t].wv \in Nat /\ tx[t].rv \in Nat /\ held[t] \subseteq Words
      /\ \A w \in Words : vl[w].ver \in Nat
  BY <1>a, TypeFacts
<1>c. /\ pc = [u \in Threads |-> pc[u]] /\ tx = [u \in Threads |-> tx[u]]
      /\ loc = [u \in Threads |-> loc[u]] /\ held = [u \in Threads |-> held[u]]
  BY <1>a, Domains
<1>d. vl = [w \in Words |-> vl[w]] /\ mem = [w \in Words |-> mem[w]]
      /\ \A w \in Words : vl[w] = [ver |-> vl[w].ver, locked |-> vl[w].locked]
  BY <1>a DEF TypeOK
<1>e. loc[t] \in Locals
  BY <1>a, TypeFacts
<1>1. ASSUME VlCas(t) PROVE Monotone
  <2>1. PICK x \in loc[t].cur :
          /\ vl' = [vl EXCEPT ![x].locked = TRUE]
          /\ Goto(t, IF loc[t].todo = {x} THEN "tick" ELSE "lock")
          /\ held' = [held EXCEPT ![t] = @ \cup {x}]
          /\ pc[t] = "cas" /\ UNCHANGED <<gv, mem, hist>>
    BY <1>1 DEF VlCas
  <2>2. \A w \in Words : vl'[w].ver = vl[w].ver
    BY <2>1, <1>d
  <2>3. pc'[t] # "validate"
    BY <2>1, <1>c DEF Goto
  <2>4. \A w \in Words : InWriteBack(w) => InWriteBack(w)'
    BY <2>1, <1>a DEF InWriteBack, Others, Decided
  <2>5. ASSUME NEW w \in Words, NEW v \in Nat, NEW s \in Nat, Settled(w, v, s)
        PROVE Settled(w, v, s)'
    BY <2>5, <2>1, <2>3, <1>a, SettledStable
  <2> QED  BY <2>1, <2>2, <2>4, <2>5, <1>b DEF Monotone
<1>2. ASSUME VlUnlock(t) PROVE Monotone
  <2>1. PICK x \in First(held[t]) :
          /\ vl' = [vl EXCEPT ![x].locked = FALSE]
          /\ pc[t] = "release" /\ UNCHANGED <<gv, mem, hist>>
    BY <1>2 DEF VlUnlock
  <2>2. \A w \in Words : vl'[w].ver = vl[w].ver
    BY <2>1, <1>d
  <2>3. pc'[t] \in {"idle", "release"}
    BY <1>2, <2>1, <1>c DEF VlUnlock, TransactionCleanup, Goto
  <2>4. \A w \in Words : InWriteBack(w) => InWriteBack(w)'
    BY <2>1, <1>a DEF InWriteBack, Others, Decided
  <2>5. ASSUME NEW w \in Words, NEW v \in Nat, NEW s \in Nat, Settled(w, v, s)
        PROVE Settled(w, v, s)'
    BY <2>5, <2>1, <2>3, <1>a, SettledStable
  <2> QED  BY <2>1, <2>2, <2>4, <2>5, <1>b DEF Monotone
<1>3. ASSUME NEW wv \in Nat, Decide(t, wv), UNCHANGED <<vl, mem, held>>, gv <= gv',
             pc[t] \in {"tick", "validate"},
             \A s \in Nat, v \in Nat, w \in held[t] :
               s <= gv /\ Settled(w, v, s) => wv > s
      PROVE Monotone
  <2>1. hist \subseteq hist' /\ pc'[t] = "write"
    BY <1>3, <1>c DEF Decide, Goto
  <2>2. \A h \in hist' \ hist : h.word \in held[t] /\ h.ver = wv
    BY <1>3, <1>a DEF Decide, Phase
  <2>3. \A w \in Words : InWriteBack(w) => InWriteBack(w)'
    BY <1>3, <1>a DEF InWriteBack, Others, Decided
  <2>4. ASSUME NEW w \in Words, NEW v \in Nat, NEW s \in Nat, s <= gv, Settled(w, v, s)
        PROVE Settled(w, v, s)'
    <3>1. \A h \in hist' \ hist : h.word = w => ~(h.ver <= s)
      BY <2>2, <2>4, <1>3
    <3> QED  BY <2>4, <2>1, <3>1, <1>a, SettledStable
  <2> QED  BY <1>3, <2>1, <2>3, <2>4, <1>b DEF Monotone
<1>4. ASSUME Tick(t) PROVE Monotone
  <2>1. Decide(t, gv + 1) /\ UNCHANGED <<vl, mem, held>> /\ gv' = gv + 1 /\ pc[t] = "tick"
    BY <1>4 DEF Tick
  <2> QED  BY <2>1, <1>3, <1>b
<1>5. ASSUME TickValidate(t) PROVE Monotone
  <2>1. /\ pc[t] = "tick" /\ UNCHANGED <<vl, mem, held, hist>> /\ gv' = gv + 1
        /\ loc'[t].wv = gv + 1
    BY <1>5, <1>c, <1>e DEF TickValidate, Locals
  <2>2. \A w \in Words : InWriteBack(w) => InWriteBack(w)'
    BY <2>1, <1>a DEF InWriteBack, Others, Decided
  <2>3. ASSUME NEW w \in Words, NEW v \in Nat, NEW s \in Nat, s <= gv, Settled(w, v, s)
        PROVE Settled(w, v, s)'
    <3>1. loc'[t].wv > s
      BY <2>1, <2>3, <1>b
    <3> QED  BY <2>3, <2>1, <3>1, <1>a, SettledStable
  <2> QED  BY <2>1, <2>2, <2>3, <1>b DEF Monotone
<1>6. ASSUME Validate(t) PROVE Monotone
  <2>1. PICK r \in loc[t].reval :
          IF loc[t].reval = {r}
          THEN Decide(t, loc[t].wv)
          ELSE loc' = [loc EXCEPT ![t].reval = @ \ {r}] /\ UNCHANGED <<pc, hist, done>>
    BY <1>6 DEF Validate
  <2>2. pc[t] = "validate" /\ UNCHANGED <<gv, vl, mem, held>>
    BY <1>6 DEF Validate
  <2>3. CASE loc[t].reval = {r}
    <3>1. \A s \in Nat, v \in Nat, w \in held[t] : Settled(w, v, s) => loc[t].wv > s
      BY <2>2, <1>b DEF Settled
    <3> QED  BY <2>1, <2>2, <2>3, <3>1, <1>3, <1>b
  <2>4. CASE loc[t].reval # {r}
    <3>1. loc'[t].wv = loc[t].wv /\ pc' = pc /\ hist' = hist
      BY <2>1, <2>4, <1>c, <1>e DEF Locals
    <3>2. \A w \in Words : InWriteBack(w) => InWriteBack(w)'
      BY <2>2, <3>1, <1>a DEF InWriteBack, Others, Decided
    <3>3. ASSUME NEW w \in Words, NEW v \in Nat, NEW s \in Nat, Settled(w, v, s)
          PROVE Settled(w, v, s)'
      <4>1. pc'[t] = "validate" /\ w \in held'[t] => loc'[t].wv > s
        BY <3>1, <3>3, <2>2 DEF Settled
      <4> QED  BY <3>3, <3>1, <4>1, <1>a, SettledStable
    <3> QED  BY <2>2, <3>1, <3>2, <3>3, <1>b DEF Monotone
  <2> QED  BY <2>3, <2>4
<1>7. ASSUME WriteBack(t) PROVE Monotone
  <2>1. PICK x \in First(loc[t].todo) :
          /\ mem' = [mem EXCEPT ![x] = Torn]
          /\ pc[t] = "write" /\ UNCHANGED <<gv, vl, held, hist>>
          /\ Goto(t, "copy")
    BY <1>7 DEF WriteBack
  <2>2. pc'[t] = "copy" /\ x \in held[t]
    BY <2>1, <1>a, <1>c, FirstSubset DEF Goto, Phase, Decided
  <2>3. \A w \in Words : InWriteBack(w) => InWriteBack(w)'
    BY <2>1, <2>2, <1>a DEF InWriteBack, Others, Decided
  <2>4. \A w \in Words : ~InWriteBack(w)' => mem'[w] = mem[w]
    BY <2>1, <2>2, <1>d DEF InWriteBack, Decided
  <2>5. ASSUME NEW w \in Words, NEW v \in Nat, NEW s \in Nat, Settled(w, v, s)
        PROVE Settled(w, v, s)'
    BY <2>5, <2>1, <2>2, <1>a, SettledStable
  <2> QED  BY <2>1, <2>3, <2>4, <2>5, <1>b DEF Monotone
<1>8. ASSUME WriteBackEnd(t) PROVE Monotone
  <2>1. PICK x \in loc[t].cur :
          /\ mem' = [mem EXCEPT ![x] = tx[t].ws[x]]
          /\ pc[t] = "copy" /\ UNCHANGED <<gv, vl, held, hist>>
          /\ Goto(t, "unlock")
    BY <1>8 DEF WriteBackEnd
  <2>2. pc'[t] = "unlock" /\ x \in held[t]
    BY <2>1, <1>a, <1>c DEF Goto, Phase
  <2>3. \A w \in Words : InWriteBack(w) => InWriteBack(w)'
    BY <2>1, <2>2, <1>a DEF InWriteBack, Others, Decided
  <2>4. \A w \in Words : ~InWriteBack(w)' => mem'[w] = mem[w]
    BY <2>1, <2>2, <1>d DEF InWriteBack, Decided
  <2>5. ASSUME NEW w \in Words, NEW v \in Nat, NEW s \in Nat, Settled(w, v, s)
        PROVE Settled(w, v, s)'
    BY <2>5, <2>1, <2>2, <1>a, SettledStable
  <2> QED  BY <2>1, <2>3, <2>4, <2>5, <1>b DEF Monotone
<1>9. ASSUME VlUnlockUpdate(t) PROVE Monotone
  <2>1. PICK x \in loc[t].cur :
          /\ vl' = [vl EXCEPT ![x] = [ver |-> loc[t].wv, locked |-> FALSE]]
          /\ held' = [held EXCEPT ![t] = @ \ {x}]
          /\ IF loc[t].todo = {x}
             THEN TransactionCleanup(t)
             ELSE /\ loc' = [loc EXCEPT ![t] = [@ EXCEPT !.todo = loc[t].todo \ {x}, !.cur = {}]]
                  /\ Goto(t, "write")
                  /\ UNCHANGED <<tx, seen, suspect>>
          /\ pc[t] = "unlock" /\ UNCHANGED <<gv, mem, hist>>
    BY <1>9 DEF VlUnlockUpdate
  <2>2. x \in held[t] /\ held[t] = loc[t].todo /\ x \in Words
    BY <2>1, <1>a, <1>b DEF Phase, Decided
  <2>3. vl[x].ver < loc[t].wv
    BY <2>1, <2>2, <1>a, <1>b DEF Owners, Clock, Decided
  <2>4. vl'[x].ver = loc[t].wv /\ \A w \in Words \ {x} : vl'[w] = vl[w]
    BY <2>1, <2>2, <1>d
  <2>5. pc'[t] = IF held[t] = {x} THEN "idle" ELSE "write"
    BY <2>1, <2>2, <1>c DEF TransactionCleanup, Goto
  <2>6. held'[t] = held[t] \ {x}
    BY <2>1, <1>c
  <2>7. \A w \in Words \ {x} : InWriteBack(w) => InWriteBack(w)'
    BY <2>5, <2>6, <1>a DEF InWriteBack, Others, Decided
  <2>8. ASSUME NEW w \in Words, NEW v \in Nat, NEW s \in Nat, Settled(w, v, s)
        PROVE Settled(w, v, s)'
    BY <2>8, <2>1, <2>5, <1>a, SettledStable
  <2> QED  BY <2>1, <2>3, <2>4, <2>7, <2>8, <1>b DEF Monotone
<1> QED  BY <1>1, <1>2, <1>4, <1>5, <1>6, <1>7, <1>8, <1>9 DEF Shared

-----------------------------------------------------------------------------
(* What one thread knows survives the steps of the others.                 *)

LEMMA HistoryTypes ==
  ASSUME TypeOK
  PROVE  /\ \A h \in hist : h.word \in Words /\ h.ver \in Nat /\ h.val \in Values
         /\ \A t \in Threads : \A r \in seen[t] : r[1] \in Words
         /\ \A t \in Threads : \A e \in tx[t].rs : e[1] \in Words /\ e[2] \in Nat
         /\ \A d \in done : d.at \in Nat /\ \A r \in d.reads : r[1] \in Words
<1>1. \A h \in hist : h.word \in Words /\ h.ver \in Nat /\ h.val \in Values
  BY DEF TypeOK
<1>2. \A t \in Threads : \A r \in seen[t] : r[1] \in Words
  BY DEF TypeOK
<1>3. \A t \in Threads : \A e \in tx[t].rs : e[1] \in Words /\ e[2] \in Nat
  BY TypeFacts
<1>4. \A d \in done : d.at \in Nat /\ \A r \in d.reads : r[1] \in Words
  BY DEF TypeOK
<1> QED  BY <1>1, <1>2, <1>3, <1>4

LEMMA SettledReadStable ==
  ASSUME TypeOK, Monotone, NEW r, r[1] \in Words, NEW s \in Nat, s <= gv, SettledRead(r, s)
  PROVE  SettledRead(r, s)'
<1>1. PICK h \in hist : h.word = r[1] /\ h.val = r[2] /\ Settled(r[1], h.ver, s)
  BY DEF SettledRead
<1>2. h \in hist' /\ h.ver \in Nat
  BY <1>1, HistoryTypes DEF Monotone
<1>3. Settled(r[1], h.ver, s)'
  BY <1>1, <1>2 DEF Monotone
<1> QED  BY <1>1, <1>2, <1>3 DEF SettledRead

(* The reads of a transaction that makes none in this step. *)
LEMMA ReadsKept ==
  ASSUME IInv, TypeOK', Monotone, NEW u \in Threads,
         tx'[u] = tx[u], seen'[u] = seen[u], suspect'[u] = suspect[u],
         pc'[u] = "idle" => pc[u] = "idle"
  PROVE  ReadSet(u)' /\ Snapshot(u)'
<1>a. TypeOK /\ Clock /\ ReadSet(u) /\ Snapshot(u)
  BY DEF IInv, ThreadInv
<1>1. ReadSet(u)'
  <2>1. hist \subseteq hist' /\ gv <= gv' /\ Written(u)' = Written(u)
    BY DEF Monotone, Written
  <2>2. tx[u].ro => \A r \in seen[u] : \E e \in tx[u].rs :
          e[1] = r[1] /\ [word |-> r[1], ver |-> e[2], val |-> r[2]] \in hist'
    BY <2>1, <1>a DEF ReadSet
  <2>3. tx[u].ro => \A e \in tx[u].rs : e[2] <= gv'
    <3>1. gv \in Nat /\ \A e \in tx[u].rs : e[2] \in Nat
      BY <1>a, TypeFacts, HistoryTypes
    <3>2. gv' \in Nat
      BY DEF TypeOK
    <3> QED  BY <2>1, <3>1, <3>2, <1>a DEF ReadSet
  <2> QED  BY <2>1, <2>2, <2>3, <1>a DEF ReadSet
<1>2. Snapshot(u)'
  <2>1. PICK s \in Nat : s = tx[u].rv
    BY <1>a, TypeFacts
  <2>2. s <= gv
    BY <2>1, <1>a DEF Clock
  <2>3. \A r \in seen[u] : r[1] \notin suspect[u] => SettledRead(r, s)'
    BY <2>1, <2>2, <1>a, HistoryTypes, SettledReadStable DEF Snapshot
  <2> QED  BY <2>1, <2>3 DEF Snapshot, SettledRead, Settled
<1> QED  BY <1>1, <1>2

LEMMA OthersKept ==
  ASSUME IInv, TypeOK', Monotone, NEW t \in Threads, Others(t), NEW u \in Threads \ {t}
  PROVE  ThreadInv(u)'
<1>a. /\ pc'[u] = pc[u] /\ tx'[u] = tx[u] /\ loc'[u] = loc[u]
      /\ held'[u] = held[u] /\ seen'[u] = seen[u] /\ suspect'[u] = suspect[u]
  BY DEF Others
<1>b. /\ TypeOK /\ Clock
      /\ Phase(u) /\ Copies(u) /\ Validation(u)
  BY DEF IInv, ThreadInv
<1>c. /\ Written(u)' = Written(u) /\ Copied(u)' = Copied(u)
  BY <1>a DEF Written, Copied
<1>1. ReadSet(u)' /\ Snapshot(u)'
  BY <1>a, ReadsKept
<1>2. Phase(u)'
  BY <1>a, <1>b, <1>c DEF Phase
<1>3. Copies(u)'
  <2>1. /\ Copied(u) \subseteq Words
        /\ \A w \in Words : loc[u].prev[w] \in Nat /\ vl[w].ver \in Nat
    BY <1>b, TypeFacts DEF Copied
  <2>2. \A w \in Words : vl'[w].ver \in Nat
    BY DEF TypeOK
  <2>3. \A w \in Words : loc'[u].prev[w] <= vl'[w].ver
    BY <1>a, <1>b, <2>1, <2>2 DEF Copies, Monotone
  <2>4. ASSUME NEW w \in Copied(u), vl'[w].ver = loc[u].prev[w], ~InWriteBack(w)'
        PROVE loc[u].buf[w] = mem'[w]
    <3>1. w \in Words /\ loc[u].prev[w] <= vl[w].ver /\ vl[w].ver <= vl'[w].ver
      BY <2>1, <1>b DEF Copies, Monotone
    <3>2. vl[w].ver = vl'[w].ver
      BY <3>1, <2>1, <2>2, <2>4
    <3>3. ~InWriteBack(w) /\ mem'[w] = mem[w]
      BY <3>1, <3>2, <2>4 DEF Monotone
    <3> QED  BY <3>2, <3>3, <2>4, <1>b DEF Copies
  <2>5. hist \subseteq hist'
    BY DEF Monotone
  <2> QED  BY <1>a, <1>b, <1>c, <2>3, <2>4, <2>5 DEF Copies
<1>4. Validation(u)'
  <2>1. PICK n \in Nat, m \in Nat, rv \in Nat : n = loc[u].nrv /\ m = loc[u].wv /\ rv = tx[u].rv
    BY <1>b, TypeFacts
  <2>2. gv \in Nat /\ gv' \in Nat /\ gv <= gv' /\ n <= gv
    BY <2>1, <1>b DEF TypeOK, Monotone, Clock
  <2>3. ASSUME pc[u] = "ro_reval", NEW e \in tx[u].rs \ loc[u].reval
        PROVE Settled(e[1], e[2], n)'
    <3>1. e[1] \in Words /\ e[2] \in Nat /\ Settled(e[1], e[2], n)
      BY <2>1, <2>3, <1>b, HistoryTypes DEF Validation
    <3> QED  BY <3>1, <2>2 DEF Monotone
  <2>4. ASSUME pc[u] = "validate", NEW e \in tx[u].rs \ loc[u].reval
        PROVE Settled(e[1], rv, m - 1)'
    <3>1. m - 1 \in Nat /\ m - 1 <= gv
      BY <2>1, <2>2, <2>4, <1>b DEF Clock
    <3>2. e[1] \in Words /\ Settled(e[1], rv, m - 1)
      BY <2>1, <2>4, <1>b, HistoryTypes DEF Validation
    <3> QED  BY <3>1, <3>2, <2>1 DEF Monotone
  <2>5. \A w \in Words : loc[u].prev[w] <= gv => loc[u].prev[w] <= gv'
    BY <2>2, <1>b, TypeFacts
  <2>6. pc[u] = "ro_reval" => \A w \in loc[u].cur : loc[u].prev[w] <= gv'
    BY <2>5, <1>b, TypeFacts DEF Validation
  <2>7. pc'[u] = "ro_reval" =>
          /\ \A e \in tx'[u].rs \ loc'[u].reval : Settled(e[1], e[2], loc[u].nrv)'
          /\ \A e \in tx'[u].rs : e[2] <= loc'[u].nrv
          /\ \A w \in loc'[u].cur : loc'[u].prev[w] <= gv'
          /\ tx'[u].rv <= loc'[u].nrv
    <3>1. pc'[u] = "ro_reval" => \A e \in tx'[u].rs \ loc'[u].reval : Settled(e[1], e[2], loc[u].nrv)'
      BY <1>a, <2>1, <2>3 DEF Settled
    <3> QED  BY <3>1, <1>a, <1>b, <2>6 DEF Validation
  <2>8. pc'[u] = "validate" =>
          \A e \in tx'[u].rs \ loc'[u].reval : Settled(e[1], tx[u].rv, loc[u].wv - 1)'
    BY <1>a, <2>1, <2>4 DEF Settled
  <2> QED  BY <2>7, <2>8 DEF Validation
<1> QED  BY <1>1, <1>2, <1>3, <1>4 DEF ThreadInv

-----------------------------------------------------------------------------
(* The parts of the invariant that are about no thread in particular.      *)

(* A transaction that commits is in order, and the older ones stay so. *)
LEMMA CommittedKept ==
  ASSUME IInv, TypeOK', Monotone,
         \A d \in done' \ done :
           d.at <= gv' /\ \A r \in d.reads : r[1] \notin d.suspect => SettledRead(r, d.at)'
  PROVE  Committed'
<1>1. ASSUME NEW d \in done PROVE
        d.at <= gv' /\ \A r \in d.reads : r[1] \notin d.suspect => SettledRead(r, d.at)'
  <2>1. PICK s \in Nat : s = d.at
    BY HistoryTypes DEF IInv, ThreadInv
  <2>2. s <= gv /\ gv <= gv' /\ gv \in Nat /\ gv' \in Nat
    BY <2>1 DEF IInv, Committed, Monotone, TypeOK
  <2>3. ASSUME NEW r \in d.reads, r[1] \notin d.suspect PROVE SettledRead(r, s)'
    <3>1. TypeOK /\ r[1] \in Words /\ SettledRead(r, s)
      BY <2>1, <2>3, HistoryTypes DEF IInv, Committed
    <3> QED  BY <3>1, <2>2, SettledReadStable
  <2> QED  BY <2>1, <2>2, <2>3
<1> QED  BY <1>1 DEF Committed

LEMMA LocalKeeps ==
  ASSUME IInv, TypeOK', NEW t \in Threads, Others(t), Local(t),
         held[t] # {} => tx'[t].rv = tx[t].rv,
         tx'[t].rv <= gv, loc'[t].nrv <= gv
  PROVE  Owners' /\ Clock' /\ Latest'
<1>a. TypeOK /\ Owners /\ Clock /\ Latest
  BY DEF IInv, ThreadInv
<1>1. Owners'
  BY <1>a DEF Owners, Others, Local
<1>2. Clock'
  <2>1. ASSUME NEW u \in Threads
        PROVE /\ tx'[u].rv <= gv' /\ loc'[u].nrv <= gv'
              /\ pc'[u] \in Decided \cup {"validate"} =>
                   tx'[u].rv < loc'[u].wv /\ loc'[u].wv <= gv'
    BY <1>a DEF Clock, Others, Local
  <2> QED  BY <1>a, <2>1 DEF Clock, Local
<1>3. Latest'
  <2>1. \A w \in Words : InWriteBack(w)' <=> InWriteBack(w)
    BY DEF InWriteBack, Others, Local
  <2> QED  BY <1>a, <2>1 DEF Latest, Others, Local
<1> QED  BY <1>1, <1>2, <1>3

-----------------------------------------------------------------------------
(* The steps that touch no shared memory.                                  *)

LEMMA Assemble ==
  ASSUME IInv, TypeOK', Monotone, NEW t \in Threads, Others(t),
         Owners', Clock', Latest', Committed', ThreadInv(t)'
  PROVE  IInv'
<1>1. \A u \in Threads : ThreadInv(u)'
  BY OthersKept
<1> QED  BY <1>1 DEF IInv

(* A thread that is back from its transaction. *)
LEMMA IdleKept ==
  ASSUME TypeOK', NEW t \in Threads, pc'[t] = "idle", tx'[t] = NoTx, loc'[t] = NoLoc,
         seen'[t] = {}, suspect'[t] = {}, held'[t] = {}
  PROVE  ThreadInv(t)'
<1>1. Phase(t)'
  BY DEF Phase, Locking, Decided, Ending
<1>2. Copies(t)'
  <2>1. \A w \in Words : vl'[w].ver \in Nat /\ loc'[t].prev[w] = 0
    BY DEF TypeOK, NoLoc
  <2>2. Copied(t)' = {}
    BY DEF Copied
  <2> QED  BY <2>1, <2>2 DEF Copies, Reading, RoReading
<1>3. ReadSet(t)'
  BY DEF ReadSet, NoTx
<1>4. Snapshot(t)'
  BY DEF Snapshot
<1>5. Validation(t)'
  BY DEF Validation
<1> QED  BY <1>1, <1>2, <1>3, <1>4, <1>5 DEF ThreadInv

LEMMA AbortKept ==
  ASSUME IInv, TypeOK', NEW t \in Threads, Abort(t), held[t] = {}, pc[t] \notin Decided
  PROVE  IInv'
<1>1. TypeOK /\ Clock /\ Others(t) /\ Local(t)
  BY AbortEffect DEF IInv
<1>2. Monotone
  BY <1>1, LocalMonotone
<1>3. /\ pc'[t] = "idle" /\ tx'[t] = NoTx /\ loc'[t] = NoLoc
      /\ seen'[t] = {} /\ suspect'[t] = {} /\ held'[t] = {}
  BY <1>1, CleanupEffect DEF Abort
<1>4. ThreadInv(t)'
  BY <1>3, IdleKept
<1>5. Owners' /\ Clock' /\ Latest'
  <2>1. tx'[t].rv <= gv /\ loc'[t].nrv <= gv
    BY <1>1, <1>3, TypeFacts DEF NoTx, NoLoc
  <2> QED  BY <1>1, <2>1, LocalKeeps
<1>6. Committed'
  BY <1>2, CommittedKept DEF Abort
<1> QED  BY <1>1, <1>2, <1>4, <1>5, <1>6, Assemble

(* A step in which the thread reads nothing new and stays in its transaction. *)
LEMMA QuietKept ==
  ASSUME IInv, TypeOK', NEW t \in Threads, Others(t), Local(t), pc[t] # "idle",
         tx'[t] = tx[t], seen'[t] = seen[t], suspect'[t] = suspect[t], done' = done,
         loc'[t].nrv <= gv, Phase(t)', Copies(t)', Validation(t)'
  PROVE  pc'[t] # "idle" => IInv'
<1> SUFFICES ASSUME pc'[t] # "idle" PROVE IInv'
  OBVIOUS
<1>1. TypeOK /\ Clock /\ Monotone
  BY LocalMonotone DEF IInv
<1>2. ThreadInv(t)'
  BY <1>1, ReadsKept DEF ThreadInv
<1>3. Owners' /\ Clock' /\ Latest'
  BY <1>1, LocalKeeps DEF Clock
<1>4. Committed'
  BY <1>1, CommittedKept
<1> QED  BY <1>1, <1>2, <1>3, <1>4, Assemble

LEMMA TmBeginKept ==
  ASSUME IInv, TypeOK', NEW t \in Threads, NEW ro \in BOOLEAN, TmBegin(t, ro)
  PROVE  IInv'
<1>a. TypeOK /\ Owners /\ Clock /\ ThreadInv(t) /\ Call(t)
  BY DEF IInv, Call
<1>b. Others(t) /\ Local(t) /\ Monotone
  BY <1>a, CallEffect, LocalMonotone
<1>1. /\ pc[t] = "idle" /\ pc'[t] = "ready" /\ loc' = loc /\ held' = held /\ done' = done
      /\ seen' = seen /\ suspect' = suspect
      /\ tx'[t] = [NoTx EXCEPT !.ro = ro, !.rv = gv]
  BY <1>a, Domains DEF TmBegin, Goto
<1>2. tx'[t].ro = ro /\ tx'[t].rv = gv /\ tx'[t].rs = {} /\ held[t] = {} /\ seen[t] = {}
      /\ suspect[t] = {}
  BY <1>1, <1>a DEF NoTx, ThreadInv, Phase, Ending, Locking, Decided, ReadSet
<1>3. Phase(t)' /\ Validation(t)' /\ ReadSet(t)' /\ Snapshot(t)'
  BY <1>1, <1>2 DEF Phase, Ending, Locking, Decided, Validation, ReadSet, Snapshot
<1>4. Copies(t)'
  <2>1. Copied(t)' = {}
    BY <1>1 DEF Copied
  <2> QED  BY <1>1, <1>a, <1>b, <2>1 DEF Copies, Reading, RoReading, ThreadInv, Local
<1>5. Owners' /\ Clock' /\ Latest'
  <2>1. tx'[t].rv <= gv /\ loc'[t].nrv <= gv
    BY <1>1, <1>2, <1>a, TypeFacts DEF Clock
  <2> QED  BY <1>b, <1>2, <2>1, LocalKeeps
<1>6. Committed'
  BY <1>1, <1>b, CommittedKept
<1> QED  BY <1>b, <1>3, <1>4, <1>5, <1>6, Assemble DEF ThreadInv

(* An unlocked word: its version is the newest, and settled from there on. *)
LEMMA UnlockedSettled ==
  ASSUME IInv, NEW w \in Words, ~vl[w].locked
  PROVE  /\ ~InWriteBack(w)
         /\ [word |-> w, ver |-> vl[w].ver, val |-> mem[w]] \in hist
         /\ \A s \in Nat : vl[w].ver <= s => Settled(w, vl[w].ver, s)
<1>1. ~InWriteBack(w) /\ \A u \in Threads : w \notin held[u]
  BY DEF IInv, Owners, InWriteBack
<1>2. /\ [word |-> w, ver |-> vl[w].ver, val |-> mem[w]] \in hist
      /\ \A h \in hist : h.word = w => h.ver <= vl[w].ver
  BY <1>1 DEF IInv, Latest
<1> QED  BY <1>1, <1>2 DEF Settled

(* The seqlock argument: the version read before the copy is still there and *)
(* nobody is writing, so what was copied is the content of that version.     *)
LEMMA CopyIsCommitted ==
  ASSUME IInv, NEW t \in Threads, NEW w \in Copied(t), VlReadVersion(vl[w]) = loc[t].prev[w]
  PROVE  /\ w \in Words /\ ~vl[w].locked /\ vl[w].ver = loc[t].prev[w]
         /\ [word |-> w, ver |-> loc[t].prev[w], val |-> loc[t].buf[w]] \in hist
         /\ \A s \in Nat : vl[w].ver <= s => Settled(w, loc[t].prev[w], s)
<1>1. w \in Words /\ loc[t].prev[w] \in Nat
  BY TypeFacts DEF IInv, Copied
<1>2. ~vl[w].locked /\ vl[w].ver = loc[t].prev[w]
  BY <1>1 DEF VlReadVersion
<1>3. loc[t].buf[w] = mem[w]
  BY <1>1, <1>2, UnlockedSettled DEF IInv, ThreadInv, Copies
<1> QED  BY <1>1, <1>2, <1>3, UnlockedSettled

LEMMA RwReadKept ==
  ASSUME IInv, TypeOK', NEW t \in Threads, NEW w \in Words, RwRead(t, w)
  PROVE  IInv'
<1>a. TypeOK /\ Clock /\ ThreadInv(t) /\ Call(t)
  BY DEF IInv, Call
<1>b. Others(t) /\ Local(t) /\ vl[w].ver \in Nat
  BY <1>a, CallEffect, TypeFacts
<1>1. /\ pc[t] = "ready" /\ pc'[t] = "rw_copy" /\ tx' = tx /\ held' = held /\ done' = done
      /\ seen' = seen /\ suspect' = suspect /\ ~tx[t].ro /\ tx[t].ws[w] = None
      /\ loc' = [loc EXCEPT ![t] = [@ EXCEPT !.cur = {w}, !.prev[w] = vl[w].ver]]
      /\ ~Stale(vl[w], tx[t].rv)
  BY <1>a, Domains DEF RwRead, Goto
<1>2. /\ loc'[t].cur = {w} /\ loc'[t].prev[w] = vl[w].ver /\ loc'[t].nrv = loc[t].nrv
      /\ \A u \in Words \ {w} : loc'[t].prev[u] = loc[t].prev[u]
  BY <1>1, <1>a, TypeFacts DEF Locals
<1>3. vl[w].ver <= tx[t].rv
  BY <1>1, <1>a, <1>b, TypeFacts DEF Stale, VlReadVersion
<1>4. Phase(t)' /\ Validation(t)'
  BY <1>1, <1>a DEF Phase, Ending, Locking, Decided, Validation, ThreadInv, Written
<1>5. Copies(t)'
  <2>1. Copied(t)' = {}
    BY <1>1 DEF Copied
  <2>2. \A u \in Words : loc'[t].prev[u] <= vl'[u].ver
    BY <1>a, <1>b, <1>2 DEF Copies, Local, ThreadInv
  <2> QED  BY <1>1, <1>2, <1>3, <2>1, <2>2 DEF Copies, Reading, RoReading
<1> QED  BY <1>a, <1>b, <1>1, <1>2, <1>4, <1>5, QuietKept DEF Clock

LEMMA RwCopyKept ==
  ASSUME IInv, TypeOK', NEW t \in Threads, RwCopy(t)
  PROVE  IInv'
<1>a. TypeOK /\ Clock /\ ThreadInv(t) /\ ReadStep(t)
  BY DEF IInv, ReadStep
<1>b. Others(t) /\ Local(t)
  BY <1>a, ReadStepEffect
<1>1. PICK w \in loc[t].cur : loc' = [loc EXCEPT ![t] = [@ EXCEPT !.buf[w] = mem[w]]]
  BY DEF RwCopy
<1>2. /\ pc[t] = "rw_copy" /\ pc'[t] = "rw_post" /\ tx' = tx /\ held' = held /\ done' = done
      /\ seen' = seen /\ suspect' = suspect /\ mem' = mem
  BY <1>a, Domains DEF RwCopy, Goto
<1>3. /\ w \in Words /\ loc[t].cur = {w}
  BY <1>1, <1>2, <1>a DEF ThreadInv, Copies, Reading
<1>4. /\ loc'[t].cur = {w} /\ loc'[t].prev = loc[t].prev /\ loc'[t].nrv = loc[t].nrv
      /\ loc'[t].buf[w] = mem[w]
  BY <1>1, <1>3, <1>a, TypeFacts DEF Locals
<1>5. Phase(t)' /\ Validation(t)'
  BY <1>2, <1>a DEF Phase, Ending, Locking, Decided, Validation, ThreadInv, Written
<1>6. Copies(t)'
  <2>1. Copied(t)' = {w}
    BY <1>2, <1>4 DEF Copied
  <2> QED  BY <1>2, <1>4, <2>1, <1>a, <1>b DEF Copies, Reading, RoReading, ThreadInv, Local
<1> QED  BY <1>a, <1>b, <1>2, <1>4, <1>5, <1>6, QuietKept DEF Clock

(* A step of a transaction whose reads, or whose read and write sets, change. *)
LEMMA ReadingKept ==
  ASSUME IInv, TypeOK', NEW t \in Threads, Others(t), Local(t), held[t] = {}, done' = done,
         tx'[t].rv <= gv, loc'[t].nrv <= gv, ThreadInv(t)'
  PROVE  IInv'
<1>1. TypeOK /\ Monotone
  BY LocalMonotone DEF IInv
<1>2. Owners' /\ Clock' /\ Latest'
  BY LocalKeeps
<1>3. Committed'
  BY <1>1, CommittedKept
<1> QED  BY <1>1, <1>2, <1>3, Assemble

(* Read entries that were settled stay so when nothing shared changes. *)
LEMMA LocalSettled ==
  ASSUME IInv, NEW t \in Threads, Others(t), Local(t), NEW r, r[1] \in Words,
         NEW s \in Nat, s <= gv, SettledRead(r, s)
  PROVE  SettledRead(r, s)'
  BY LocalMonotone, SettledReadStable DEF IInv

(* NoLoc is fine for a thread between two calls. *)
LEMMA BetweenCalls ==
  ASSUME IInv, TypeOK', NEW t \in Threads, Local(t), held[t] = {},
         pc'[t] = "ready", loc'[t] = NoLoc
  PROVE  /\ Phase(t)' /\ Copies(t)' /\ Validation(t)' /\ loc'[t].nrv <= gv
<1>1. loc'[t].nrv = 0 /\ gv \in Nat /\ \A w \in Words : vl'[w].ver \in Nat /\ loc'[t].prev[w] = 0
  BY DEF NoLoc, TypeOK, IInv
<1>2. Copied(t)' = {}
  BY DEF Copied
<1>3. Phase(t)' /\ Validation(t)'
  BY DEF Phase, Locking, Decided, Ending, Validation, Local
<1> QED  BY <1>1, <1>2, <1>3 DEF Copies, Reading, RoReading

LEMMA RwPostKept ==
  ASSUME IInv, TypeOK', NEW t \in Threads, RwPost(t)
  PROVE  IInv'
<1>a. TypeOK /\ Clock /\ ThreadInv(t) /\ ReadStep(t)
  BY DEF IInv, ReadStep
<1>b. Others(t) /\ Local(t)
  BY <1>a, ReadStepEffect
<1>1. PICK w \in loc[t].cur :
        /\ VlReadVersion(vl[w]) = loc[t].prev[w]
        /\ tx' = [tx EXCEPT ![t].rs = AddToReadset(t, w)]
        /\ seen' = [seen EXCEPT ![t] = @ \cup {<<w, loc[t].buf[w]>>}]
  BY DEF RwPost
<1>2. /\ pc[t] = "rw_post" /\ pc'[t] = "ready" /\ held' = held /\ done' = done
      /\ suspect' = suspect /\ loc'[t] = NoLoc
      /\ seen'[t] = seen[t] \cup {<<w, loc[t].buf[w]>>}
  BY <1>1, <1>a, Domains DEF RwPost, Goto
<1>3. /\ w \in Copied(t) /\ ~tx[t].ro /\ loc[t].prev[w] <= tx[t].rv /\ held[t] = {}
  BY <1>1, <1>2, <1>a
     DEF ThreadInv, Copies, Reading, Copied, Phase, Ending, Locking, Decided
<1>4. /\ tx'[t].rs = AddToReadset(t, w) /\ tx'[t].ro = tx[t].ro /\ tx'[t].rv = tx[t].rv
      /\ tx'[t].ws = tx[t].ws
  BY <1>1, <1>a, TypeFacts DEF Transaction
<1>5. PICK s \in Nat : s = tx[t].rv
  BY <1>a, TypeFacts
<1>6. s <= gv
  BY <1>5, <1>a DEF Clock
<1>7. SettledRead(<<w, loc[t].buf[w]>>, s)
  <2>1. /\ w \in Words /\ vl[w].ver = loc[t].prev[w]
        /\ [word |-> w, ver |-> loc[t].prev[w], val |-> loc[t].buf[w]] \in hist
        /\ Settled(w, loc[t].prev[w], s)
    BY <1>1, <1>3, <1>5, CopyIsCommitted
  <2> QED  BY <2>1 DEF SettledRead
<1>8. ASSUME NEW r \in seen'[t], r[1] \notin suspect'[t] PROVE SettledRead(r, s)'
  <2>1. r[1] \in Words /\ SettledRead(r, s)
    <3>1. CASE r \in seen[t]
      BY <3>1, <1>2, <1>5, <1>8, <1>a, HistoryTypes DEF ThreadInv, Snapshot
    <3>2. CASE r = <<w, loc[t].buf[w]>>
      BY <3>2, <1>7, <1>1, <1>a, TypeFacts
    <3> QED  BY <3>1, <3>2, <1>2, <1>8
  <2> QED  BY <2>1, <1>6, <1>b, LocalSettled
<1>9. Snapshot(t)'
  BY <1>4, <1>5, <1>8 DEF Snapshot, SettledRead, Settled
<1>10. ReadSet(t)'
  <2>1. tx[t].rs \subseteq tx'[t].rs /\ \E e \in tx'[t].rs : e[1] = w
    <3>1. CASE \E e \in tx[t].rs : e[1] = w
      BY <3>1, <1>3, <1>4 DEF AddToReadset
    <3>2. CASE ~\E e \in tx[t].rs : e[1] = w
      <4>1. tx'[t].rs = tx[t].rs \cup {<<w, loc[t].prev[w]>>}
        BY <3>2, <1>4 DEF AddToReadset
      <4>2. <<w, loc[t].prev[w]>>[1] = w
        OBVIOUS
      <4> QED  BY <4>1, <4>2
    <3> QED  BY <3>1, <3>2
  <2>2. Written(t)' = Written(t)
    BY <1>4 DEF Written
  <2> QED  BY <2>1, <2>2, <1>2, <1>3, <1>4, <1>a DEF ReadSet, ThreadInv
<1>11. /\ Phase(t)' /\ Copies(t)' /\ Validation(t)' /\ loc'[t].nrv <= gv
  BY <1>2, <1>3, <1>b, BetweenCalls
<1> QED  BY <1>2, <1>3, <1>4, <1>9, <1>10, <1>11, <1>a, <1>b, ReadingKept DEF ThreadInv, Clock

LEMMA TmWriteKept ==
  ASSUME IInv, TypeOK', NEW t \in Threads, NEW w \in Words, NEW v \in Writes, TmWrite(t, w, v)
  PROVE  IInv'
<1>a. TypeOK /\ Clock /\ ThreadInv(t) /\ Call(t)
  BY DEF IInv, Call
<1>b. Others(t) /\ Local(t)
  BY <1>a, CallEffect
<1>1. /\ pc[t] = "ready" /\ pc' = pc /\ held' = held /\ done' = done /\ loc' = loc
      /\ suspect' = suspect /\ seen' = seen /\ ~tx[t].ro
      /\ tx' = [tx EXCEPT ![t] = [@ EXCEPT !.ws[w] = v, !.rs = WithoutWord(t, w)]]
  BY DEF TmWrite
<1>2. /\ tx'[t].rs = WithoutWord(t, w) /\ tx'[t].ro = tx[t].ro /\ tx'[t].rv = tx[t].rv
      /\ tx'[t].ws[w] = v /\ \A u \in Words \ {w} : tx'[t].ws[u] = tx[t].ws[u]
  BY <1>1, <1>a, TypeFacts DEF Transaction
<1>3. Written(t)' = Written(t) \cup {w} /\ held[t] = {}
  BY <1>1, <1>2, <1>a, ConstantsAssumption
     DEF Written, ThreadInv, Phase, Ending, Locking, Decided
<1>4. ReadSet(t)'
  <2>1. \A e \in tx[t].rs : e[1] # w => e \in tx'[t].rs
    BY <1>2 DEF WithoutWord
  <2> QED  BY <2>1, <1>1, <1>2, <1>3, <1>a DEF ReadSet, ThreadInv
<1>5. Snapshot(t)'
  <2>1. PICK s \in Nat : s = tx[t].rv
    BY <1>a, TypeFacts
  <2>2. s <= gv
    BY <2>1, <1>a DEF Clock
  <2>3. ASSUME NEW r \in seen[t], r[1] \notin suspect[t] PROVE SettledRead(r, s)'
    <3>1. r[1] \in Words /\ SettledRead(r, s)
      BY <2>1, <2>3, <1>a, HistoryTypes DEF ThreadInv, Snapshot
    <3> QED  BY <3>1, <2>2, <1>b, LocalSettled
  <2> QED  BY <2>1, <2>3, <1>1, <1>2 DEF Snapshot, SettledRead, Settled
<1>6. Phase(t)' /\ Copies(t)' /\ Validation(t)'
  <2>1. Copied(t)' = {}
    BY <1>1 DEF Copied
  <2> QED  BY <1>1, <1>3, <2>1, <1>a, <1>b
           DEF Phase, Ending, Locking, Decided, Copies, Reading, RoReading, Validation,
               ThreadInv, Local
<1> QED  BY <1>1, <1>2, <1>3, <1>4, <1>5, <1>6, <1>a, <1>b, ReadingKept DEF ThreadInv, Clock

-----------------------------------------------------------------------------
(* ro_transaction_read.                                                    *)

LEMMA RoReadKept ==
  ASSUME IInv, TypeOK', NEW t \in Threads, NEW S \in Spans, RoRead(t, S)
  PROVE  IInv'
<1>a. TypeOK /\ Clock /\ ThreadInv(t) /\ Call(t)
  BY DEF IInv, Call
<1>b. Others(t) /\ Local(t)
  BY <1>a, CallEffect
<1>1. /\ pc[t] = "ready" /\ pc'[t] = "ro_pre" /\ tx' = tx /\ held' = held /\ done' = done
      /\ seen' = seen /\ suspect' = suspect /\ tx[t].ro
      /\ loc' = [loc EXCEPT ![t] = [@ EXCEPT !.span = S, !.todo = S]]
  BY <1>a, Domains DEF RoRead, Goto
<1>2. /\ loc'[t].span = S /\ loc'[t].todo = S /\ loc'[t].prev = loc[t].prev
      /\ loc'[t].nrv = loc[t].nrv
  BY <1>1, <1>a, TypeFacts DEF Locals
<1>3. Phase(t)' /\ Validation(t)'
  BY <1>1, <1>a DEF Phase, Ending, Locking, Decided, Validation, ThreadInv, Written
<1>4. Copies(t)'
  <2>1. Copied(t)' = {}
    BY <1>1 DEF Copied
  <2> QED  BY <1>1, <1>2, <2>1, <1>a, <1>b DEF Copies, Reading, RoReading, ThreadInv, Local
<1> QED  BY <1>a, <1>b, <1>1, <1>2, <1>3, <1>4, QuietKept DEF Clock

LEMMA RoPreKept ==
  ASSUME IInv, TypeOK', NEW t \in Threads, RoPre(t)
  PROVE  IInv'
<1>a. TypeOK /\ Clock /\ ThreadInv(t) /\ ReadStep(t)
  BY DEF IInv, ReadStep
<1>b. Others(t) /\ Local(t)
  BY <1>a, ReadStepEffect
<1>1. PICK w \in First(loc[t].todo) :
        /\ loc' = [loc EXCEPT ![t] = [@ EXCEPT !.prev[w] = vl[w].ver, !.todo = Left(t, w)]]
        /\ Goto(t, IF loc[t].todo = {w} THEN "ro_copy" ELSE "ro_pre")
  BY DEF RoPre
<1>2. /\ pc[t] = "ro_pre" /\ pc'[t] = IF loc[t].todo = {w} THEN "ro_copy" ELSE "ro_pre"
      /\ tx' = tx /\ held' = held /\ done' = done /\ seen' = seen /\ suspect' = suspect
  BY <1>1, <1>a, Domains DEF RoPre, Goto
<1>3. w \in loc[t].todo /\ w \in Words /\ tx[t].ro /\ loc[t].todo \subseteq loc[t].span
      /\ vl[w].ver \in Nat
  BY <1>1, <1>2, <1>a, FirstSubset, TypeFacts DEF ThreadInv, Copies, RoReading
<1>4. /\ loc'[t].span = loc[t].span /\ loc'[t].todo = Left(t, w)
      /\ loc'[t].nrv = loc[t].nrv /\ loc'[t].prev[w] = vl[w].ver
      /\ \A u \in Words \ {w} : loc'[t].prev[u] = loc[t].prev[u]
  BY <1>1, <1>3, <1>a, TypeFacts DEF Locals
<1>5. Phase(t)' /\ Validation(t)'
  BY <1>2, <1>a DEF Phase, Ending, Locking, Decided, Validation, ThreadInv, Written
<1>6. Copies(t)'
  <2>1. Copied(t)' = {}
    BY <1>2, <1>4 DEF Copied, Left
  <2>2. \A u \in Words : loc'[t].prev[u] <= vl'[u].ver
    BY <1>3, <1>4, <1>a, <1>b DEF ThreadInv, Copies, Local
  <2>3. loc'[t].todo \subseteq loc'[t].span
    BY <1>3, <1>4 DEF Left
  <2> QED  BY <1>2, <1>3, <2>1, <2>2, <2>3 DEF Copies, Reading, RoReading
<1> QED  BY <1>a, <1>b, <1>2, <1>4, <1>5, <1>6, QuietKept DEF Clock

LEMMA RoCopyKept ==
  ASSUME IInv, TypeOK', NEW t \in Threads, RoCopy(t)
  PROVE  IInv'
<1>a. TypeOK /\ Clock /\ ThreadInv(t) /\ ReadStep(t)
  BY DEF IInv, ReadStep
<1>b. Others(t) /\ Local(t)
  BY <1>a, ReadStepEffect
<1>1. PICK w \in First(loc[t].todo) :
        /\ loc' = [loc EXCEPT ![t] = [@ EXCEPT !.buf[w] = mem[w], !.todo = Left(t, w)]]
        /\ Goto(t, IF loc[t].todo = {w} THEN "ro_post" ELSE "ro_copy")
  BY DEF RoCopy
<1>2. /\ pc[t] = "ro_copy" /\ pc'[t] = IF loc[t].todo = {w} THEN "ro_post" ELSE "ro_copy"
      /\ tx' = tx /\ held' = held /\ done' = done /\ seen' = seen /\ suspect' = suspect
  BY <1>1, <1>a, Domains DEF RoCopy, Goto
<1>3. w \in loc[t].todo /\ w \in Words /\ tx[t].ro /\ loc[t].todo \subseteq loc[t].span
  BY <1>1, <1>2, <1>a, FirstSubset, TypeFacts DEF ThreadInv, Copies, RoReading
<1>4. /\ loc'[t].span = loc[t].span /\ loc'[t].todo = Left(t, w)
      /\ loc'[t].nrv = loc[t].nrv /\ loc'[t].prev = loc[t].prev /\ loc'[t].buf[w] = mem[w]
      /\ \A u \in Words \ {w} : loc'[t].buf[u] = loc[t].buf[u]
  BY <1>1, <1>3, <1>a, TypeFacts DEF Locals
<1>5. Phase(t)' /\ Validation(t)'
  BY <1>2, <1>a DEF Phase, Ending, Locking, Decided, Validation, ThreadInv, Written
<1>6. Copies(t)'
  <2>1. Copied(t)' = Copied(t) \cup {w} /\ Copied(t) \subseteq Words
    <3>1. Copied(t) = loc[t].span \ loc[t].todo
      BY <1>2 DEF Copied
    <3>2. CASE loc[t].todo = {w}
      BY <3>1, <3>2, <1>2, <1>3, <1>4, <1>a, TypeFacts DEF Copied
    <3>3. CASE loc[t].todo # {w}
      BY <3>1, <3>3, <1>2, <1>3, <1>4, <1>a, TypeFacts DEF Copied, Left
    <3> QED  BY <3>2, <3>3
  <2>2. \A u \in Words : InWriteBack(u)' <=> InWriteBack(u)
    BY <1>b DEF InWriteBack, Others, Local
  <2>3. \A u \in Copied(t) \cup {w} :
          vl'[u].ver = loc'[t].prev[u] /\ ~InWriteBack(u)' => loc'[t].buf[u] = mem'[u]
    BY <2>1, <2>2, <1>4, <1>a, <1>b DEF ThreadInv, Copies, Local
  <2>4. loc'[t].todo \subseteq loc'[t].span
    BY <1>3, <1>4 DEF Left
  <2> QED  BY <1>2, <1>3, <1>4, <2>1, <2>3, <2>4, <1>a, <1>b
           DEF Copies, Reading, RoReading, ThreadInv, Local
<1> QED  BY <1>a, <1>b, <1>2, <1>4, <1>5, <1>6, QuietKept DEF Clock

LEMMA RoPostNewerKept ==
  ASSUME IInv, TypeOK', NEW t \in Threads, RoPostNewer(t)
  PROVE  IInv'
<1>a. TypeOK /\ Clock /\ ThreadInv(t) /\ ReadStep(t)
  BY DEF IInv, ReadStep
<1>b. Others(t) /\ Local(t)
  BY <1>a, ReadStepEffect
<1>1. PICK w \in First(loc[t].todo) :
        /\ VlReadVersion(vl[w]) = loc[t].prev[w]
        /\ loc' = [loc EXCEPT ![t].cur = {w}]
  BY DEF RoPostNewer
<1>2. /\ pc[t] = "ro_post" /\ pc'[t] = "ro_clock"
      /\ tx' = tx /\ held' = held /\ done' = done /\ seen' = seen /\ suspect' = suspect
  BY <1>a, Domains DEF RoPostNewer, Goto
<1>3. w \in loc[t].todo /\ w \in Copied(t) /\ tx[t].ro /\ loc[t].todo \subseteq loc[t].span
  BY <1>1, <1>2, <1>a, FirstSubset DEF ThreadInv, Copies, RoReading, Copied
<1>4. /\ loc'[t].span = loc[t].span /\ loc'[t].todo = loc[t].todo /\ loc'[t].cur = {w}
      /\ loc'[t].nrv = loc[t].nrv /\ loc'[t].prev = loc[t].prev /\ loc'[t].buf = loc[t].buf
  BY <1>1, <1>a, TypeFacts DEF Locals
<1>5. [word |-> w, ver |-> loc[t].prev[w], val |-> loc[t].buf[w]] \in hist
  BY <1>1, <1>3, CopyIsCommitted
<1>6. Phase(t)' /\ Validation(t)'
  BY <1>2, <1>a DEF Phase, Ending, Locking, Decided, Validation, ThreadInv, Written
<1>7. Copies(t)'
  <2>1. Copied(t)' = Copied(t)
    BY <1>2, <1>4 DEF Copied
  <2>2. \A u \in Words : InWriteBack(u)' <=> InWriteBack(u)
    BY <1>b DEF InWriteBack, Others, Local
  <2>3. Copied(t) \subseteq Words
    BY <1>2, <1>a, TypeFacts DEF Copied
  <2>4. \A u \in Copied(t) :
          vl'[u].ver = loc'[t].prev[u] /\ ~InWriteBack(u)' => loc'[t].buf[u] = mem'[u]
    BY <2>2, <2>3, <1>4, <1>a, <1>b DEF ThreadInv, Copies, Local
  <2> QED  BY <1>2, <1>3, <1>4, <1>5, <2>1, <2>4, <1>a, <1>b
           DEF Copies, Reading, RoReading, ThreadInv, Local
<1> QED  BY <1>a, <1>b, <1>2, <1>4, <1>6, <1>7, QuietKept DEF Clock

LEMMA RoClockKept ==
  ASSUME IInv, TypeOK', NEW t \in Threads, RoClock(t)
  PROVE  IInv'
<1>a. TypeOK /\ Clock /\ ThreadInv(t) /\ ReadStep(t) /\ gv \in Nat
  BY DEF IInv, ReadStep, TypeOK
<1>b. Others(t) /\ Local(t)
  BY <1>a, ReadStepEffect
<1>1. /\ pc[t] = "ro_clock" /\ pc'[t] = "ro_reval"
      /\ tx' = tx /\ held' = held /\ done' = done /\ seen' = seen /\ suspect' = suspect
      /\ loc' = [loc EXCEPT ![t] = [@ EXCEPT !.nrv = gv, !.reval = tx[t].rs]]
  BY <1>a, Domains DEF RoClock, Goto
<1>2. /\ loc'[t].span = loc[t].span /\ loc'[t].todo = loc[t].todo /\ loc'[t].cur = loc[t].cur
      /\ loc'[t].nrv = gv /\ loc'[t].prev = loc[t].prev /\ loc'[t].buf = loc[t].buf
      /\ loc'[t].reval = tx[t].rs
  BY <1>1, <1>a, TypeFacts DEF Locals
<1>3. Phase(t)'
  BY <1>1, <1>a DEF Phase, Ending, Locking, Decided, ThreadInv, Written
<1>4. Validation(t)'
  <2>1. PICK w \in loc[t].todo : loc[t].cur = {w}
    BY <1>1, <1>a DEF ThreadInv, Copies
  <2>2. loc[t].prev[w] <= gv
    <3>1. w \in Words /\ loc[t].prev[w] \in Nat /\ vl[w].ver \in Nat
      BY <2>1, <1>a, TypeFacts
    <3> QED  BY <3>1, <1>a DEF ThreadInv, Copies, Clock
  <2>3. tx[t].ro
    BY <1>1, <1>a DEF ThreadInv, Copies, RoReading
  <2> QED  BY <2>1, <2>2, <2>3, <1>1, <1>2, <1>a, <1>b
           DEF Validation, ThreadInv, ReadSet, Clock, Local
<1>5. Copies(t)'
  <2>1. Copied(t)' = Copied(t)
    BY <1>1, <1>2 DEF Copied
  <2>2. \A u \in Words : InWriteBack(u)' <=> InWriteBack(u)
    BY <1>b DEF InWriteBack, Others, Local
  <2>3. Copied(t) \subseteq Words
    BY <1>1, <1>a, TypeFacts DEF Copied
  <2>4. \A u \in Copied(t) :
          vl'[u].ver = loc'[t].prev[u] /\ ~InWriteBack(u)' => loc'[t].buf[u] = mem'[u]
    BY <2>2, <2>3, <1>2, <1>a, <1>b DEF ThreadInv, Copies, Local
  <2> QED  BY <1>1, <1>2, <2>1, <2>4, <1>a, <1>b
           DEF Copies, Reading, RoReading, ThreadInv, Local
<1>6. loc'[t].nrv <= gv
  BY <1>2, <1>a
<1> QED  BY <1>b, <1>1, <1>3, <1>4, <1>5, <1>6, QuietKept

LEMMA RevalidateSetsKept ==
  ASSUME IInv, TypeOK', NEW t \in Threads, RevalidateSets(t)
  PROVE  IInv'
<1>a. TypeOK /\ Clock /\ ThreadInv(t) /\ ReadStep(t)
  BY DEF IInv, ReadStep
<1>b. Others(t) /\ Local(t) /\ Monotone
  BY <1>a, ReadStepEffect, LocalMonotone
<1>1. PICK r \in loc[t].reval :
        /\ VlReadVersion(vl[r[1]]) = r[2]
        /\ loc' = [loc EXCEPT ![t].reval = @ \ {r}]
  BY DEF RevalidateSets
<1>2. /\ pc[t] = "ro_reval" /\ pc' = pc
      /\ tx' = tx /\ held' = held /\ done' = done /\ seen' = seen /\ suspect' = suspect
  BY DEF RevalidateSets
<1>3. /\ loc'[t].span = loc[t].span /\ loc'[t].todo = loc[t].todo /\ loc'[t].cur = loc[t].cur
      /\ loc'[t].nrv = loc[t].nrv /\ loc'[t].prev = loc[t].prev /\ loc'[t].buf = loc[t].buf
      /\ loc'[t].reval = loc[t].reval \ {r}
  BY <1>1, <1>a, TypeFacts DEF Locals
<1>4. Phase(t)'
  BY <1>2, <1>a DEF Phase, Ending, Locking, Decided, ThreadInv, Written
<1>5. PICK n \in Nat : n = loc[t].nrv
  BY <1>a, TypeFacts
<1>6. n <= gv /\ \A e \in tx[t].rs : e[1] \in Words /\ e[2] \in Nat /\ e[2] <= n
  BY <1>2, <1>5, <1>a, HistoryTypes DEF Clock, ThreadInv, Validation
<1>7. ASSUME NEW e \in tx[t].rs \ loc'[t].reval PROVE Settled(e[1], e[2], n)'
  <2>1. Settled(e[1], e[2], n)
    <3>1. CASE e = r
      <4>1. r[1] \in Words /\ r[2] \in Nat /\ r[2] <= n
        BY <3>1, <1>6
      <4>2. ~vl[r[1]].locked /\ vl[r[1]].ver = r[2]
        BY <4>1, <1>1 DEF VlReadVersion
      <4> QED  BY <3>1, <4>1, <4>2, <1>5, UnlockedSettled
    <3>2. CASE e # r
      BY <3>2, <1>2, <1>3, <1>5, <1>a DEF ThreadInv, Validation
    <3> QED  BY <3>1, <3>2
  <2> QED  BY <2>1, <1>5, <1>6, <1>b DEF Monotone
<1>8. Validation(t)'
  <2>1. \A e \in tx'[t].rs \ loc'[t].reval : Settled(e[1], e[2], loc[t].nrv)'
    BY <1>2, <1>3, <1>5, <1>7 DEF Settled
  <2> QED  BY <2>1, <1>2, <1>3, <1>a, <1>b DEF Validation, ThreadInv, Local
<1>9. Copies(t)'
  <2>1. Copied(t)' = Copied(t)
    BY <1>2, <1>3 DEF Copied
  <2>2. \A u \in Words : InWriteBack(u)' <=> InWriteBack(u)
    BY <1>b DEF InWriteBack, Others, Local
  <2>3. Copied(t) \subseteq Words
    BY <1>2, <1>a, TypeFacts DEF Copied
  <2>4. \A u \in Copied(t) :
          vl'[u].ver = loc'[t].prev[u] /\ ~InWriteBack(u)' => loc'[t].buf[u] = mem'[u]
    BY <2>2, <2>3, <1>3, <1>a, <1>b DEF ThreadInv, Copies, Local
  <2> QED  BY <1>2, <1>3, <2>1, <2>4, <1>a, <1>b
           DEF Copies, Reading, RoReading, ThreadInv, Local
<1> QED  BY <1>a, <1>b, <1>2, <1>3, <1>4, <1>8, <1>9, QuietKept DEF Clock

(* The end of the post-validation of one word, whatever the way there. *)
LEMMA RoAcceptKept ==
  ASSUME IInv, TypeOK', NEW t \in Threads, NEW w \in loc[t].todo, NEW rv \in Nat,
         RoAccept(t, w, rv), rv <= gv, Others(t), Local(t),
         pc[t] \in {"ro_post", "ro_reval"},
         [word |-> w, ver |-> loc[t].prev[w], val |-> loc[t].buf[w]] \in hist,
         loc[t].prev[w] <= gv, Snapshot(t)'
  PROVE  IInv'
<1>a. TypeOK /\ Clock /\ ThreadInv(t) /\ w \in Words
  BY TypeFacts DEF IInv
<1>1. /\ tx' = [tx EXCEPT ![t] = [@ EXCEPT !.rv = rv, !.rs = AddToReadset(t, w)]]
      /\ seen'[t] = seen[t] \cup {<<w, loc[t].buf[w]>>}
      /\ held' = held /\ done' = done
  BY <1>a, Domains DEF RoAccept
<1>2. tx'[t].rs = AddToReadset(t, w) /\ tx'[t].ro = tx[t].ro /\ tx'[t].rv = rv
  BY <1>1, <1>a, TypeFacts DEF Transaction
<1>3. tx[t].ro /\ held[t] = {} /\ loc[t].todo \subseteq loc[t].span
  BY <1>a DEF ThreadInv, Copies, RoReading, Phase, Ending, Locking, Decided
<1>4. tx'[t].rs = tx[t].rs \cup {<<w, loc[t].prev[w]>>}
  BY <1>2, <1>3 DEF AddToReadset
<1>5. pc'[t] \in {"ready", "ro_post"}
  BY <1>a, Domains DEF RoAccept, Goto
<1>6. ReadSet(t)'
  <2>1. \A r \in seen[t] : \E e \in tx[t].rs :
          e[1] = r[1] /\ [word |-> r[1], ver |-> e[2], val |-> r[2]] \in hist
    BY <1>3, <1>a DEF ThreadInv, ReadSet
  <2>2. ASSUME NEW r, r = <<w, loc[t].buf[w]>>
        PROVE \E e \in tx'[t].rs :
                e[1] = r[1] /\ [word |-> r[1], ver |-> e[2], val |-> r[2]] \in hist
    <3>1. r[1] = w /\ r[2] = loc[t].buf[w]
      BY <2>2
    <3>2. <<w, loc[t].prev[w]>> \in tx'[t].rs
      BY <1>4
    <3> WITNESS <<w, loc[t].prev[w]>> \in tx'[t].rs
    <3> QED  BY <3>1
  <2>3. \A r \in seen'[t] : \E e \in tx'[t].rs :
          e[1] = r[1] /\ [word |-> r[1], ver |-> e[2], val |-> r[2]] \in hist'
    BY <2>1, <2>2, <1>1, <1>4 DEF Local
  <2>4. \A e \in tx'[t].rs : e[2] <= gv'
    <3>1. \A e \in tx[t].rs : e[2] <= gv
      BY <1>3, <1>a DEF ThreadInv, ReadSet
    <3>2. \A e \in {<<w, loc[t].prev[w]>>} : e[2] <= gv
      OBVIOUS
    <3> QED  BY <3>1, <3>2, <1>4 DEF Local
  <2> QED  BY <2>3, <2>4, <1>2, <1>3, <1>5 DEF ReadSet
<1>7. Phase(t)' /\ Copies(t)' /\ Validation(t)' /\ loc'[t].nrv <= gv
  <2>1. CASE loc[t].todo = {w}
    <3>1. pc'[t] = "ready" /\ loc'[t] = NoLoc
      BY <2>1, <1>a, Domains DEF RoAccept, Goto
    <3> QED  BY <3>1, <1>3, BetweenCalls
  <2>2. CASE loc[t].todo # {w}
    <3>1. /\ pc'[t] = "ro_post"
          /\ loc' = [loc EXCEPT ![t] = [@ EXCEPT !.todo = loc[t].todo \ {w}, !.cur = {}]]
      BY <2>2, <1>a, Domains DEF RoAccept, Goto
    <3>2. /\ loc'[t].span = loc[t].span /\ loc'[t].todo = loc[t].todo \ {w}
          /\ loc'[t].nrv = loc[t].nrv /\ loc'[t].prev = loc[t].prev /\ loc'[t].buf = loc[t].buf
      BY <3>1, <1>a, TypeFacts DEF Locals
    <3>3. Phase(t)' /\ Validation(t)'
      BY <3>1, <1>1, <1>3 DEF Phase, Ending, Locking, Decided, Validation
    <3>4. Copies(t)'
      <4>1. Copied(t)' = Copied(t)
        BY <3>1, <3>2 DEF Copied
      <4>2. \A u \in Words : InWriteBack(u)' <=> InWriteBack(u)
        BY DEF InWriteBack, Others, Local
      <4>3. Copied(t) \subseteq Words
        BY <1>a, TypeFacts DEF Copied
      <4>4. \A u \in Copied(t) :
              vl'[u].ver = loc'[t].prev[u] /\ ~InWriteBack(u)' => loc'[t].buf[u] = mem'[u]
        BY <4>2, <4>3, <3>2, <1>a DEF ThreadInv, Copies, Local
      <4> QED  BY <3>1, <3>2, <4>1, <4>4, <1>2, <1>3, <1>a
               DEF Copies, Reading, RoReading, ThreadInv, Local
    <3> QED  BY <3>2, <3>3, <3>4, <1>a DEF Clock
  <2> QED  BY <2>1, <2>2
<1> QED  BY <1>1, <1>2, <1>3, <1>6, <1>7, ReadingKept DEF ThreadInv

LEMMA RoPostKept ==
  ASSUME IInv, TypeOK', NEW t \in Threads, RoPost(t)
  PROVE  IInv'
<1>a. TypeOK /\ Clock /\ ThreadInv(t) /\ ReadStep(t)
  BY DEF IInv, ReadStep
<1>b. Others(t) /\ Local(t)
  BY <1>a, ReadStepEffect
<1>1. PICK w \in First(loc[t].todo) :
        /\ VlReadVersion(vl[w]) = loc[t].prev[w]
        /\ vl[w].ver <= tx[t].rv
        /\ RoAccept(t, w, tx[t].rv)
  BY DEF RoPost
<1>2. pc[t] = "ro_post" /\ suspect' = suspect
  BY DEF RoPost
<1>3. w \in loc[t].todo /\ w \in Copied(t)
  BY <1>1, <1>2, <1>a, FirstSubset DEF ThreadInv, Copies, RoReading, Copied
<1>4. PICK s \in Nat : s = tx[t].rv
  BY <1>a, TypeFacts
<1>5. s <= gv
  BY <1>4, <1>a DEF Clock
<1>6. /\ w \in Words /\ vl[w].ver = loc[t].prev[w]
      /\ [word |-> w, ver |-> loc[t].prev[w], val |-> loc[t].buf[w]] \in hist
      /\ Settled(w, loc[t].prev[w], s)
  BY <1>1, <1>3, <1>4, CopyIsCommitted
<1>7. /\ tx'[t].rv = s /\ seen'[t] = seen[t] \cup {<<w, loc[t].buf[w]>>}
  <2>1. /\ tx' = [tx EXCEPT ![t] = [@ EXCEPT !.rv = tx[t].rv, !.rs = AddToReadset(t, w)]]
        /\ seen'[t] = seen[t] \cup {<<w, loc[t].buf[w]>>}
    BY <1>1, <1>a, Domains DEF RoAccept
  <2> QED  BY <2>1, <1>4, <1>a, TypeFacts DEF Transaction
<1>8. ASSUME NEW r \in seen'[t], r[1] \notin suspect'[t] PROVE SettledRead(r, s)'
  <2>1. r[1] \in Words /\ SettledRead(r, s)
    <3>1. CASE r \in seen[t]
      BY <3>1, <1>2, <1>4, <1>8, <1>a, HistoryTypes DEF ThreadInv, Snapshot
    <3>2. CASE r = <<w, loc[t].buf[w]>>
      BY <3>2, <1>6 DEF SettledRead
    <3> QED  BY <3>1, <3>2, <1>7, <1>8
  <2> QED  BY <2>1, <1>5, <1>b, LocalSettled
<1>9. Snapshot(t)'
  BY <1>7, <1>8 DEF Snapshot, SettledRead, Settled
<1>10. loc[t].prev[w] <= gv
  BY <1>6, <1>a DEF Clock
<1> QED  BY <1>1, <1>2, <1>3, <1>4, <1>5, <1>6, <1>9, <1>10, <1>b, RoAcceptKept

LEMMA RoRevalidatedKept ==
  ASSUME IInv, TypeOK', NEW t \in Threads, RoRevalidated(t)
  PROVE  IInv'
<1>a. TypeOK /\ Clock /\ ThreadInv(t) /\ ReadStep(t)
  BY DEF IInv, ReadStep
<1>b. Others(t) /\ Local(t)
  BY <1>a, ReadStepEffect
<1>1. PICK w \in loc[t].cur : RoAccept(t, w, loc[t].nrv)
  BY DEF RoRevalidated
<1>2. pc[t] = "ro_reval" /\ suspect'[t] = loc[t].cur /\ loc[t].reval = {}
  BY <1>a, Domains DEF RoRevalidated
<1>3. /\ w \in loc[t].todo /\ w \in Words /\ loc[t].cur = {w} /\ tx[t].ro
      /\ [word |-> w, ver |-> loc[t].prev[w], val |-> loc[t].buf[w]] \in hist
      /\ loc[t].prev[w] <= gv
  <2>1. PICK x \in loc[t].todo :
          /\ loc[t].cur = {x}
          /\ [word |-> x, ver |-> loc[t].prev[x], val |-> loc[t].buf[x]] \in hist
    BY <1>2, <1>a DEF ThreadInv, Copies
  <2>2. w = x
    BY <1>1, <2>1
  <2>3. tx[t].ro
    BY <1>2, <1>a DEF ThreadInv, Copies, RoReading
  <2>4. loc[t].prev[w] <= gv
    BY <1>1, <1>2, <1>a DEF ThreadInv, Validation
  <2> QED  BY <2>1, <2>2, <2>3, <2>4, <1>a, TypeFacts
<1>4. PICK s \in Nat : s = loc[t].nrv
  BY <1>a, TypeFacts
<1>5. s <= gv
  BY <1>4, <1>a DEF Clock
<1>6. /\ tx'[t].rv = s /\ seen'[t] = seen[t] \cup {<<w, loc[t].buf[w]>>}
  <2>1. /\ tx' = [tx EXCEPT ![t] = [@ EXCEPT !.rv = loc[t].nrv, !.rs = AddToReadset(t, w)]]
        /\ seen'[t] = seen[t] \cup {<<w, loc[t].buf[w]>>}
    BY <1>1, <1>a, Domains DEF RoAccept
  <2> QED  BY <2>1, <1>4, <1>a, TypeFacts DEF Transaction
<1>7. ASSUME NEW r \in seen'[t], r[1] \notin suspect'[t] PROVE SettledRead(r, s)'
  <2>1. r \in seen[t]
    <3>1. \A x \in {<<w, loc[t].buf[w]>>} : x[1] = w
      OBVIOUS
    <3> QED  BY <3>1, <1>2, <1>3, <1>6, <1>7
  <2>2. PICK e \in tx[t].rs :
          e[1] = r[1] /\ [word |-> r[1], ver |-> e[2], val |-> r[2]] \in hist
    BY <2>1, <1>3, <1>a DEF ThreadInv, ReadSet
  <2>3. Settled(e[1], e[2], s)
    BY <2>2, <1>2, <1>4, <1>a DEF ThreadInv, Validation
  <2>4. r[1] \in Words /\ SettledRead(r, s)
    BY <2>1, <2>2, <2>3, <1>a, HistoryTypes DEF SettledRead
  <2> QED  BY <2>4, <1>5, <1>b, LocalSettled
<1>8. Snapshot(t)'
  BY <1>6, <1>7 DEF Snapshot, SettledRead, Settled
<1> QED  BY <1>1, <1>2, <1>3, <1>4, <1>5, <1>8, <1>b, RoAcceptKept

=============================================================================
