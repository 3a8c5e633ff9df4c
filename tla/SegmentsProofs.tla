---------------------------- MODULE SegmentsProofs ----------------------------
(***************************************************************************)
(* The steps of Segments.tla keep the invariant of SegmentsInv.tla, and so *)
(* every reachable state has it, for any set of threads, any number of     *)
(* spots, any size of a batch and any number of transactions.              *)
(***************************************************************************)
EXTENDS SegmentsInv, FiniteSetTheorems, SequenceTheorems, TLAPS

-----------------------------------------------------------------------------
(* Addresses and sequences.                                                *)

(* An address leads back to the spot it was made from. *)
LEMMA SpotAddress ==
  ASSUME NEW s \in Spots
  PROVE  /\ VaFromIndex(s) \in Addresses(Spots)
         /\ VaFromIndex(s) = s + 1
         /\ IndexFromVa(VaFromIndex(s)) = s
<1>1. s + 1 \in 0 .. AddressRange - 1 /\ AddressRange \in Nat \ {0} /\ s \in Int
  BY ConstantsAssumption DEF Spots
<1>2. (s + 1) % AddressRange = s + 1
  BY <1>1, SMT
<1> QED  BY <1>1, <1>2 DEF VaFromIndex, IndexFromVa, Addresses

LEMMA AddressSpot ==
  ASSUME NEW a \in Addresses(Spots)
  PROVE  IndexFromVa(a) \in Spots /\ VaFromIndex(IndexFromVa(a)) = a
<1>1. PICK s \in Spots : a = VaFromIndex(s)
  BY DEF Addresses
<1> QED  BY <1>1, SpotAddress

LEMMA FirstSpot == 0 \in Spots /\ TmStart \in Addresses(Spots) /\ IndexFromVa(TmStart) = 0
<1>1. 0 \in Spots
  BY ConstantsAssumption DEF Spots
<1> QED  BY <1>1, SpotAddress DEF TmStart

LEMMA ElementsAppend ==
  ASSUME NEW S, NEW q \in Seq(S), NEW s \in S
  PROVE  Append(q, s) \in Seq(S) /\ Elements(Append(q, s)) = Elements(q) \cup {s}
<1>1. /\ Append(q, s) \in Seq(S) /\ Len(q) \in Nat /\ Len(Append(q, s)) = Len(q) + 1
      /\ \A i \in 1 .. Len(q) : Append(q, s)[i] = q[i]
      /\ Append(q, s)[Len(q) + 1] = s
  BY AppendProperties, LenProperties
<1>2. 1 .. Len(q) + 1 = (1 .. Len(q)) \cup {Len(q) + 1}
  BY <1>1
<1> QED  BY <1>1, <1>2 DEF Elements

LEMMA ElementsCons ==
  ASSUME NEW S, NEW q \in Seq(S), NEW s \in S
  PROVE  /\ <<s>> \o q \in Seq(S) /\ <<s>> \o q # <<>>
         /\ Elements(<<s>> \o q) = Elements(q) \cup {s}
         /\ Len(q) \in Nat /\ Len(<<s>> \o q) = Len(q) + 1
         /\ \A i \in 1 .. Len(q) + 1 : (<<s>> \o q)[i] = IF i = 1 THEN s ELSE q[i - 1]
<1> DEFINE p == <<s>> \o q
<1>1. <<s>> \in Seq(S) /\ Len(<<s>>) = 1 /\ <<s>>[1] = s /\ Len(q) \in Nat
  BY LenProperties
<1>2. /\ p \in Seq(S) /\ Len(p) = Len(q) + 1
      /\ \A i \in 1 .. Len(q) + 1 : p[i] = IF i = 1 THEN s ELSE q[i - 1]
  BY <1>1, ConcatProperties
<1>3. p # <<>>
  BY <1>1, <1>2, EmptySeq
<1>4. ASSUME NEW x \in Elements(p) PROVE x \in Elements(q) \cup {s}
  <2>1. PICK i \in 1 .. Len(q) + 1 : x = p[i]
    BY <1>2, <1>4 DEF Elements
  <2>2. i # 1 => i - 1 \in 1 .. Len(q)
    BY <1>1
  <2> QED  BY <2>1, <2>2, <1>2 DEF Elements
<1>5. ASSUME NEW x \in Elements(q) PROVE x \in Elements(p)
  <2>1. PICK i \in 1 .. Len(q) : x = q[i]
    BY <1>5 DEF Elements
  <2>2. i + 1 \in 1 .. Len(q) + 1 /\ i + 1 # 1 /\ (i + 1) - 1 = i
    BY <1>1
  <2>3. p[i + 1] = x
    BY <2>1, <2>2, <1>2
  <2> QED  BY <2>2, <2>3, <1>2 DEF Elements
<1>6. s \in Elements(p)
  <2>1. 1 \in 1 .. Len(p) /\ p[1] = s
    BY <1>1, <1>2
  <2> QED  BY <2>1 DEF Elements
<1> HIDE DEF p
<1>7. Elements(p) = Elements(q) \cup {s}
  BY <1>4, <1>5, <1>6
<1> QED  BY <1>1, <1>2, <1>3, <1>7 DEF p

LEMMA ElementsHeadTail ==
  ASSUME NEW S, NEW q \in Seq(S), q # <<>>
  PROVE  /\ Head(q) \in S /\ Tail(q) \in Seq(S) /\ Head(q) = q[1]
         /\ Len(q) \in Nat \ {0} /\ Len(Tail(q)) = Len(q) - 1
         /\ \A i \in 1 .. Len(q) - 1 : Tail(q)[i] = q[i + 1]
         /\ Elements(q) = Elements(Tail(q)) \cup {Head(q)}
<1> DEFINE p == Tail(q)
<1>1. /\ Head(q) \in S /\ p \in Seq(S) /\ Head(q) = q[1]
      /\ Len(q) \in Nat \ {0} /\ Len(p) = Len(q) - 1
      /\ \A i \in 1 .. Len(q) - 1 : p[i] = q[i + 1]
  BY HeadTailProperties, EmptySeq
<1>2. ASSUME NEW x \in Elements(q) PROVE x \in Elements(p) \cup {Head(q)}
  <2>1. PICK i \in 1 .. Len(q) : x = q[i]
    BY <1>2 DEF Elements
  <2>2. i # 1 => i - 1 \in 1 .. Len(q) - 1 /\ (i - 1) + 1 = i
    BY <1>1
  <2> QED  BY <2>1, <2>2, <1>1 DEF Elements
<1>3. ASSUME NEW x \in Elements(p) PROVE x \in Elements(q)
  <2>1. PICK i \in 1 .. Len(q) - 1 : x = p[i]
    BY <1>1, <1>3 DEF Elements
  <2>2. i + 1 \in 1 .. Len(q)
    BY <1>1
  <2> QED  BY <2>1, <2>2, <1>1 DEF Elements
<1>4. Head(q) \in Elements(q)
  <2>1. 1 \in 1 .. Len(q)
    BY <1>1
  <2> QED  BY <2>1, <1>1 DEF Elements
<1> HIDE DEF p
<1>5. Elements(q) = Elements(p) \cup {Head(q)}
  BY <1>2, <1>3, <1>4
<1> QED  BY <1>1, <1>5 DEF p

LEMMA ElementsLonger ==
  ASSUME NEW S, NEW q \in Seq(S), q # <<>>, Len(q) # 1
  PROVE  Tail(q) # <<>>
<1>1. Len(Tail(q)) = Len(q) - 1 /\ Len(q) \in Nat
  BY ElementsHeadTail
<1>2. Len(Tail(q)) # 0
  BY <1>1
<1> QED  BY <1>2, EmptySeq

LEMMA ElementsType ==
  ASSUME NEW S, NEW q \in Seq(S)
  PROVE  Elements(q) \subseteq S
<1>1. \A i \in 1 .. Len(q) : q[i] \in S
  BY ElementOfSeq
<1> QED  BY <1>1 DEF Elements

LEMMA ElementsEmpty == Elements(<<>>) = {}
  BY DEF Elements

-----------------------------------------------------------------------------
(* Shape                                                                   *)

LEMMA PCsIn ==
  \A l \in {"idle", "ready", "pop", "unlink", "init", "push", "append", "appending",
            "rdunlock", "batch", "wrlock", "delete"} : l \in PCs
  BY DEF PCs

LEMMA NoTxType == NoTx \in Transaction /\ NoLoc \in Locals
<1>1. <<>> \in Seq(Spots)
  BY EmptySeq
<1> QED  BY <1>1, FirstSpot DEF NoTx, NoLoc, Transaction, Locals

LEMMA NoneIsNobody == \A t \in Threads : t # None
  BY ConstantsAssumption

(* What TypeOK says of one thread. *)
LEMMA TypeFacts ==
  ASSUME TypeOK, NEW t \in Threads
  PROVE  /\ pc[t] \in PCs
         /\ tx[t] \in Transaction /\ loc[t] \in Locals
         /\ tx[t].wrote \in BOOLEAN /\ tx[t].toFree \in Seq(Spots)
         /\ tx[t].mine \subseteq Addresses(Spots)
         /\ loc[t].spot \in Spots /\ loc[t].list \in Seq(Spots) /\ loc[t].next \in Nat
         /\ reach[t] \subseteq Addresses(Spots)
         /\ vaN \in Nat /\ VaSize \in Nat /\ vaN <= VaSize
         /\ Len(toFree) \in Nat /\ Len(empty) \in Nat
  BY ConstantsAssumption, LenProperties, SMTT(30) DEF TypeOK, Transaction, Locals

LEMMA ShapeInit ==
  ASSUME Init
  PROVE  Shape
<1>1. <<>> \in Seq(Spots) /\ 0 \in Spots
  BY EmptySeq, FirstSpot
<1>2. TypeOK
  <2>1. va \in [Spots -> SegmentStates] /\ vaN \in 1 .. VaSize
    BY ConstantsAssumption DEF Init, SegmentStates
  <2>2. pc \in [Threads -> PCs] /\ tx \in [Threads -> Transaction] /\ loc \in [Threads -> Locals]
    BY PCsIn, NoTxType DEF Init
  <2>3. linked \in SUBSET Addresses(Spots) /\ reach \in [Threads -> SUBSET Addresses(Spots)]
    BY FirstSpot DEF Init
  <2>4. begun \in 0 .. MaxTx
    BY ConstantsAssumption DEF Init
  <2> QED  BY <1>1, <2>1, <2>2, <2>3, <2>4 DEF Init, TypeOK, Transaction, Locals
<1>3. Popping /\ Appending /\ Looping
  BY NoneIsNobody DEF Init, Popping, Appending, Looping, NoLoc
<1>4. RunningThreads = {}
  BY DEF Init, RunningThreads, Running, Outside
<1>5. ReadersEnough
  BY <1>4, FS_EmptySet DEF ReadersEnough, Init
<1>6. WriterAlone
  BY NoneIsNobody DEF Init, WriterAlone
<1> QED  BY <1>2, <1>3, <1>5, <1>6 DEF Shape

(* The threads that run after a thread has moved. *)
LEMMA RunningMoves ==
  ASSUME TypeOK, NEW t \in Threads, NEW l \in PCs, Goto(t, l)
  PROVE  /\ pc' \in [Threads -> PCs] /\ pc'[t] = l
         /\ \A u \in Threads \ {t} : pc'[u] = pc[u]
         /\ RunningThreads' = IF l \in Outside THEN RunningThreads \ {t}
                              ELSE RunningThreads \cup {t}
<1>1. pc' \in [Threads -> PCs] /\ pc'[t] = l /\ \A u \in Threads \ {t} : pc'[u] = pc[u]
  BY DEF TypeOK, Goto
<1>2. RunningThreads' = {u \in Threads : pc'[u] \notin Outside}
  BY DEF RunningThreads, Running
<1> QED  BY <1>1, <1>2 DEF RunningThreads, Running

(* One thread more or less. *)
LEMMA Counted ==
  ASSUME IsFiniteSet(RunningThreads), NEW t
  PROVE  /\ Cardinality(RunningThreads) \in Nat
         /\ IsFiniteSet(RunningThreads \ {t}) /\ IsFiniteSet(RunningThreads \cup {t})
         /\ t \in RunningThreads =>
              /\ Cardinality(RunningThreads \ {t}) = Cardinality(RunningThreads) - 1
              /\ RunningThreads \cup {t} = RunningThreads
              /\ Cardinality(RunningThreads) > 0
         /\ t \notin RunningThreads =>
              /\ Cardinality(RunningThreads \cup {t}) = Cardinality(RunningThreads) + 1
              /\ RunningThreads \ {t} = RunningThreads
<1> DEFINE R == RunningThreads
<1>1. Cardinality(R) \in Nat /\ IsFiniteSet(R \ {t}) /\ IsFiniteSet(R \cup {t})
  BY FS_CardinalityType, FS_RemoveElement, FS_AddElement
<1>2. ASSUME t \in R
      PROVE  /\ Cardinality(R \ {t}) = Cardinality(R) - 1
             /\ R \cup {t} = R /\ Cardinality(R) > 0
  <2>1. Cardinality(R \ {t}) = Cardinality(R) - 1 /\ Cardinality(R \ {t}) \in Nat
    BY <1>1, <1>2, FS_RemoveElement, FS_CardinalityType
  <2> QED  BY <1>1, <1>2, <2>1
<1>3. ASSUME t \notin R
      PROVE  Cardinality(R \cup {t}) = Cardinality(R) + 1 /\ R \ {t} = R
  BY <1>3, FS_AddElement
<1> QED  BY <1>1, <1>2, <1>3

(* What an action leaves alone. *)
LEMMA CleanupType ==
  ASSUME TypeOK, NEW t \in Threads, TransactionCleanup(t)
  PROVE  /\ pc' \in [Threads -> PCs]
         /\ tx' \in [Threads -> Transaction] /\ loc' \in [Threads -> Locals]
         /\ tx'[t] = NoTx /\ loc'[t] = NoLoc /\ pc'[t] = "idle"
         /\ \A u \in Threads \ {t} : tx'[u] = tx[u] /\ loc'[u] = loc[u] /\ pc'[u] = pc[u]
  BY PCsIn, NoTxType DEF TypeOK, TransactionCleanup, Goto, Transaction, Locals

LEMMA ReadersLeft ==
  ASSUME Shape, NEW t \in Threads, Running(t)
  PROVE  readers > 0 /\ readers - 1 \in Nat
<1>1. t \in RunningThreads
  BY DEF RunningThreads
<1>2. /\ Cardinality(RunningThreads) \in Nat /\ Cardinality(RunningThreads) > 0
      /\ Cardinality(RunningThreads) <= readers /\ readers \in Nat
  BY <1>1, Counted DEF Shape, ReadersEnough, TypeOK
<1> QED  BY <1>2

LEMMA TypeStep ==
  ASSUME Shape, Next
  PROVE  TypeOK'
<1> USE DEF Shape
<1>1. ASSUME NEW t \in Threads, TmBegin(t) \/ TmBeginFails(t) PROVE TypeOK'
  <2>1. begun' \in 0 .. MaxTx /\ readers' \in Nat
    BY <1>1, ConstantsAssumption, SMTT(30) DEF TypeOK, TmBegin, TmBeginFails
  <2>2. pc' \in [Threads -> PCs] /\ reach' \in [Threads -> SUBSET Addresses(Spots)]
    BY <1>1, PCsIn DEF TypeOK, TmBegin, TmBeginFails, Goto
  <2> QED  BY <1>1, <2>1, <2>2 DEF TypeOK, TmBegin, TmBeginFails
<1>2. ASSUME NEW t \in Threads, TmWrite(t) PROVE TypeOK'
  <2>1. [tx[t] EXCEPT !.wrote = TRUE] \in Transaction
    BY TypeFacts DEF Transaction
  <2> QED  BY <1>2, <2>1 DEF TypeOK, TmWrite, Transaction, tmVars, ghosts
<1>3. ASSUME NEW t \in Threads, Abort(t) PROVE TypeOK'
  <2>1. readers' \in Nat
    <3>1. Running(t)
      BY <1>3 DEF Abort, Running, Outside
    <3> QED  BY <1>3, <3>1, ReadersLeft DEF Abort
  <2> QED  BY <1>3, <2>1, CleanupType DEF TypeOK, Abort, Forget, Transaction, Locals
<1>4. ASSUME NEW t \in Threads, TmAlloc(t) PROVE TypeOK'
  BY <1>4, PCsIn DEF TypeOK, TmAlloc, Goto, ghosts
<1>5. ASSUME NEW t \in Threads, NEW a \in Addresses(Spots), TmFree(t, a) PROVE TypeOK'
  <2>1. Append(tx[t].toFree, IndexFromVa(a)) \in Seq(Spots)
    BY TypeFacts, AddressSpot, ElementsAppend
  <2>2. [tx[t] EXCEPT !.toFree = Append(@, IndexFromVa(a))] \in Transaction
    BY <2>1, TypeFacts DEF Transaction
  <2> QED  BY <1>5, <2>2 DEF TypeOK, TmFree, Transaction, tmVars, ghosts
<1>6. ASSUME NEW t \in Threads, TmEndReadOnly(t) PROVE TypeOK'
  <2>1. readers' \in Nat
    <3>1. Running(t)
      BY <1>6 DEF TmEndReadOnly, Running, Outside
    <3> QED  BY <1>6, <3>1, ReadersLeft DEF TmEndReadOnly
  <2>2. freed' \in SUBSET Spots
    BY <1>6, TypeFacts, ElementsType DEF TmEndReadOnly, TypeOK
  <2> QED  BY <1>6, <2>1, <2>2, CleanupType DEF TypeOK, TmEndReadOnly, Forget, Transaction, Locals
<1>7. ASSUME NEW t \in Threads, TmEnd(t) PROVE TypeOK'
  <2>1. freed' \in SUBSET Spots
    BY <1>7, TypeFacts, ElementsType DEF TmEnd, TypeOK
  <2>2. linked' \in SUBSET Addresses(Spots)
    BY <1>7, TypeFacts DEF TmEnd, TypeOK
  <2>3. reach' \in [Threads -> SUBSET Addresses(Spots)]
    BY <1>7, <2>2 DEF TmEnd, TypeOK
  <2> QED  BY <1>7, <2>1, <2>2, <2>3, PCsIn DEF TypeOK, TmEnd, Goto, tmVars
<1>8. ASSUME NEW t \in Threads, PopSpot(t) PROVE TypeOK'
  <2>1. empty \in Seq(Spots) /\ Head(empty) \in Spots
    BY <1>8, ElementsHeadTail DEF TypeOK, PopSpot
  <2>2. [loc[t] EXCEPT !.spot = Head(empty), !.list = empty] \in Locals
    BY <2>1, TypeFacts DEF Locals
  <2> QED  BY <1>8, <2>2, PCsIn DEF TypeOK, PopSpot, Goto, Locals, tmVars, ghosts
<1>9. ASSUME NEW t \in Threads, PopSpotEnd(t) PROVE TypeOK'
  <2>1. empty' \in Seq(Spots)
    BY <1>9, TypeFacts, ElementsHeadTail DEF Popping, TypeOK, PopSpotEnd
  <2> QED  BY <1>9, <2>1, PCsIn DEF TypeOK, PopSpotEnd, Goto, ghosts
<1>10. ASSUME NEW t \in Threads, NewSpot(t) PROVE TypeOK'
  <2>1. vaN < VaSize
    BY <1>10 DEF NewSpot, Popping, SpotLeft
  <2>2. vaN \in Spots /\ vaN + 1 \in 1 .. VaSize
    BY <2>1, TypeFacts DEF Spots
  <2>3. [loc[t] EXCEPT !.spot = vaN] \in Locals
    BY <2>2, TypeFacts DEF Locals
  <2> QED  BY <1>10, <2>2, <2>3, PCsIn DEF TypeOK, NewSpot, Goto, Locals, ghosts
<1>11. ASSUME NEW t \in Threads, SegmentInit(t) PROVE TypeOK'
  <2>1. VaFromIndex(loc[t].spot) \in Addresses(Spots)
    BY TypeFacts, SpotAddress
  <2>2. [tx[t] EXCEPT !.mine = @ \cup {VaFromIndex(loc[t].spot)}] \in Transaction
    BY <2>1, TypeFacts DEF Transaction
  <2>3. va' \in [Spots -> SegmentStates]
    BY <1>11 DEF TypeOK, SegmentInit, SegmentStates
  <2>4. reach' \in [Threads -> SUBSET Addresses(Spots)]
    BY <1>11, <2>1 DEF TypeOK, SegmentInit
  <2> QED  BY <1>11, <2>2, <2>3, <2>4, PCsIn, NoTxType
           DEF TypeOK, SegmentInit, Goto, Transaction, Locals
<1>12. ASSUME NEW t \in Threads, SegmentInitFails(t) PROVE TypeOK'
  <2>1. <<loc[t].spot>> \o empty \in Seq(Spots)
    BY TypeFacts, ElementsCons DEF TypeOK
  <2>2. [loc[t] EXCEPT !.list = <<loc[t].spot>> \o empty] \in Locals
    BY <2>1, TypeFacts DEF Locals
  <2>3. va' \in [Spots -> SegmentStates]
    BY <1>12 DEF TypeOK, SegmentInitFails, SegmentStates
  <2> QED  BY <1>12, <2>2, <2>3, PCsIn DEF TypeOK, SegmentInitFails, Goto, Locals, ghosts
<1>13. ASSUME NEW t \in Threads, PushSpot(t) PROVE TypeOK'
  BY <1>13, TypeFacts, PCsIn, NoTxType DEF TypeOK, PushSpot, Goto, Locals, ghosts
<1>14. ASSUME NEW t \in Threads, AppendLock(t) PROVE TypeOK'
  BY <1>14, PCsIn DEF TypeOK, AppendLock, Goto, ghosts
<1>15. ASSUME NEW t \in Threads, AppendFree(t) PROVE TypeOK'
  <2>1. tx[t].toFree # <<>>
    BY <1>15 DEF AppendFree, Appending
  <2>2. Head(tx[t].toFree) \in Spots /\ Tail(tx[t].toFree) \in Seq(Spots)
    BY <2>1, TypeFacts, ElementsHeadTail
  <2>3. [tx[t] EXCEPT !.toFree = Tail(@)] \in Transaction
    BY <2>2, TypeFacts DEF Transaction
  <2>4. toFree' \in Seq(Spots)
    BY <1>15, <2>2, AppendProperties DEF TypeOK, AppendFree
  <2>5. pc' \in [Threads -> PCs] /\ freeLock' \in Threads \cup {None}
    BY <1>15, PCsIn DEF TypeOK, AppendFree, Goto
  <2> QED  BY <1>15, <2>3, <2>4, <2>5 DEF TypeOK, AppendFree, Transaction, ghosts
<1>16. ASSUME NEW t \in Threads, RdUnlock(t) PROVE TypeOK'
  <2>1. readers' \in Nat
    <3>1. Running(t)
      BY <1>16 DEF RdUnlock, Running, Outside
    <3> QED  BY <1>16, <3>1, ReadersLeft DEF RdUnlock
  <2> QED  BY <1>16, <2>1, PCsIn DEF TypeOK, RdUnlock, Goto, Forget
<1>17. ASSUME NEW t \in Threads, BatchFull(t) \/ WrLock(t) PROVE TypeOK'
  BY <1>17, PCsIn DEF TypeOK, BatchFull, WrLock, Goto, tmVars, ghosts
<1>18. ASSUME NEW t \in Threads, BatchNotFull(t) PROVE TypeOK'
  BY <1>18, CleanupType DEF TypeOK, BatchNotFull, tmVars, ghosts, Transaction, Locals
<1>19. ASSUME NEW t \in Threads, DeleteSegment(t) PROVE TypeOK'
  <2> DEFINE s == toFree[loc[t].next]
  <2>1. s \in Spots
    <3>1. loc[t].next \in 1 .. Len(toFree)
      BY <1>19, TypeFacts DEF DeleteSegment, Looping
    <3> QED  BY <3>1, ElementOfSeq DEF TypeOK
  <2>2. empty' \in Seq(Spots)
    BY <1>19, <2>1, ElementsCons DEF TypeOK, DeleteSegment
  <2>3. va' \in [Spots -> SegmentStates]
    BY <1>19 DEF TypeOK, DeleteSegment, SegmentStates
  <2>4. [loc[t] EXCEPT !.next = @ + 1] \in Locals
    BY TypeFacts DEF Locals
  <2> HIDE DEF s
  <2>5. freed' \in SUBSET Spots
    BY <1>19 DEF TypeOK, DeleteSegment
  <2> QED  BY <1>19, <2>2, <2>3, <2>4, <2>5 DEF TypeOK, DeleteSegment, Locals
<1>20. ASSUME NEW t \in Threads, BatchDone(t) PROVE TypeOK'
  BY <1>20, CleanupType, EmptySeq DEF TypeOK, BatchDone, ghosts, Transaction, Locals
<1>21. ASSUME TmDestroy PROVE TypeOK'
  <2>1. va' \in [Spots -> SegmentStates]
    BY <1>21 DEF TypeOK, TmDestroy, SegmentStates
  <2> QED  BY <1>21, <2>1, EmptySeq DEF TypeOK, TmDestroy
<1>22. ASSUME Stopped PROVE TypeOK'
  BY <1>22 DEF TypeOK, Stopped, vars, tmVars, ghosts
<1> QED  BY <1>1, <1>2, <1>3, <1>4, <1>5, <1>6, <1>7, <1>8, <1>9, <1>10, <1>11, <1>12, <1>13,
            <1>14, <1>15, <1>16, <1>17, <1>18, <1>19, <1>20, <1>21, <1>22
         DEF Next, Call, AllocStep, EndStep

LEMMA PoppingStep ==
  ASSUME Shape, Next, TypeOK'
  PROVE  Popping'
<1> USE NoneIsNobody DEF Shape, Popping, TypeOK, Goto, SpotLeft, tmVars, ghosts
<1>1. ASSUME NEW t \in Threads, Call(t) PROVE Popping'
  BY <1>1, ZenonT(40) DEF Call, TmBegin, TmBeginFails, TmWrite, Abort, TmAlloc, TmFree, TmEndReadOnly, TmEnd,
              TransactionCleanup, NoLoc
<1>2. ASSUME NEW t \in Threads, PopSpot(t) PROVE Popping'
  BY <1>2 DEF PopSpot
<1>3. ASSUME NEW t \in Threads, PopSpotEnd(t) PROVE Popping'
  BY <1>3 DEF PopSpotEnd
<1>4. ASSUME NEW t \in Threads, NewSpot(t) PROVE Popping'
  BY <1>4 DEF NewSpot
<1>5. ASSUME NEW t \in Threads, SegmentInit(t) PROVE Popping'
  BY <1>5 DEF SegmentInit, NoLoc
<1>6. ASSUME NEW t \in Threads, SegmentInitFails(t) PROVE Popping'
  <2>1. <<loc[t].spot>> \o empty # <<>>
    BY TypeFacts, ElementsCons
  <2> QED  BY <1>6, <2>1 DEF SegmentInitFails
<1>7. ASSUME NEW t \in Threads, PushSpot(t) PROVE Popping'
  BY <1>7 DEF PushSpot, NoLoc
<1>8. ASSUME NEW t \in Threads, AppendLock(t) \/ RdUnlock(t) \/ BatchFull(t) \/ WrLock(t)
      PROVE  Popping'
  BY <1>8 DEF AppendLock, RdUnlock, BatchFull, WrLock
<1>9. ASSUME NEW t \in Threads, AppendFree(t) PROVE Popping'
  BY <1>9, ZenonT(40) DEF AppendFree
<1>10. ASSUME NEW t \in Threads, BatchNotFull(t) \/ BatchDone(t) PROVE Popping'
  BY <1>10 DEF BatchNotFull, BatchDone, TransactionCleanup, NoLoc
<1>11. ASSUME NEW t \in Threads, DeleteSegment(t) PROVE Popping'
  <2> DEFINE s == toFree[loc[t].next]
  <2>1. s \in Spots
    <3>1. loc[t].next \in 1 .. Len(toFree)
      BY <1>11, TypeFacts DEF DeleteSegment, Looping
    <3> QED  BY <3>1, ElementOfSeq
  <2>2. <<s>> \o empty # <<>>
    BY <2>1, ElementsCons
  <2>3. empty # <<>> => empty' # <<>>
    BY <1>11, <2>2 DEF DeleteSegment
  <2> QED  BY <1>11, <2>3 DEF DeleteSegment
<1>12. ASSUME TmDestroy \/ Stopped PROVE Popping'
  BY <1>12 DEF TmDestroy, Stopped, vars
<1> QED  BY <1>1, <1>2, <1>3, <1>4, <1>5, <1>6, <1>7, <1>8, <1>9, <1>10, <1>11, <1>12
         DEF Next, AllocStep, EndStep

LEMMA AppendingStep ==
  ASSUME Shape, Next, TypeOK'
  PROVE  Appending'
<1> USE NoneIsNobody DEF Shape, Appending, TypeOK, Goto, tmVars, ghosts
<1>1. ASSUME NEW t \in Threads, Call(t) PROVE Appending'
  BY <1>1, ZenonT(40) DEF Call, TmBegin, TmBeginFails, TmWrite, Abort, TmAlloc, TmFree, TmEndReadOnly, TmEnd,
              TransactionCleanup
<1>2. ASSUME NEW t \in Threads, AllocStep(t) PROVE Appending'
  BY <1>2, ZenonT(40) DEF AllocStep, PopSpot, PopSpotEnd, NewSpot, SegmentInit, SegmentInitFails, PushSpot
<1>3. ASSUME NEW t \in Threads, AppendLock(t) \/ RdUnlock(t) \/ BatchFull(t) \/ WrLock(t)
      PROVE  Appending'
  BY <1>3 DEF AppendLock, RdUnlock, BatchFull, WrLock
<1>4. ASSUME NEW t \in Threads, AppendFree(t) PROVE Appending'
  <2>1. tx[t].toFree \in Seq(Spots) /\ tx[t].toFree # <<>>
    BY <1>4, TypeFacts DEF AppendFree
  <2>2. Len(tx[t].toFree) # 1 => Tail(tx[t].toFree) # <<>>
    BY <2>1, ElementsLonger
  <2> QED  BY <1>4, <2>2, SMTT(30) DEF AppendFree
<1>5. ASSUME NEW t \in Threads, BatchNotFull(t) \/ BatchDone(t) PROVE Appending'
  BY <1>5 DEF BatchNotFull, BatchDone, TransactionCleanup
<1>6. ASSUME NEW t \in Threads, DeleteSegment(t) PROVE Appending'
  BY <1>6 DEF DeleteSegment
<1>7. ASSUME TmDestroy \/ Stopped PROVE Appending'
  BY <1>7 DEF TmDestroy, Stopped, vars
<1> QED  BY <1>1, <1>2, <1>3, <1>4, <1>5, <1>6, <1>7 DEF Next, EndStep

LEMMA LoopingStep ==
  ASSUME Shape, Next, TypeOK'
  PROVE  Looping'
<1> USE DEF Looping, Goto
<1>1. Looping /\ pc \in [Threads -> PCs] /\ loc \in [Threads -> Locals]
  BY DEF Shape, TypeOK, Locals
<1>2. ASSUME NEW t \in Threads, TransactionCleanup(t) PROVE Looping'
  BY <1>1, <1>2 DEF TransactionCleanup, NoLoc
<1>3. ASSUME NEW t \in Threads,
             \/ TmBegin(t) \/ TmBeginFails(t) \/ TmWrite(t) \/ TmAlloc(t) \/ TmEnd(t)
             \/ \E a \in Addresses(Spots) : TmFree(t, a)
      PROVE  Looping'
  BY <1>1, <1>3 DEF TmBegin, TmBeginFails, TmWrite, TmAlloc, TmEnd, TmFree, ghosts
<1>4. ASSUME NEW t \in Threads, PopSpot(t) \/ NewSpot(t) \/ SegmentInitFails(t)
      PROVE  Looping'
  <2>1. ASSUME NEW l \in Locals, NEW n, NEW q
        PROVE  /\ [l EXCEPT !.spot = n, !.list = q].next = l.next
               /\ [l EXCEPT !.spot = n].next = l.next /\ [l EXCEPT !.list = q].next = l.next
    BY DEF Locals
  <2>2. loc'[t].next = loc[t].next /\ pc[t] # "delete"
    <3>1. CASE PopSpot(t)
      <4>1. loc'[t] = [loc[t] EXCEPT !.spot = Head(empty), !.list = empty]
        BY <1>1, <3>1 DEF PopSpot
      <4> QED  BY <1>1, <2>1, <3>1, <4>1 DEF PopSpot
    <3>2. CASE NewSpot(t)
      BY <1>1, <2>1, <3>2 DEF NewSpot
    <3>3. CASE SegmentInitFails(t)
      BY <1>1, <2>1, <3>3 DEF SegmentInitFails
    <3> QED  BY <1>4, <3>1, <3>2, <3>3
  <2>3. \A u \in Threads \ {t} : loc'[u] = loc[u] /\ pc'[u] = pc[u]
    BY <1>1, <1>4 DEF PopSpot, NewSpot, SegmentInitFails
  <2> QED  BY <1>1, <2>2, <2>3
<1>5. ASSUME NEW t \in Threads, SegmentInit(t) \/ PushSpot(t) PROVE Looping'
  BY <1>1, <1>5 DEF SegmentInit, PushSpot, NoLoc
<1>6. ASSUME NEW t \in Threads,
             \/ PopSpotEnd(t) \/ AppendLock(t) \/ AppendFree(t) \/ RdUnlock(t)
             \/ BatchFull(t) \/ WrLock(t)
      PROVE  Looping'
  BY <1>1, <1>6 DEF PopSpotEnd, AppendLock, AppendFree, RdUnlock, BatchFull, WrLock
<1>7. ASSUME NEW t \in Threads, DeleteSegment(t) PROVE Looping'
  <2>1. loc'[t].next = loc[t].next + 1 /\ loc[t].next \in Nat /\ pc'[t] = "delete"
    BY <1>1, <1>7 DEF DeleteSegment, Locals
  <2>2. \A u \in Threads \ {t} : loc'[u] = loc[u] /\ pc'[u] = pc[u]
    BY <1>1, <1>7 DEF DeleteSegment
  <2> QED  BY <1>1, <2>1, <2>2
<1>8. ASSUME TmDestroy \/ Stopped PROVE Looping'
  BY <1>1, <1>8 DEF TmDestroy, Stopped, vars
<1> QED  BY <1>2, <1>3, <1>4, <1>5, <1>6, <1>7, <1>8
         DEF Next, Call, AllocStep, EndStep, Abort, TmEndReadOnly, BatchNotFull, BatchDone

(* How a step changes who runs and the number of read locks. *)
Entered(t) ==
  /\ t \notin RunningThreads /\ RunningThreads' = RunningThreads \cup {t}
  /\ readers' = readers + 1

Left(t) ==
  /\ t \in RunningThreads /\ RunningThreads' = RunningThreads \ {t}
  /\ readers' = readers - 1

LEMMA RunningStep ==
  ASSUME TypeOK, Next
  PROVE  \/ \E t \in Threads : TmBegin(t) /\ Entered(t)
         \/ \E t \in Threads : (Abort(t) \/ TmEndReadOnly(t) \/ RdUnlock(t)) /\ Left(t)
         \/ \E t \in NoMemory : TmBeginFails(t) /\ RunningThreads' = RunningThreads /\ readers' = readers + 1
         \/ RunningThreads' = RunningThreads /\ readers' = readers
<1> USE DEF Outside
<1>1. ASSUME NEW t \in Threads, TmBegin(t) PROVE Entered(t)
  <2>1. t \notin RunningThreads /\ Goto(t, "ready") /\ readers' = readers + 1
    BY <1>1 DEF TmBegin, RunningThreads, Running
  <2> QED  BY <2>1, RunningMoves, PCsIn DEF Entered
<1>2. ASSUME NEW t \in Threads, Abort(t) \/ TmEndReadOnly(t) \/ RdUnlock(t) PROVE Left(t)
  <2>1. /\ t \in RunningThreads /\ (Goto(t, "idle") \/ Goto(t, "batch"))
        /\ readers' = readers - 1
    BY <1>2 DEF Abort, TmEndReadOnly, RdUnlock, TransactionCleanup, RunningThreads, Running
  <2> QED  BY <2>1, RunningMoves, PCsIn DEF Left
<1>3. ASSUME NEW t \in Threads, TmBeginFails(t)
      PROVE  t \in NoMemory /\ RunningThreads' = RunningThreads /\ readers' = readers + 1
  BY <1>3 DEF TmBeginFails, RunningThreads, Running
<1>4. ASSUME NEW t \in Threads, TmWrite(t) \/ DeleteSegment(t) \/ \E a \in Addresses(Spots) : TmFree(t, a)
      PROVE  RunningThreads' = RunningThreads /\ readers' = readers
  BY <1>4 DEF TmWrite, TmFree, DeleteSegment, RunningThreads, Running, tmVars
<1>5. ASSUME NEW t \in Threads, TmAlloc(t) \/ TmEnd(t) \/ AllocStep(t) \/ AppendLock(t)
      PROVE  RunningThreads' = RunningThreads /\ readers' = readers
  <2>1. t \in RunningThreads /\ readers' = readers
    BY <1>5 DEF TmAlloc, TmEnd, AllocStep, PopSpot, PopSpotEnd, NewSpot, SegmentInit,
                SegmentInitFails, PushSpot, AppendLock, RunningThreads, Running, tmVars
  <2>2. \E l \in PCs \ Outside : Goto(t, l)
    BY <1>5, PCsIn DEF TmAlloc, TmEnd, AllocStep, PopSpot, PopSpotEnd, NewSpot, SegmentInit,
                SegmentInitFails, PushSpot, AppendLock
  <2> QED  BY <2>1, <2>2, RunningMoves
<1>6. ASSUME NEW t \in Threads, AppendFree(t)
      PROVE  RunningThreads' = RunningThreads /\ readers' = readers
  <2>1. t \in RunningThreads /\ readers' = readers
    BY <1>6 DEF AppendFree, RunningThreads, Running
  <2>2. Goto(t, "rdunlock") \/ pc' = pc
    BY <1>6 DEF AppendFree
  <2>3. pc' = pc => RunningThreads' = RunningThreads
    BY DEF RunningThreads, Running
  <2> QED  BY <2>1, <2>2, <2>3, RunningMoves, PCsIn
<1>7. ASSUME NEW t \in Threads, BatchFull(t) \/ BatchNotFull(t) \/ WrLock(t) \/ BatchDone(t)
      PROVE  RunningThreads' = RunningThreads /\ readers' = readers
  <2>1. t \notin RunningThreads /\ readers' = readers
    BY <1>7 DEF BatchFull, BatchNotFull, WrLock, BatchDone, RunningThreads, Running, tmVars
  <2>2. \E l \in Outside : l \in PCs /\ Goto(t, l)
    BY <1>7, PCsIn DEF BatchFull, BatchNotFull, WrLock, BatchDone, TransactionCleanup
  <2> QED  BY <2>1, <2>2, RunningMoves
<1>8. ASSUME TmDestroy \/ Stopped PROVE RunningThreads' = RunningThreads /\ readers' = readers
  BY <1>8 DEF TmDestroy, Stopped, vars, tmVars, RunningThreads, Running
<1> QED  BY <1>1, <1>2, <1>3, <1>4, <1>5, <1>6, <1>7, <1>8 DEF Next, Call, EndStep

LEMMA ReadersStep ==
  ASSUME Shape, Next, TypeOK'
  PROVE  ReadersEnough'
<1>1. TypeOK /\ readers \in Nat /\ IsFiniteSet(RunningThreads) /\ Cardinality(RunningThreads) <= readers
  BY DEF Shape, TypeOK, ReadersEnough
<1>2. Cardinality(RunningThreads) \in Nat
  BY <1>1, FS_CardinalityType
<1>3. CASE RunningThreads' = RunningThreads /\ readers' \in {readers, readers + 1}
  <2>1. readers' >= readers
    BY <1>1, <1>3
  <2> QED  BY <1>1, <1>2, <1>3, <2>1 DEF ReadersEnough
<1>4. ASSUME NEW t, Entered(t) PROVE ReadersEnough'
  <2>1. /\ IsFiniteSet(RunningThreads \cup {t})
        /\ Cardinality(RunningThreads \cup {t}) = Cardinality(RunningThreads) + 1
    BY <1>1, <1>4, Counted DEF Entered
  <2> QED  BY <1>1, <1>2, <1>4, <2>1 DEF ReadersEnough, Entered
<1>5. ASSUME NEW t, Left(t) PROVE ReadersEnough'
  <2>1. /\ IsFiniteSet(RunningThreads \ {t})
        /\ Cardinality(RunningThreads \ {t}) = Cardinality(RunningThreads) - 1
    BY <1>1, <1>5, Counted DEF Left
  <2> QED  BY <1>1, <1>2, <1>5, <2>1 DEF ReadersEnough, Left
<1> QED  BY <1>1, <1>3, <1>4, <1>5, RunningStep

LEMMA WriterStep ==
  ASSUME Shape, Next, TypeOK'
  PROVE  WriterAlone'
<1>1. /\ TypeOK /\ readers \in Nat /\ readers' \in Nat
      /\ writer # None => readers = 0
      /\ \A t \in Threads : pc[t] = "delete" <=> writer = t
  BY DEF Shape, TypeOK, WriterAlone
<1>2. writer' # None => readers' = 0
  <2>1. ASSUME writer' = writer PROVE writer' # None => readers' = 0
    <3>1. writer = None \/ readers' <= readers
      BY <1>1, RunningStep DEF Left, TmBegin, TmBeginFails
    <3> QED  BY <1>1, <2>1, <3>1
  <2>2. ASSUME writer' # writer, writer' # None PROVE readers' = 0
    <3>1. \E t \in Threads : WrLock(t)
      BY <2>2, ZenonT(40) DEF Next, Call, AllocStep, EndStep, TmBegin, TmBeginFails, TmWrite, TmAlloc, TmEnd,
                  Abort, TmFree, TmEndReadOnly, PopSpot, PopSpotEnd, NewSpot, SegmentInit,
                  SegmentInitFails, PushSpot, AppendLock, AppendFree, RdUnlock, BatchFull,
                  BatchNotFull, DeleteSegment, BatchDone, TmDestroy, Stopped, vars, tmVars
    <3> QED  BY <1>1, <3>1 DEF WrLock
  <2> QED  BY <2>1, <2>2
<1>3. \A u \in Threads : pc'[u] = "delete" <=> writer' = u
  <2> USE NoneIsNobody DEF TypeOK, Goto, tmVars
  <2>1. ASSUME NEW t \in Threads, Call(t)
        PROVE  \A u \in Threads : pc'[u] = "delete" <=> writer' = u
    BY <1>1, <2>1 DEF Call, TmBegin, TmBeginFails, TmWrite, Abort, TmAlloc, TmFree, TmEndReadOnly,
                      TmEnd, TransactionCleanup
  <2>2. ASSUME NEW t \in Threads, AllocStep(t)
        PROVE  \A u \in Threads : pc'[u] = "delete" <=> writer' = u
    BY <1>1, <2>2 DEF AllocStep, PopSpot, PopSpotEnd, NewSpot, SegmentInit, SegmentInitFails, PushSpot
  <2>3. ASSUME NEW t \in Threads, EndStep(t)
        PROVE  \A u \in Threads : pc'[u] = "delete" <=> writer' = u
    BY <1>1, <2>3, ZenonT(40) DEF EndStep, AppendLock, AppendFree, RdUnlock, BatchFull, BatchNotFull, WrLock,
                      DeleteSegment, BatchDone, TransactionCleanup
  <2>4. ASSUME TmDestroy \/ Stopped
        PROVE  \A u \in Threads : pc'[u] = "delete" <=> writer' = u
    BY <1>1, <2>4 DEF TmDestroy, Stopped, vars
  <2> QED  BY <2>1, <2>2, <2>3, <2>4 DEF Next
<1> QED  BY <1>2, <1>3 DEF WriterAlone

(* The shape of the state is kept whatever fails. *)
LEMMA ShapeStep ==
  ASSUME Shape, [Next]_vars
  PROVE  Shape'
<1>1. CASE Next
  BY <1>1, TypeStep, PoppingStep, AppendingStep, LoopingStep, ReadersStep, WriterStep
     DEF Shape
<1>2. CASE UNCHANGED vars
  BY <1>2 DEF vars, tmVars, ghosts, Shape, TypeOK, Popping, SpotLeft, Appending, Looping,
              ReadersEnough, WriterAlone, RunningThreads, Running
<1> QED  BY <1>1, <1>2

(* Type correctness, for any number of failed allocations: an address names a *)
(* spot of va_arr, and every value tm_alloc and the batch hand on is one.     *)
THEOREM TypeCorrect == Spec => []TypeOK
<1>1. Init => Shape
  BY ShapeInit
<1>2. Shape /\ [Next]_vars => Shape'
  BY ShapeStep
<1>3. Shape => TypeOK
  BY DEF Shape
<1> QED  BY <1>1, <1>2, <1>3, PTL DEF Spec

(* Whatever allocation fails, a batch is deleted while no transaction runs: *)
(* each one has a read lock, and the write lock waits for all of them.      *)
THEOREM DeletedAlone == Spec => []NobodyRuns
<1>1. Init => Shape
  BY ShapeInit
<1>2. Shape /\ [Next]_vars => Shape'
  BY ShapeStep
<1>3. Shape => NobodyRuns
  <2>1. ASSUME Shape, NEW t \in Threads, pc[t] = "delete" PROVE RunningThreads = {}
    <3>1. readers = 0
      BY <2>1, NoneIsNobody DEF Shape, WriterAlone
    <3>2. IsFiniteSet(RunningThreads) /\ Cardinality(RunningThreads) = 0
      BY <2>1, <3>1, FS_CardinalityType DEF Shape, ReadersEnough
    <3> QED  BY <3>2, FS_EmptySet
  <2> QED  BY <2>1 DEF NobodyRuns
<1> QED  BY <1>1, <1>2, <1>3, PTL DEF Spec

-----------------------------------------------------------------------------
(* Kept: what holds as long as memory does not run out.                    *)

LEMMA KeptInit ==
  ASSUME Init
  PROVE  Kept
<1>1. TypeOK /\ RunningThreads = {} /\ 0 \in Spots /\ IndexFromVa(TmStart) = 0
  BY ShapeInit, FirstSpot DEF Shape, Init, RunningThreads, Running, Outside
<1>2. AtRest
  BY DEF Init, AtRest, Running, Outside
<1>3. ReadersRun
  BY <1>1, FS_EmptySet, NoneIsNobody DEF Init, ReadersRun, RunningThreads
<1>4. SpotsKnown /\ LinkedLive
  BY <1>1 DEF Init, SpotsKnown, LinkedLive, Spots
<1>5. SpotsDistinct
  BY ElementsEmpty, EmptySeq DEF Init, SpotsDistinct, Allocating
<1>6. MineMine /\ Doomed
  BY ElementsEmpty DEF Init, MineMine, Doomed, Open, Pending
<1> QED  BY <1>2, <1>3, <1>4, <1>5, <1>6 DEF Kept

(* While a batch is deleted nobody runs. *)
LEMMA Quiet ==
  ASSUME Shape, Kept, writer # None
  PROVE  /\ ~gone
         /\ \A u \in Threads :
              /\ ~Running(u) /\ reach[u] = {}
              /\ pc[u] \in {"idle", "batch", "wrlock", "delete"}
              /\ ~Open(u) /\ Pending(u) = {} /\ ~Allocating(u)
<1>1. readers = 0 /\ IsFiniteSet(RunningThreads) /\ readers = Cardinality(RunningThreads)
  BY DEF Kept, ReadersRun, Shape, ReadersEnough, RunningThreads
<1>2. RunningThreads = {}
  BY <1>1, FS_EmptySet
<1>3. ASSUME NEW u \in Threads
      PROVE  /\ ~Running(u) /\ reach[u] = {}
             /\ pc[u] \in {"idle", "batch", "wrlock", "delete"}
  BY <1>2 DEF RunningThreads, Kept, AtRest, Running, Outside
<1>4. ASSUME NEW u \in Threads PROVE ~Open(u) /\ Pending(u) = {} /\ ~Allocating(u)
  BY <1>3 DEF Open, Pending, Allocating
<1>5. writer \in Threads /\ pc[writer] = "delete"
  BY DEF Shape, TypeOK, Kept, ReadersRun
<1>6. ~gone
  BY <1>5 DEF Kept, AtRest
<1> QED  BY <1>3, <1>4, <1>6

(* A thread that deletes has the write lock, and looks at an entry of the batch. *)
LEMMA Deleting ==
  ASSUME Shape, Kept, NEW t \in Threads, DeleteSegment(t)
  PROVE  /\ writer = t /\ writer # None /\ ~gone
         /\ loc[t].next \in 1 .. Len(toFree)
         /\ toFree[loc[t].next] \in Spots /\ toFree[loc[t].next] \in Elements(toFree)
<1>1. writer = t /\ writer # None
  BY NoneIsNobody DEF DeleteSegment, Kept, ReadersRun
<1>2. loc[t].next \in 1 .. Len(toFree)
  BY TypeFacts DEF DeleteSegment, Shape, Looping
<1>3. toFree[loc[t].next] \in Spots
  BY <1>2, ElementOfSeq DEF Shape, TypeOK
<1> QED  BY <1>1, <1>2, <1>3, Quiet DEF Elements

(* While somebody runs no batch is deleted and the region is there. *)
LEMMA Busy ==
  ASSUME Shape, Kept, NEW t \in Threads, Running(t)
  PROVE  ~gone /\ writer = None
  BY Quiet DEF Kept, AtRest, Running, Outside

LEMMA AtRestStep ==
  ASSUME Shape, Kept, Next, TypeOK'
  PROVE  AtRest'
<1> USE DEF AtRest, Running, Outside, Goto
<1>1. AtRest /\ TypeOK
  BY DEF Kept, Shape
<1>2. ASSUME NEW t \in Threads, TransactionCleanup(t), pc[t] # "idle", gone' = gone,
             Forget(t) \/ (~Running(t) /\ UNCHANGED reach)
      PROVE  AtRest'
  BY <1>1, <1>2 DEF TransactionCleanup, Forget, TypeOK
<1>3. ASSUME NEW t \in Threads, TmBegin(t) \/ TmBeginFails(t) \/ TmWrite(t) \/ TmAlloc(t)
      PROVE  AtRest'
  BY <1>1, <1>3 DEF TmBegin, TmBeginFails, TmWrite, TmAlloc, TypeOK, ghosts
<1>4. ASSUME NEW t \in Threads, TmEnd(t) \/ \E a \in Addresses(Spots) : TmFree(t, a)
      PROVE  AtRest'
  <2>1. CASE TmEnd(t)
    <3>1. ~gone' /\ tx' = tx
      BY <1>1, <2>1 DEF TmEnd
    <3>2. \A u \in Threads : ~Running(u)' => ~Running(u) /\ reach'[u] = reach[u] /\ pc'[u] = pc[u]
      BY <1>1, <2>1 DEF TmEnd, TypeOK
    <3>3. \A u \in Threads : pc'[u] = "idle" => pc[u] = "idle"
      BY <1>1, <2>1 DEF TmEnd, TypeOK
    <3> QED  BY <1>1, <3>1, <3>2, <3>3
  <2>2. ASSUME NEW a, TmFree(t, a) PROVE AtRest'
    BY <1>1, <2>2 DEF TmFree, TypeOK, ghosts
  <2> QED  BY <1>4, <2>1, <2>2
<1>5. ASSUME NEW t \in Threads, AllocStep(t) PROVE AtRest'
  BY <1>1, <1>5 DEF AllocStep, PopSpot, PopSpotEnd, NewSpot, SegmentInit, SegmentInitFails, PushSpot,
                    TypeOK, ghosts
<1>6. ASSUME NEW t \in Threads, AppendLock(t) \/ AppendFree(t) \/ RdUnlock(t) PROVE AtRest'
  BY <1>1, <1>6, ZenonT(40) DEF AppendLock, AppendFree, RdUnlock, Forget, TypeOK, ghosts
<1>7. ASSUME NEW t \in Threads, BatchFull(t) \/ WrLock(t) \/ DeleteSegment(t) PROVE AtRest'
  BY <1>1, <1>7 DEF BatchFull, WrLock, DeleteSegment, TypeOK, ghosts
<1>8. ASSUME TmDestroy \/ Stopped PROVE AtRest'
  BY <1>1, <1>8 DEF TmDestroy, Stopped, vars, tmVars, ghosts
<1>9. ASSUME NEW t \in Threads, Abort(t) \/ TmEndReadOnly(t) \/ BatchNotFull(t) \/ BatchDone(t)
      PROVE  AtRest'
  BY <1>2, <1>9 DEF Abort, TmEndReadOnly, BatchNotFull, BatchDone, ghosts
<1> QED  BY <1>3, <1>4, <1>5, <1>6, <1>7, <1>8, <1>9 DEF Next, Call, EndStep

LEMMA ReadersRunStep ==
  ASSUME Shape, Kept, NoMemory = {}, Next, TypeOK'
  PROVE  ReadersRun'
<1>1. /\ TypeOK /\ readers \in Nat /\ readers' \in Nat /\ IsFiniteSet(RunningThreads)
      /\ readers = Cardinality(RunningThreads)
  BY DEF Shape, Kept, TypeOK, ReadersEnough, ReadersRun, RunningThreads
<1>2. readers' = Cardinality(RunningThreads')
  <2>1. ASSUME NEW t, Entered(t) PROVE readers' = Cardinality(RunningThreads')
    BY <1>1, <2>1, Counted DEF Entered
  <2>2. ASSUME NEW t, Left(t) PROVE readers' = Cardinality(RunningThreads')
    BY <1>1, <2>2, Counted DEF Left
  <2> QED  BY <1>1, <2>1, <2>2, RunningStep
<1>3. WriterAlone'
  BY ShapeStep DEF Shape
<1> QED  BY <1>2, <1>3 DEF ReadersRun, WriterAlone, RunningThreads

LEMMA SpotsKnownStep ==
  ASSUME Shape, Kept, NoMemory = {}, Next, TypeOK'
  PROVE  SpotsKnown'
<1> USE DEF SpotsKnown, Goto
<1>1. /\ TypeOK /\ SpotsKnown /\ vaN \in Nat /\ va \in [Spots -> SegmentStates]
      /\ pc \in [Threads -> PCs] /\ loc \in [Threads -> Locals]
      /\ \A s \in Spots : s \in Int
      /\ \A s \in Elements(empty) : s < vaN
  <2>1. \A s \in Spots : s \in Int
    BY DEF Spots
  <2>2. vaN \in Nat
    BY ConstantsAssumption DEF Shape, TypeOK
  <2> QED  BY <2>1, <2>2 DEF Shape, Kept, TypeOK, SpotsDistinct, Locals
<1>2. ASSUME NEW t \in Threads, TransactionCleanup(t), UNCHANGED <<va, vaN, empty>>, gone' = gone
      PROVE  SpotsKnown'
  BY <1>1, <1>2 DEF TransactionCleanup
<1>3. ASSUME NEW t \in Threads,
             TmBegin(t) \/ TmBeginFails(t) \/ TmWrite(t) \/ TmAlloc(t) \/ TmEnd(t)
      PROVE  SpotsKnown'
  BY <1>1, <1>3 DEF TmBegin, TmBeginFails, TmWrite, TmAlloc, TmEnd, tmVars, ghosts
<1>4. ASSUME NEW t \in Threads, NEW a, TmFree(t, a) PROVE SpotsKnown'
  BY <1>1, <1>4 DEF TmFree, tmVars, ghosts
<1>5. ASSUME NEW t \in Threads, PopSpot(t) PROVE SpotsKnown'
  <2>1. /\ loc' = [loc EXCEPT ![t] = [loc[t] EXCEPT !.spot = Head(empty), !.list = empty]]
        /\ UNCHANGED <<va, vaN, empty, gone>> /\ pc'[t] = "unlink"
        /\ \A u \in Threads \ {t} : pc'[u] = pc[u] /\ loc'[u] = loc[u]
    BY <1>1, <1>5 DEF PopSpot, tmVars, ghosts
  <2>2. loc'[t].list = empty /\ loc'[t].spot = Head(empty)
    BY <1>1, <2>1 DEF Locals
  <2> QED  BY <1>1, <2>1, <2>2
<1>6. ASSUME NEW t \in Threads, PopSpotEnd(t) PROVE SpotsKnown'
  <2>1. empty \in Seq(Spots) /\ empty # <<>> /\ loc[t].list = empty /\ loc[t].spot = Head(empty)
    BY <1>6 DEF PopSpotEnd, Kept, Shape, TypeOK, Popping
  <2>2. loc[t].spot < vaN
    BY <1>1, <2>1, ElementsHeadTail
  <2>3. \A u \in Threads \ {t} : pc[u] # "unlink"
    BY <1>6 DEF PopSpotEnd, Shape, Popping
  <2> QED  BY <1>1, <1>6, <2>2, <2>3 DEF PopSpotEnd, ghosts
<1>7. ASSUME NEW t \in Threads, NewSpot(t) PROVE SpotsKnown'
  <2>1. loc'[t].spot = vaN
    BY <1>1, <1>7 DEF NewSpot, Locals
  <2>2. \A n \in Int : n < vaN => n < vaN + 1
    BY <1>1
  <2>3. \A u \in Threads : loc[u].spot \in Int
    BY <1>1, TypeFacts
  <2>4. \A u \in Threads \ {t} : pc'[u] = pc[u] /\ loc'[u] = loc[u] /\ pc[u] # "unlink"
    BY <1>1, <1>7 DEF NewSpot, Shape, Popping
  <2> QED  BY <1>1, <1>7, <2>1, <2>2, <2>3, <2>4 DEF NewSpot, ghosts
<1>8. ASSUME NEW t \in Threads, SegmentInit(t) PROVE SpotsKnown'
  <2>1. loc[t].spot \in Spots /\ loc[t].spot < vaN
    BY <1>8, TypeFacts DEF Kept, Shape, SegmentInit
  <2> QED  BY <1>1, <1>8, <2>1 DEF SegmentInit
<1>9. ASSUME NEW t \in Threads, SegmentInitFails(t) \/ PushSpot(t) PROVE SpotsKnown'
  BY <1>1, <1>9 DEF SegmentInitFails, PushSpot
<1>10. ASSUME NEW t \in Threads, AppendLock(t) \/ AppendFree(t) \/ RdUnlock(t) \/ BatchFull(t) \/ WrLock(t)
       PROVE  SpotsKnown'
  BY <1>1, <1>10 DEF AppendLock, AppendFree, RdUnlock, BatchFull, WrLock, tmVars, ghosts
<1>11. ASSUME NEW t \in Threads, DeleteSegment(t) PROVE SpotsKnown'
  <2>1. \A u \in Threads : pc[u] \notin {"push", "init", "unlink"}
    BY <1>11, Deleting, Quiet
  <2> QED  BY <1>1, <1>11, <2>1 DEF DeleteSegment
<1>12. ASSUME TmDestroy \/ Stopped PROVE SpotsKnown'
  <2>1. CASE TmDestroy
    BY <1>1, <2>1 DEF TmDestroy
  <2>2. CASE Stopped
    BY <1>1, <2>2 DEF Stopped, vars, tmVars, ghosts
  <2> QED  BY <1>12, <2>1, <2>2
<1> QED  BY <1>2, <1>3, <1>4, <1>5, <1>6, <1>7, <1>8, <1>9, <1>10, <1>11, <1>12
         DEF Next, Call, AllocStep, EndStep, Abort, TmEndReadOnly, BatchNotFull, BatchDone, tmVars, ghosts

LEMMA SpotsDistinctStep ==
  ASSUME Shape, Kept, NoMemory = {}, Next, TypeOK'
  PROVE  SpotsDistinct'
<1> USE DEF SpotsDistinct, Allocating, Goto
<1>1. /\ TypeOK /\ SpotsDistinct /\ SpotsKnown /\ vaN \in Nat /\ va \in [Spots -> SegmentStates]
      /\ pc \in [Threads -> PCs] /\ loc \in [Threads -> Locals] /\ empty \in Seq(Spots)
      /\ \A s \in Spots : s \in Int
      /\ \A t \in Threads : loc[t].spot \in Spots
      /\ \A s \in Elements(empty) : s \in Spots
  <2>1. TypeOK /\ SpotsDistinct /\ SpotsKnown
    BY DEF Shape, Kept
  <2>2. \A s \in Spots : s \in Int
    BY DEF Spots
  <2>3. /\ va \in [Spots -> SegmentStates] /\ pc \in [Threads -> PCs]
        /\ loc \in [Threads -> Locals] /\ empty \in Seq(Spots)
    BY <2>1 DEF TypeOK, Locals
  <2>6. vaN \in Nat
    BY <2>1, ConstantsAssumption DEF TypeOK
  <2>4. \A t \in Threads : loc[t].spot \in Spots
    BY <2>3 DEF Locals
  <2>5. \A s \in Elements(empty) : s \in Spots
    BY <2>3, ElementsType
  <2> QED  BY <2>1, <2>2, <2>3, <2>4, <2>5, <2>6
<1>2. ASSUME NEW t \in Threads, TransactionCleanup(t), UNCHANGED <<va, vaN, empty>>
      PROVE  SpotsDistinct'
  BY <1>1, <1>2 DEF TransactionCleanup
<1>3. ASSUME NEW t \in Threads,
             TmBegin(t) \/ TmBeginFails(t) \/ TmWrite(t) \/ TmAlloc(t) \/ TmEnd(t)
      PROVE  SpotsDistinct'
  <2>1. UNCHANGED <<va, vaN, empty, loc>>
    BY <1>3 DEF TmBegin, TmBeginFails, TmWrite, TmAlloc, TmEnd, tmVars
  <2>2. \A u \in Threads : pc'[u] \in {"init", "push"} => pc[u] = pc'[u]
    BY <1>1, <1>3 DEF TmBegin, TmBeginFails, TmWrite, TmAlloc, TmEnd
  <2> QED  BY <1>1, <2>1, <2>2
<1>4. ASSUME NEW t \in Threads, NEW a, TmFree(t, a) PROVE SpotsDistinct'
  BY <1>1, <1>4 DEF TmFree, tmVars, ghosts
<1>5. ASSUME NEW t \in Threads, PopSpot(t) PROVE SpotsDistinct'
  BY <1>1, <1>5 DEF PopSpot, tmVars, ghosts
<1>6. ASSUME NEW t \in Threads, PopSpotEnd(t) PROVE SpotsDistinct'
  <2>1. empty # <<>> /\ loc[t].list = empty /\ loc[t].spot = Head(empty) /\ empty' = Tail(empty)
    BY <1>6 DEF PopSpotEnd, Kept, Shape, TypeOK, Popping, SpotsKnown
  <2>2. /\ Head(empty) \in Elements(empty) /\ Elements(empty') \subseteq Elements(empty)
        /\ Head(empty) = empty[1] /\ Len(empty) \in Nat \ {0} /\ Len(empty') = Len(empty) - 1
        /\ \A i \in 1 .. Len(empty) - 1 : empty'[i] = empty[i + 1]
    BY <1>1, <2>1, ElementsHeadTail
  <2>3. \A i, j \in 1 .. Len(empty') : i # j => empty'[i] # empty'[j]
    <3>1. ASSUME NEW i \in 1 .. Len(empty'), NEW j \in 1 .. Len(empty'), i # j
          PROVE  empty'[i] # empty'[j]
      <4>1. /\ i + 1 \in 1 .. Len(empty) /\ j + 1 \in 1 .. Len(empty) /\ i + 1 # j + 1
            /\ empty'[i] = empty[i + 1] /\ empty'[j] = empty[j + 1]
        BY <2>2, <3>1
      <4> QED  BY <1>1, <4>1
    <3> QED  BY <3>1
  <2>4. Head(empty) \notin Elements(empty')
    <3>1. ASSUME NEW i \in 1 .. Len(empty') PROVE empty'[i] # Head(empty)
      <4>1. i + 1 \in 1 .. Len(empty) /\ 1 \in 1 .. Len(empty) /\ i + 1 # 1 /\ empty'[i] = empty[i + 1]
        BY <2>2, <3>1
      <4> QED  BY <1>1, <2>2, <4>1
    <3> QED  BY <3>1 DEF Elements
  <2> QED  BY <1>1, <1>6, <2>1, <2>2, <2>3, <2>4 DEF PopSpotEnd, ghosts
<1>7. ASSUME NEW t \in Threads, NewSpot(t) PROVE SpotsDistinct'
  <2>1. /\ loc'[t].spot = vaN /\ vaN \in Spots
        /\ \A u \in Threads \ {t} : pc'[u] = pc[u] /\ loc'[u] = loc[u]
    <3>1. loc'[t].spot = vaN /\ \A u \in Threads \ {t} : pc'[u] = pc[u] /\ loc'[u] = loc[u]
      BY <1>1, <1>7 DEF NewSpot, Locals
    <3> QED  BY <3>1, TypeFacts DEF TypeOK
  <2>2. va[vaN] # "live" /\ Elements(empty) = {}
    BY <1>1, <1>7, <2>1, ElementsEmpty DEF NewSpot, SpotsKnown
  <2>3. \A u \in Threads : pc[u] = "init" => loc[u].spot # vaN
    BY <1>1 DEF SpotsKnown
  <2>4. \A u \in Threads : pc[u] # "push"
    BY <1>1 DEF SpotsKnown
  <2> QED  BY <1>1, <1>7, <2>1, <2>2, <2>3, <2>4 DEF NewSpot
<1>8. ASSUME NEW t \in Threads, SegmentInit(t) PROVE SpotsDistinct'
  <2>1. /\ loc[t].spot \notin Elements(empty)
        /\ \A u \in Threads \ {t} : Allocating(u) => loc[u].spot # loc[t].spot
    BY <1>1, <1>8 DEF SegmentInit
  <2>2. \A s \in Spots \ {loc[t].spot} : va'[s] = va[s]
    BY <1>1, <1>8 DEF SegmentInit
  <2> QED  BY <1>1, <1>8, <2>1, <2>2 DEF SegmentInit
<1>9. ASSUME NEW t \in Threads, SegmentInitFails(t) \/ PushSpot(t) PROVE SpotsDistinct'
  BY <1>1, <1>9 DEF SegmentInitFails, PushSpot, SpotsKnown
<1>10. ASSUME NEW t \in Threads, AppendLock(t) \/ AppendFree(t) \/ RdUnlock(t) \/ BatchFull(t) \/ WrLock(t)
       PROVE  SpotsDistinct'
  BY <1>1, <1>10, ZenonT(40) DEF AppendLock, AppendFree, RdUnlock, BatchFull, WrLock, tmVars, ghosts
<1>11. ASSUME NEW t \in Threads, DeleteSegment(t) PROVE SpotsDistinct'
  <2> DEFINE s == toFree[loc[t].next]
  <2>1. /\ s \in Spots /\ va' = [va EXCEPT ![s] = "null"] /\ vaN' = vaN /\ pc' = pc
        /\ empty' = IF va[s] = "null" THEN empty ELSE <<s>> \o empty
        /\ ~gone
    BY <1>11, Deleting DEF DeleteSegment
  <2> HIDE DEF s
  <2>2. \A u \in Threads : ~Allocating(u)
    BY <1>11, Deleting, Quiet
  <2>3. CASE va[s] = "null"
    BY <1>1, <2>1, <2>2, <2>3
  <2>4. CASE va[s] # "null"
    <3>1. va[s] = "live" /\ s \notin Elements(empty) /\ s < vaN
      BY <1>1, <2>1, <2>4 DEF SpotsKnown
    <3>2. /\ Elements(empty') = Elements(empty) \cup {s}
          /\ Len(empty) \in Nat /\ Len(empty') = Len(empty) + 1
          /\ \A i \in 1 .. Len(empty) + 1 : empty'[i] = IF i = 1 THEN s ELSE empty[i - 1]
      BY <1>1, <2>1, <2>4, ElementsCons
    <3>3. ASSUME NEW i \in 1 .. Len(empty'), NEW j \in 1 .. Len(empty'), i # j
          PROVE  empty'[i] # empty'[j]
      <4>1. \A k \in 1 .. Len(empty) : empty[k] \in Elements(empty)
        BY DEF Elements
      <4>2. /\ i # 1 => i - 1 \in 1 .. Len(empty) /\ empty'[i] = empty[i - 1]
            /\ j # 1 => j - 1 \in 1 .. Len(empty) /\ empty'[j] = empty[j - 1]
            /\ i = 1 => empty'[i] = s
            /\ j = 1 => empty'[j] = s
            /\ i - 1 # j - 1
        BY <3>2, <3>3
      <4> QED  BY <1>1, <3>1, <3>3, <4>1, <4>2
    <3>4. \A r \in Elements(empty') : va'[r] # "live" /\ r < vaN'
      BY <1>1, <2>1, <3>1, <3>2
    <3> QED  BY <2>1, <2>2, <3>3, <3>4
  <2> QED  BY <2>3, <2>4
<1>12. ASSUME TmDestroy \/ Stopped PROVE SpotsDistinct'
  <2>1. CASE TmDestroy
    BY <1>1, <2>1, ElementsEmpty, EmptySeq DEF TmDestroy
  <2>2. CASE Stopped
    BY <1>1, <2>2 DEF Stopped, vars, tmVars
  <2> QED  BY <1>12, <2>1, <2>2
<1> QED  BY <1>2, <1>3, <1>4, <1>5, <1>6, <1>7, <1>8, <1>9, <1>10, <1>11, <1>12
         DEF Next, Call, AllocStep, EndStep, Abort, TmEndReadOnly, BatchNotFull, BatchDone, tmVars

(* What tm_end links is live, what it unlinks was linked or its own. *)
LEMMA EndEffect ==
  ASSUME Shape, Kept, NEW t \in Threads, TmEnd(t)
  PROVE  /\ ~gone /\ Open(t) /\ writer = None
         /\ linked' \subseteq linked \cup tx[t].mine
         /\ \A a \in linked \cup tx[t].mine : a \in Addresses(Spots) /\ va[IndexFromVa(a)] = "live"
         /\ \A s \in Elements(tx[t].toFree) :
              /\ s \in Spots /\ VaFromIndex(s) \in linked \cup tx[t].mine
              /\ VaFromIndex(s) \notin linked' /\ va[s] = "live"
<1>1. Open(t) /\ Running(t)
  BY DEF TmEnd, Open, Running, Outside
<1>2. ~gone /\ writer = None
  BY <1>1, Busy
<1>3. \A a \in linked \cup tx[t].mine : a \in Addresses(Spots) /\ va[IndexFromVa(a)] = "live"
  BY <1>1, <1>2, TypeFacts DEF Kept, LinkedLive, MineMine, Shape, TypeOK
<1>4. ASSUME NEW s \in Elements(tx[t].toFree)
      PROVE  /\ s \in Spots /\ VaFromIndex(s) \in linked \cup tx[t].mine
             /\ VaFromIndex(s) \notin linked' /\ va[s] = "live"
  <2>1. s \in Spots
    BY <1>4, TypeFacts, ElementsType DEF Shape
  <2>2. VaFromIndex(s) \in Addresses(Elements(tx[t].toFree))
    BY <1>4 DEF Addresses
  <2>3. VaFromIndex(s) \in linked \cup tx[t].mine /\ VaFromIndex(s) \notin linked'
    BY <2>2 DEF TmEnd
  <2> QED  BY <2>1, <2>3, <1>3, SpotAddress
<1> QED  BY <1>1, <1>2, <1>3, <1>4 DEF TmEnd

(* Only three actions change a spot of va_arr, and of these only DeleteSegment *)
(* takes a segment away while the region is there.                             *)
LEMMA VaStep ==
  ASSUME Shape, Kept, NoMemory = {}, Next
  PROVE  \/ va' = va
         \/ \E t \in Threads : SegmentInit(t) /\ va' = [va EXCEPT ![loc[t].spot] = "live"]
         \/ \E t \in Threads : DeleteSegment(t)
         \/ TmDestroy
  BY ZenonT(40) DEF Next, Call, AllocStep, EndStep, TmBegin, TmBeginFails, TmWrite, TmAlloc, TmEnd, Abort, TmFree,
         TmEndReadOnly, PopSpot, PopSpotEnd, NewSpot, SegmentInit, SegmentInitFails, PushSpot,
         AppendLock, AppendFree, RdUnlock, BatchFull, BatchNotFull, WrLock, BatchDone, Stopped,
         vars, tmVars

LEMMA LinkedStep ==
  ASSUME Next
  PROVE  linked' = linked \/ \E t \in Threads : TmEnd(t)
  BY DEF Next, Call, AllocStep, EndStep, TmBegin, TmBeginFails, TmWrite, TmAlloc, Abort, TmFree,
         TmEndReadOnly, PopSpot, PopSpotEnd, NewSpot, SegmentInit, SegmentInitFails, PushSpot,
         AppendLock, AppendFree, RdUnlock, BatchFull, BatchNotFull, WrLock, DeleteSegment, BatchDone,
         TmDestroy, Stopped, vars, ghosts

(* An address a transaction is given is linked or its own, or it had it. *)
LEMMA ReachStep ==
  ASSUME Shape, Kept, Next, TypeOK', NEW u \in Threads
  PROVE  \/ reach'[u] \subseteq reach[u] \cup linked \cup linked'
         \/ /\ SegmentInit(u) /\ reach'[u] = reach[u] \cup {VaFromIndex(loc[u].spot)}
            /\ linked' = linked
<1> USE DEF Shape, TypeOK, Forget
<1>1. ASSUME NEW t \in Threads, Call(t) PROVE reach'[u] \subseteq reach[u] \cup linked \cup linked'
  <2>1. CASE TmBegin(t) \/ Abort(t) \/ TmEndReadOnly(t)
    BY <2>1 DEF TmBegin, Abort, TmEndReadOnly
  <2>2. CASE TmEnd(t)
    BY <2>2 DEF TmEnd
  <2>3. CASE UNCHANGED reach
    BY <2>3
  <2> QED  BY <1>1, <2>1, <2>2, <2>3 DEF Call, TmBeginFails, TmWrite, TmAlloc, TmFree, ghosts
<1>2. ASSUME NEW t \in Threads, SegmentInit(t)
      PROVE  \/ reach'[u] = reach[u]
             \/ /\ SegmentInit(u) /\ reach'[u] = reach[u] \cup {VaFromIndex(loc[u].spot)}
                /\ linked' = linked
  BY <1>2 DEF SegmentInit
<1>3. ASSUME NEW t \in Threads, EndStep(t) PROVE reach'[u] \subseteq reach[u]
  BY <1>3 DEF EndStep, AppendLock, AppendFree, RdUnlock, BatchFull, BatchNotFull, WrLock, DeleteSegment,
              BatchDone, ghosts
<1>4. CASE UNCHANGED reach
  BY <1>4
<1> QED  BY <1>1, <1>2, <1>3, <1>4
         DEF Next, AllocStep, PopSpot, PopSpotEnd, NewSpot, SegmentInitFails, PushSpot, TmDestroy,
             Stopped, vars, ghosts

LEMMA LinkedLiveStep ==
  ASSUME Shape, Kept, NoMemory = {}, Next, TypeOK'
  PROVE  LinkedLive'
<1> SUFFICES ASSUME ~gone'
             PROVE  /\ \A a \in linked' : va'[IndexFromVa(a)] = "live"
                    /\ \A t \in Threads : \A a \in reach'[t] : va'[IndexFromVa(a)] = "live"
  BY DEF LinkedLive
<1>1. /\ TypeOK /\ va \in [Spots -> SegmentStates]
      /\ linked \subseteq Addresses(Spots) /\ linked' \subseteq Addresses(Spots)
      /\ \A t \in Threads : reach[t] \subseteq Addresses(Spots)
  BY DEF Shape, TypeOK
<1>2. ~gone
  BY ZenonT(40) DEF Next, Call, AllocStep, EndStep, TmBegin, TmBeginFails, TmWrite, TmAlloc, TmEnd, Abort, TmFree,
         TmEndReadOnly, PopSpot, PopSpotEnd, NewSpot, SegmentInit, SegmentInitFails, PushSpot,
         AppendLock, AppendFree, RdUnlock, BatchFull, BatchNotFull, WrLock, DeleteSegment, BatchDone,
         TmDestroy, Stopped, vars, ghosts
<1>3. /\ \A a \in linked : va[IndexFromVa(a)] = "live"
      /\ \A t \in Threads : \A a \in reach[t] : va[IndexFromVa(a)] = "live"
  BY <1>2 DEF Kept, LinkedLive
<1>4. \A a \in linked' : va[IndexFromVa(a)] = "live"
  BY <1>3, LinkedStep, EndEffect
<1>5. ASSUME NEW t \in Threads, NEW a \in reach'[t]
      PROVE  va[IndexFromVa(a)] = "live" \/ (SegmentInit(t) /\ a = VaFromIndex(loc[t].spot))
  <2>1. reach'[t] \subseteq reach[t] \cup linked \cup linked' =>
          a \in reach[t] \/ a \in linked \/ a \in linked'
    BY <1>5
  <2> QED  BY <1>3, <1>4, <1>5, <2>1, ReachStep
<1>6. CASE va' = va
  <2>1. ASSUME NEW t \in Threads, SegmentInit(t) PROVE va'[loc[t].spot] # va[loc[t].spot]
    BY <1>1, <2>1, TypeFacts DEF SegmentInit, Kept, SpotsDistinct, Allocating
  <2> QED  BY <1>4, <1>5, <1>6, <2>1
<1>7. ASSUME NEW t \in Threads, SegmentInit(t), va' = [va EXCEPT ![loc[t].spot] = "live"]
      PROVE  /\ \A a \in linked' : va'[IndexFromVa(a)] = "live"
             /\ \A u \in Threads : \A a \in reach'[u] : va'[IndexFromVa(a)] = "live"
  <2>1. \A s \in Spots : va[s] = "live" => va'[s] = "live"
    BY <1>1, <1>7
  <2>2. loc[t].spot \in Spots /\ va'[loc[t].spot] = "live"
    BY <1>1, <1>7, TypeFacts
  <2>3. \A u \in Threads \ {t} : ~SegmentInit(u) \/ loc[u].spot = loc[t].spot \/ reach'[u] = reach[u]
    BY <1>1, <1>7 DEF SegmentInit, TypeOK
  <2>4. \A a \in linked' : IndexFromVa(a) \in Spots
    BY <1>1, AddressSpot
  <2>5. \A u \in Threads : \A a \in reach'[u] : IndexFromVa(a) \in Spots
    BY AddressSpot DEF TypeOK
  <2>6. \A a \in reach'[t] : va'[IndexFromVa(a)] = "live"
    BY <1>5, <2>1, <2>2, <2>5, SpotAddress
  <2>7. \A u \in Threads \ {t} : reach'[u] = reach[u]
    BY <1>1, <1>7 DEF SegmentInit, TypeOK
  <2> QED  BY <1>3, <1>4, <2>1, <2>4, <2>5, <2>6, <2>7
<1>8. ASSUME NEW t \in Threads, DeleteSegment(t)
      PROVE  /\ \A a \in linked' : va'[IndexFromVa(a)] = "live"
             /\ \A u \in Threads : \A a \in reach'[u] : va'[IndexFromVa(a)] = "live"
  <2> DEFINE s == toFree[loc[t].next]
  <2>1. /\ s \in Spots /\ s \in Elements(toFree) /\ va' = [va EXCEPT ![s] = "null"]
        /\ linked' = linked /\ reach' = reach
    BY <1>8, Deleting DEF DeleteSegment
  <2> HIDE DEF s
  <2>2. \A u \in Threads : reach'[u] = {}
    BY <1>8, <2>1, Deleting, Quiet
  <2>3. VaFromIndex(s) \notin linked
    BY <2>1 DEF Kept, Doomed
  <2>4. ASSUME NEW a \in linked PROVE va'[IndexFromVa(a)] = "live"
    <3>1. IndexFromVa(a) \in Spots /\ IndexFromVa(a) # s
      BY <1>1, <2>3, <2>4, AddressSpot
    <3> QED  BY <1>1, <1>3, <2>1, <2>4, <3>1
  <2> QED  BY <2>1, <2>2, <2>4
<1>9. ~TmDestroy
  BY DEF TmDestroy
<1> QED  BY <1>6, <1>7, <1>8, <1>9, VaStep

(* The frees of a transaction that has written back come from tm_end, and go *)
(* to the batch one by one.                                                  *)
LEMMA PendingStep ==
  ASSUME Shape, Kept, Next, TypeOK', NEW u \in Threads
  PROVE  /\ \/ Pending(u)' \subseteq Pending(u)
            \/ (TmEnd(u) /\ Pending(u)' \subseteq Elements(tx[u].toFree))
         /\ \/ Elements(toFree') \subseteq Elements(toFree)
            \/ \E t \in Threads : /\ AppendFree(t)
                                  /\ Elements(toFree') \subseteq Elements(toFree) \cup Pending(t)
<1> USE DEF Pending, Goto
<1>1. /\ TypeOK /\ pc \in [Threads -> PCs] /\ tx \in [Threads -> Transaction] /\ toFree \in Seq(Spots)
  BY DEF Shape, TypeOK, Transaction
<1>2. ASSUME NEW t \in Threads, TransactionCleanup(t)
      PROVE  Pending(u)' \subseteq Pending(u)
  BY <1>1, <1>2 DEF TransactionCleanup
<1>3. ASSUME NEW t \in Threads, TmEnd(t)
      PROVE  /\ Pending(u)' \subseteq Pending(u) \/ (TmEnd(u) /\ Pending(u)' \subseteq Elements(tx[u].toFree))
             /\ toFree' = toFree
  BY <1>1, <1>3 DEF TmEnd, tmVars
<1>4. ASSUME NEW t \in Threads, AppendFree(t)
      PROVE  /\ Pending(u)' \subseteq Pending(u)
             /\ Elements(toFree') \subseteq Elements(toFree) \cup Pending(t)
  <2> DEFINE q == tx[t].toFree
  <2>1. q \in Seq(Spots) /\ q # <<>> /\ pc[t] = "appending"
    BY <1>4, TypeFacts DEF AppendFree, Shape, Appending
  <2>2. Head(q) \in Spots /\ Elements(q) = Elements(Tail(q)) \cup {Head(q)}
    BY <2>1, ElementsHeadTail
  <2>3. tx'[t].toFree = Tail(q) /\ \A v \in Threads \ {t} : tx'[v] = tx[v] /\ pc'[v] = pc[v]
    BY <1>1, <1>4 DEF AppendFree, Transaction
  <2>4. Elements(toFree') = Elements(toFree) \cup {Head(q)}
    BY <1>1, <1>4, <2>2, ElementsAppend DEF AppendFree
  <2> HIDE DEF q
  <2>5. Pending(t) = Elements(q) /\ Pending(t)' \subseteq Elements(Tail(q))
    BY <2>1, <2>3 DEF q
  <2>6. u # t => Pending(u)' = Pending(u)
    BY <2>3
  <2> QED  BY <2>2, <2>4, <2>5, <2>6
<1>5. ASSUME NEW t \in Threads,
             \/ TmBegin(t) \/ TmBeginFails(t) \/ TmAlloc(t) \/ AllocStep(t) \/ AppendLock(t)
             \/ RdUnlock(t) \/ BatchFull(t) \/ WrLock(t) \/ DeleteSegment(t)
      PROVE  Pending(u)' \subseteq Pending(u) /\ toFree' = toFree
  <2>1. toFree' = toFree
    BY <1>5 DEF TmBegin, TmBeginFails, TmAlloc, AllocStep, PopSpot, PopSpotEnd, NewSpot, SegmentInit,
                SegmentInitFails, PushSpot, AppendLock, RdUnlock, BatchFull, WrLock, DeleteSegment, tmVars
  <2>2. pc'[u] \in {"append", "appending"} => tx'[u] = tx[u] /\ pc[u] \in {"append", "appending"}
    BY <1>1, <1>5
       DEF TmBegin, TmBeginFails, TmAlloc, AllocStep, PopSpot, PopSpotEnd, NewSpot, SegmentInit,
           SegmentInitFails, PushSpot, AppendLock, RdUnlock, BatchFull, WrLock, DeleteSegment
  <2> QED  BY <2>1, <2>2
<1>6. ASSUME NEW t \in Threads, TmWrite(t) \/ \E a \in Addresses(Spots) : TmFree(t, a)
      PROVE  Pending(u)' \subseteq Pending(u) /\ toFree' = toFree
  <2>1. toFree' = toFree /\ pc' = pc /\ pc[t] = "ready" /\ \A v \in Threads \ {t} : tx'[v] = tx[v]
    BY <1>1, <1>6 DEF TmWrite, TmFree, tmVars
  <2> QED  BY <2>1
<1>7. ASSUME TmDestroy \/ Stopped
      PROVE  Pending(u)' \subseteq Pending(u) /\ (toFree' = toFree \/ toFree' = <<>>)
  BY <1>7 DEF TmDestroy, Stopped, vars, tmVars
<1>8. ASSUME NEW t \in Threads, Abort(t) \/ TmEndReadOnly(t) \/ BatchNotFull(t) \/ BatchDone(t)
      PROVE  Pending(u)' \subseteq Pending(u) /\ (toFree' = toFree \/ toFree' = <<>>)
  BY <1>2, <1>8 DEF Abort, TmEndReadOnly, BatchNotFull, BatchDone, tmVars
<1> QED  BY <1>3, <1>4, <1>5, <1>6, <1>7, <1>8, ElementsEmpty DEF Next, Call, EndStep

LEMMA BatchStep ==
  ASSUME Shape, Kept, Next, TypeOK'
  PROVE  \/ Elements(toFree') \subseteq Elements(toFree)
         \/ \E t \in Threads : AppendFree(t) /\ Elements(toFree') \subseteq Elements(toFree) \cup Pending(t)
<1>1. CASE \E u \in Threads : TRUE
  BY <1>1, PendingStep
<1>2. CASE ~ \E u \in Threads : TRUE
  BY <1>2, ElementsEmpty DEF Next, TmDestroy, Stopped, vars, tmVars
<1> QED  BY <1>1, <1>2

LEMMA DoomedStep ==
  ASSUME Shape, Kept, NoMemory = {}, Next, TypeOK'
  PROVE  Doomed'
<1>1. /\ TypeOK /\ va \in [Spots -> SegmentStates] /\ toFree \in Seq(Spots)
      /\ Elements(toFree) \subseteq Spots /\ Doomed /\ MineMine
  BY ElementsType DEF Shape, Kept, TypeOK
<1>2. \A t \in Threads : Pending(t) \subseteq Spots
  BY TypeFacts, ElementsType DEF Shape, Pending
(* What was unlinked stays so: what tm_end links is not freed. *)
<1>3. ASSUME NEW s \in Spots, VaFromIndex(s) \notin linked,
             s \in Elements(toFree) \/ \E t \in Threads : s \in Pending(t)
      PROVE  VaFromIndex(s) \notin linked'
  <2>1. ASSUME NEW t \in Threads, TmEnd(t) PROVE VaFromIndex(s) \notin linked'
    <3>1. linked' \subseteq linked \cup tx[t].mine /\ Open(t) /\ tx[t].mine \subseteq Addresses(Spots)
      BY <2>1, EndEffect, TypeFacts DEF Shape
    <3>2. IndexFromVa(VaFromIndex(s)) = s
      BY SpotAddress
    <3> QED  BY <1>1, <1>3, <3>1, <3>2 DEF MineMine
  <2> QED  BY <1>3, <2>1, LinkedStep
(* What was live stays so, unless a batch is deleted or the region destroyed. *)
<1>4. ASSUME NEW s \in Spots, va[s] = "live"
      PROVE  va'[s] = "live" \/ (\E t \in Threads : DeleteSegment(t)) \/ TmDestroy
  BY <1>1, <1>4, TypeFacts, VaStep
<1>5. ASSUME NEW t \in Threads, NEW s \in Pending(t)' PROVE VaFromIndex(s) \notin linked' /\ va'[s] = "live"
  <2>1. CASE s \in Pending(t)
    <3>1. Running(t)
      BY <2>1 DEF Pending, Running, Outside
    <3>2. ~TmDestroy /\ \A u \in Threads : ~DeleteSegment(u)
      BY <3>1, Busy, Deleting DEF TmDestroy, Running, Outside
    <3> QED  BY <1>1, <1>2, <1>3, <1>4, <2>1, <3>2 DEF Doomed
  <2>2. CASE TmEnd(t) /\ s \in Elements(tx[t].toFree)
    BY <2>2, EndEffect DEF TmEnd, tmVars
  <2> QED  BY <1>5, <2>1, <2>2, PendingStep
<1>6. ASSUME NEW s \in Elements(toFree')
      PROVE  VaFromIndex(s) \notin linked' /\ (writer' = None => va'[s] = "live")
  <2>1. CASE s \in Elements(toFree)
    <3>1. VaFromIndex(s) \notin linked'
      BY <1>1, <1>3, <2>1 DEF Doomed
    <3>2. ASSUME NEW t \in Threads, DeleteSegment(t) PROVE writer' # None
      BY <3>2, Deleting DEF DeleteSegment
    <3>3. ~TmDestroy
      BY <1>6, ElementsEmpty DEF TmDestroy
    <3>4. ASSUME writer # None PROVE writer' # None
      <4>1. writer' = writer \/ \E t \in Threads : BatchDone(t) \/ WrLock(t)
        BY DEF Next, Call, AllocStep, EndStep, TmBegin, TmBeginFails, TmWrite, TmAlloc, TmEnd, Abort,
               TmFree, TmEndReadOnly, PopSpot, PopSpotEnd, NewSpot, SegmentInit, SegmentInitFails,
               PushSpot, AppendLock, AppendFree, RdUnlock, BatchFull, BatchNotFull, DeleteSegment,
               TmDestroy, Stopped, vars, tmVars
      <4>2. \A t \in Threads : ~BatchDone(t) /\ ~WrLock(t)
        BY <1>6, <3>4, ElementsEmpty DEF BatchDone, WrLock
      <4> QED  BY <3>4, <4>1, <4>2
    <3> QED  BY <1>1, <1>4, <2>1, <3>1, <3>2, <3>3, <3>4 DEF Doomed
  <2>2. ASSUME NEW t \in Threads, AppendFree(t), s \in Pending(t)
        PROVE  VaFromIndex(s) \notin linked' /\ va'[s] = "live"
    BY <1>1, <1>2, <1>3, <2>2 DEF Doomed, AppendFree, ghosts
  <2> QED  BY <1>6, <2>1, <2>2, BatchStep
<1> QED  BY <1>5, <1>6 DEF Doomed

(* What a transaction calls its own it had, or has just been given. *)
LEMMA MineStep ==
  ASSUME Shape, Kept, NoMemory = {}, Next, TypeOK', NEW u \in Threads, Open(u)', NEW a \in tx'[u].mine
  PROVE  \/ Open(u) /\ a \in tx[u].mine
         \/ SegmentInit(u) /\ a = VaFromIndex(loc[u].spot)
<1> USE DEF Open, Goto
<1>1. /\ pc \in [Threads -> PCs] /\ tx \in [Threads -> Transaction]
      /\ \A t \in Threads : pc[t] = "idle" => tx[t].mine = {}
      /\ \A t \in Threads : pc[t] # "push"
  <2>1. \A t \in Threads : pc[t] = "idle" => tx[t].mine = {}
    BY DEF Kept, AtRest, NoTx
  <2> QED  BY <2>1 DEF Shape, Kept, TypeOK, Transaction, SpotsKnown
<1>2. ASSUME NEW t \in Threads, TransactionCleanup(t) PROVE Open(u) /\ a \in tx[u].mine
  BY <1>1, <1>2 DEF TransactionCleanup
<1>3. ASSUME NEW t \in Threads, TmBegin(t) \/ TmBeginFails(t) \/ TmAlloc(t) \/ TmEnd(t)
      PROVE  Open(u) /\ a \in tx[u].mine
  BY <1>1, <1>3 DEF TmBegin, TmBeginFails, TmAlloc, TmEnd
<1>4. ASSUME NEW t \in Threads, TmWrite(t) \/ \E b \in Addresses(Spots) : TmFree(t, b)
      PROVE  Open(u) /\ a \in tx[u].mine
  <2>1. pc' = pc /\ tx'[t].mine = tx[t].mine /\ \A v \in Threads \ {t} : tx'[v] = tx[v]
    BY <1>1, <1>4 DEF TmWrite, TmFree, Transaction
  <2> QED  BY <2>1
<1>5. ASSUME NEW t \in Threads, SegmentInit(t)
      PROVE  \/ Open(u) /\ a \in tx[u].mine
             \/ SegmentInit(u) /\ a = VaFromIndex(loc[u].spot)
  <2>1. /\ tx'[t].mine = tx[t].mine \cup {VaFromIndex(loc[t].spot)} /\ pc[t] = "init"
        /\ \A v \in Threads \ {t} : tx'[v] = tx[v] /\ pc'[v] = pc[v]
    BY <1>1, <1>5 DEF SegmentInit, Transaction
  <2> QED  BY <1>5, <2>1
<1>6. ASSUME NEW t \in Threads,
             PopSpot(t) \/ PopSpotEnd(t) \/ NewSpot(t) \/ SegmentInitFails(t) \/ PushSpot(t)
      PROVE  Open(u) /\ a \in tx[u].mine
  BY <1>1, <1>6 DEF PopSpot, PopSpotEnd, NewSpot, SegmentInitFails, PushSpot
<1>7. ASSUME NEW t \in Threads,
             AppendLock(t) \/ AppendFree(t) \/ RdUnlock(t) \/ BatchFull(t) \/ WrLock(t) \/ DeleteSegment(t)
      PROVE  Open(u) /\ a \in tx[u].mine
  BY <1>1, <1>7 DEF AppendLock, AppendFree, RdUnlock, BatchFull, WrLock, DeleteSegment
<1>8. ASSUME TmDestroy \/ Stopped PROVE Open(u) /\ a \in tx[u].mine
  BY <1>8 DEF TmDestroy, Stopped, vars
<1> QED  BY <1>2, <1>3, <1>4, <1>5, <1>6, <1>7, <1>8
         DEF Next, Call, AllocStep, EndStep, Abort, TmEndReadOnly, BatchNotFull, BatchDone

LEMMA MineMineStep ==
  ASSUME Shape, Kept, NoMemory = {}, Next, TypeOK'
  PROVE  MineMine'
<1> SUFFICES ASSUME NEW t \in Threads, Open(t)', NEW a \in tx'[t].mine
             PROVE  /\ va'[IndexFromVa(a)] = "live"
                    /\ a \notin linked'
                    /\ IndexFromVa(a) \notin Elements(toFree')
                    /\ \A u \in Threads : IndexFromVa(a) \notin Pending(u)'
                    /\ \A u \in Threads : u # t /\ Open(u)' => a \notin tx'[u].mine
  BY DEF MineMine
<1> DEFINE s == IndexFromVa(a)
<1>1. /\ TypeOK /\ MineMine /\ Doomed /\ va \in [Spots -> SegmentStates]
      /\ \A b \in linked : b \in Addresses(Spots)
      /\ \A u \in Threads : tx[u].mine \subseteq Addresses(Spots) /\ loc[u].spot \in Spots
  BY TypeFacts DEF Shape, Kept, TypeOK
<1>2. s \in Spots /\ a = VaFromIndex(s)
  BY AddressSpot, TypeFacts DEF TypeOK
(* The address is new, or was its own before. *)
<1>3. CASE SegmentInit(t) /\ a = VaFromIndex(loc[t].spot)
  <2>1. s = loc[t].spot
    BY <1>1, <1>3, SpotAddress
  <2>2. va[s] # "live" /\ va'[s] = "live" /\ UNCHANGED <<linked, toFree>>
    BY <1>1, <1>2, <1>3, <2>1 DEF SegmentInit, Kept, SpotsDistinct, Allocating
  <2>3. ~gone /\ writer = None
    BY <1>3, Busy DEF SegmentInit, Running, Outside
  <2>4. a \notin linked
    BY <2>2, <2>3 DEF Kept, LinkedLive
  <2>5. s \notin Elements(toFree) /\ \A u \in Threads : s \notin Pending(u)
    BY <1>1, <2>2, <2>3 DEF Doomed
  <2>6. \A u \in Threads : Pending(u)' \subseteq Pending(u)
    <3>1. \A u \in Threads : ~TmEnd(u) \/ u # t
      BY <1>3 DEF SegmentInit, TmEnd
    <3>2. tx \in [Threads -> Transaction] /\ pc \in [Threads -> PCs]
      BY DEF Shape, TypeOK, Transaction
    <3> QED  BY <1>3, <3>2 DEF SegmentInit, Pending, Goto
  <2>7. ASSUME NEW u \in Threads, u # t, Open(u)', a \in tx'[u].mine PROVE FALSE
    <3>1. SegmentInit(u) => loc[u].spot # s
      BY <1>3, <2>1, <2>7 DEF SegmentInit, Kept, SpotsDistinct, Allocating
    <3>2. SegmentInit(u) => a # VaFromIndex(loc[u].spot)
      BY <1>1, <3>1, SpotAddress
    <3>3. Open(u) /\ a \in tx[u].mine
      BY <2>7, <3>2, MineStep
    <3> QED  BY <1>1, <2>2, <3>3 DEF MineMine
  <2> QED  BY <2>2, <2>4, <2>5, <2>6, <2>7
<1>4. CASE Open(t) /\ a \in tx[t].mine
  <2>1. /\ va[s] = "live" /\ a \notin linked /\ s \notin Elements(toFree)
        /\ \A u \in Threads : s \notin Pending(u)
        /\ \A u \in Threads : u # t /\ Open(u) => a \notin tx[u].mine
    BY <1>1, <1>4 DEF MineMine
  <2>2. ~gone /\ writer = None /\ Running(t)
    BY <1>4, Busy DEF Open, Running, Outside
  <2>3. va'[s] = "live"
    <3>1. ~TmDestroy /\ \A u \in Threads : ~DeleteSegment(u)
      BY <2>2, Deleting DEF TmDestroy, Running, Outside
    <3> QED  BY <1>1, <1>2, <2>1, <3>1, VaStep
  <2>4. ASSUME NEW u \in Threads, TmEnd(u) PROVE u # t /\ Open(u) /\ a \notin linked \cup tx[u].mine
    <3>1. u # t
      BY <2>4, TypeFacts DEF TmEnd, Goto, Open, Shape, TypeOK
    <3> QED  BY <2>1, <2>4, <3>1, EndEffect
  <2>5. a \notin linked'
    BY <2>1, <2>4, LinkedStep, EndEffect
  <2>6. ASSUME NEW u \in Threads PROVE s \notin Pending(u)'
    BY <1>2, <2>1, <2>4, PendingStep, EndEffect
  <2>7. s \notin Elements(toFree')
    BY <2>1, BatchStep
  <2>8. ASSUME NEW u \in Threads, u # t, Open(u)', a \in tx'[u].mine PROVE FALSE
    <3>1. SegmentInit(u) /\ a = VaFromIndex(loc[u].spot)
      BY <2>1, <2>8, MineStep
    <3>2. s = loc[u].spot /\ va[s] # "live"
      BY <1>1, <3>1, SpotAddress DEF SegmentInit, Kept, SpotsDistinct, Allocating
    <3> QED  BY <2>1, <3>2
  <2> QED  BY <2>3, <2>5, <2>6, <2>7, <2>8
<1> QED  BY <1>3, <1>4, MineStep

LEMMA KeptStep ==
  ASSUME Shape, Kept, NoMemory = {}, [Next]_vars
  PROVE  Kept'
<1>1. CASE Next
  <2>1. TypeOK'
    BY ShapeStep DEF Shape
  <2> QED  BY <1>1, <2>1, AtRestStep, ReadersRunStep, SpotsKnownStep, SpotsDistinctStep, LinkedLiveStep,
              MineMineStep, DoomedStep DEF Kept
<1>2. CASE UNCHANGED vars
  BY <1>2 DEF vars, tmVars, ghosts, Kept, AtRest, ReadersRun, SpotsKnown, SpotsDistinct, LinkedLive,
              MineMine, Doomed, Running, Open, Pending, Allocating
<1> QED  BY <1>1, <1>2

LEMMA KeptAlways ==
  ASSUME NoMemory = {}
  PROVE  Spec => [](Shape /\ Kept)
<1>1. Init => Shape /\ Kept
  BY ShapeInit, KeptInit
<1>2. Shape /\ Kept /\ [Next]_vars => (Shape /\ Kept)'
  BY ShapeStep, KeptStep
<1> QED  BY <1>1, <1>2, PTL DEF Spec

-----------------------------------------------------------------------------
(* Returned: the frees of committed transactions.                          *)

(* FreesKept, segment by segment. *)
LEMMA FreesKeptMeans ==
  FreesKept <=> (~gone => \A s \in freed : s \in Elements(toFree) \/ \E t \in Threads : s \in Pending(t))
<1>1. UNION {Elements(tx[t].toFree) : t \in {u \in Threads : pc[u] \in {"append", "appending"}}}
        = UNION {Pending(t) : t \in Threads}
  BY DEF Pending
<1> QED  BY <1>1 DEF FreesKept

LEMMA ReturnedInit ==
  ASSUME Init
  PROVE  Returned
  BY FreesKeptMeans DEF Init, Returned, Deleted

(* What is on its way to the batch stays on it or gets there. *)
LEMMA KeepsStep ==
  ASSUME Shape, Kept, FreesWrite, Next, TypeOK', ~gone',
         \A t \in Threads : ~DeleteSegment(t) /\ ~BatchDone(t)
  PROVE  /\ \A s \in freed' : s \in freed \/ \E t \in Threads : s \in Pending(t)'
         /\ Elements(toFree) \subseteq Elements(toFree')
         /\ \A t \in Threads : Pending(t) \subseteq Pending(t)' \cup Elements(toFree')
<1> USE DEF Pending, Goto
<1> DEFINE Concl == /\ \A s \in freed' : s \in freed \/ \E t \in Threads : s \in Pending(t)'
                    /\ Elements(toFree) \subseteq Elements(toFree')
                    /\ \A t \in Threads : Pending(t) \subseteq Pending(t)' \cup Elements(toFree')
<1>1. /\ TypeOK /\ pc \in [Threads -> PCs] /\ tx \in [Threads -> Transaction] /\ toFree \in Seq(Spots)
  BY DEF Shape, TypeOK, Transaction
<1>2. ASSUME NEW t \in Threads, TransactionCleanup(t), pc[t] \notin {"append", "appending"},
             freed' = freed, toFree' = toFree
      PROVE  Concl
  BY <1>1, <1>2 DEF TransactionCleanup
<1>3. ASSUME NEW t \in Threads, TmEndReadOnly(t) PROVE Concl
  <2>1. freed' = freed /\ toFree' = toFree
    BY <1>3, ElementsEmpty DEF TmEndReadOnly, Unlinked
  <2> QED  BY <1>2, <1>3, <2>1 DEF TmEndReadOnly
<1>4. ASSUME NEW t \in Threads, TmEnd(t) PROVE Concl
  <2>1. /\ freed' = freed \cup Elements(tx[t].toFree) /\ toFree' = toFree /\ tx' = tx
        /\ pc[t] = "ready" /\ pc'[t] = IF tx[t].toFree = <<>> THEN "rdunlock" ELSE "append"
        /\ \A u \in Threads \ {t} : pc'[u] = pc[u]
    BY <1>1, <1>4 DEF TmEnd, tmVars
  <2>2. Elements(tx[t].toFree) = Pending(t)'
    BY <2>1, ElementsEmpty
  <2>3. \A u \in Threads : Pending(u) \subseteq Pending(u)'
    BY <2>1
  <2> QED  BY <2>1, <2>2, <2>3
<1>5. ASSUME NEW t \in Threads, AppendFree(t) PROVE Concl
  <2> DEFINE q == tx[t].toFree
  <2>1. q \in Seq(Spots) /\ q # <<>> /\ pc[t] = "appending" /\ freed' = freed
    BY <1>5, TypeFacts DEF AppendFree, Shape, Appending, ghosts
  <2>2. /\ Head(q) \in Spots /\ Elements(q) = Elements(Tail(q)) \cup {Head(q)}
        /\ Len(Tail(q)) = Len(q) - 1 /\ Len(q) \in Nat \ {0} /\ Tail(q) \in Seq(Spots)
    BY <2>1, ElementsHeadTail
  <2>3. tx'[t].toFree = Tail(q) /\ \A v \in Threads \ {t} : tx'[v] = tx[v] /\ pc'[v] = pc[v]
    BY <1>1, <1>5 DEF AppendFree, Transaction
  <2>4. Elements(toFree') = Elements(toFree) \cup {Head(q)}
    BY <1>1, <1>5, <2>2, ElementsAppend DEF AppendFree
  <2>5. pc'[t] = "appending" \/ Len(q) = 1
    BY <1>1, <1>5, <2>1 DEF AppendFree
  <2> HIDE DEF q
  <2>6. Len(q) = 1 => Elements(Tail(q)) = {}
    <3>1. Len(q) = 1 => Len(Tail(q)) = 0
      BY <2>2
    <3>2. Len(q) = 1 => Tail(q) = <<>>
      BY <2>2, <3>1, EmptySeq
    <3> QED  BY <3>2, ElementsEmpty
  <2>7. Pending(t) = Elements(q) /\ Elements(Tail(q)) \subseteq Pending(t)'
    BY <2>1, <2>3, <2>5, <2>6 DEF q
  <2>8. \A u \in Threads \ {t} : Pending(u)' = Pending(u)
    BY <2>3
  <2> QED  BY <2>1, <2>2, <2>4, <2>7, <2>8
<1>6. ASSUME NEW t \in Threads,
             \/ TmBegin(t) \/ TmBeginFails(t) \/ TmAlloc(t) \/ AllocStep(t) \/ AppendLock(t)
             \/ RdUnlock(t) \/ BatchFull(t) \/ WrLock(t)
      PROVE  Concl
  <2>1. freed' = freed /\ toFree' = toFree
    BY <1>6 DEF TmBegin, TmBeginFails, TmAlloc, AllocStep, PopSpot, PopSpotEnd, NewSpot, SegmentInit,
                SegmentInitFails, PushSpot, AppendLock, RdUnlock, BatchFull, WrLock, tmVars, ghosts
  <2>2. \A u \in Threads : pc[u] \in {"append", "appending"} =>
          tx'[u] = tx[u] /\ pc'[u] \in {"append", "appending"}
    BY <1>1, <1>6
       DEF TmBegin, TmBeginFails, TmAlloc, AllocStep, PopSpot, PopSpotEnd, NewSpot, SegmentInit,
           SegmentInitFails, PushSpot, AppendLock, RdUnlock, BatchFull, WrLock
  <2> QED  BY <2>1, <2>2
<1>7. ASSUME NEW t \in Threads, TmWrite(t) \/ \E a \in Addresses(Spots) : TmFree(t, a) PROVE Concl
  <2>1. /\ toFree' = toFree /\ freed' = freed /\ pc' = pc /\ pc[t] = "ready"
        /\ \A v \in Threads \ {t} : tx'[v] = tx[v]
    BY <1>1, <1>7 DEF TmWrite, TmFree, tmVars, ghosts
  <2> QED  BY <2>1
<1>8. ASSUME Stopped PROVE Concl
  BY <1>8 DEF Stopped, vars, tmVars, ghosts
<1>9. ~TmDestroy
  BY DEF TmDestroy
<1>10. ASSUME NEW t \in Threads, Abort(t) \/ BatchNotFull(t) PROVE Concl
  BY <1>2, <1>10 DEF Abort, BatchNotFull, tmVars, ghosts
<1> QED  BY <1>3, <1>4, <1>5, <1>6, <1>7, <1>8, <1>9, <1>10 DEF Next, Call, EndStep

(* The batch is given up only when all that is in it is deleted. *)
LEMMA FreesKeptStep ==
  ASSUME Shape, Kept, Returned, FreesWrite, Next, TypeOK'
  PROVE  FreesKept'
<1> USE DEF Pending
<1> SUFFICES ASSUME ~gone', NEW s \in freed'
             PROVE  s \in Elements(toFree') \/ \E t \in Threads : s \in Pending(t)'
  <2>1. ASSUME NEW s \in freed', s \in Elements(toFree') \/ \E t \in Threads : s \in Pending(t)'
        PROVE  s \in Elements(toFree') \cup
                 UNION {Elements(tx'[t].toFree) : t \in {u \in Threads : pc'[u] \in {"append", "appending"}}}
    BY <2>1
  <2> QED  BY <2>1 DEF FreesKept
<1>1. ~gone
  BY ZenonT(40) DEF Next, Call, AllocStep, EndStep, TmBegin, TmBeginFails, TmWrite, TmAlloc, TmEnd, Abort, TmFree,
         TmEndReadOnly, PopSpot, PopSpotEnd, NewSpot, SegmentInit, SegmentInitFails, PushSpot,
         AppendLock, AppendFree, RdUnlock, BatchFull, BatchNotFull, WrLock, DeleteSegment, BatchDone,
         TmDestroy, Stopped, vars, ghosts
<1>2. \A r \in freed : r \in Elements(toFree) \/ \E t \in Threads : r \in Pending(t)
  BY <1>1, FreesKeptMeans DEF Returned
<1>3. ASSUME NEW t \in Threads, DeleteSegment(t) PROVE s \in Elements(toFree')
  <2>1. s \in freed /\ toFree' = toFree
    BY <1>3 DEF DeleteSegment
  <2>2. \A u \in Threads : Pending(u) = {}
    BY <1>3, Deleting, Quiet
  <2> QED  BY <1>2, <2>1, <2>2
<1>4. ASSUME NEW t \in Threads, BatchDone(t) PROVE FALSE
  <2>1. pc[t] = "delete" /\ s \in freed /\ writer # None
    BY <1>4, NoneIsNobody DEF BatchDone, ghosts, Kept, ReadersRun
  <2>2. s \in Elements(toFree)
    BY <1>2, <2>1, Quiet
  <2>3. PICK i \in 1 .. Len(toFree) : s = toFree[i]
    BY <2>2 DEF Elements
  <2>4. i < loc[t].next
    BY <1>4, <2>3, TypeFacts DEF BatchDone, Shape
  <2> QED  BY <2>1, <2>3, <2>4 DEF Returned, Deleted
<1>5. CASE \A t \in Threads : ~DeleteSegment(t) /\ ~BatchDone(t)
  BY <1>2, <1>5, KeepsStep
<1> QED  BY <1>3, <1>4, <1>5

LEMMA DeletedStep ==
  ASSUME Shape, Kept, Returned, Next, TypeOK'
  PROVE  Deleted'
<1> SUFFICES ASSUME NEW t \in Threads, pc'[t] = "delete", NEW i \in 1 .. Len(toFree'), i < loc'[t].next
             PROVE  toFree'[i] \notin freed'
  BY DEF Deleted
<1>1. /\ pc \in [Threads -> PCs] /\ loc \in [Threads -> Locals]
  BY DEF Shape, TypeOK, Locals
<1>2. ASSUME pc[t] # "delete" PROVE FALSE
  <2>1. WrLock(t)
    BY <1>1, <1>2, ZenonT(40) DEF Next, Call, AllocStep, EndStep, TmBegin, TmBeginFails, TmWrite, TmAlloc, TmEnd, Abort,
         TmFree, TmEndReadOnly, PopSpot, PopSpotEnd, NewSpot, SegmentInit, SegmentInitFails, PushSpot,
         AppendLock, AppendFree, RdUnlock, BatchFull, BatchNotFull, WrLock, DeleteSegment, BatchDone,
         TmDestroy, Stopped, vars, TransactionCleanup, Goto
  <2>2. loc'[t].next = 1
    BY <1>2, <2>1 DEF WrLock, Shape, Looping
  <2> QED  BY <2>2
<1>3. CASE pc[t] = "delete"
  <2>1. writer = t /\ writer # None
    BY <1>3, NoneIsNobody DEF Kept, ReadersRun
  <2>2. CASE DeleteSegment(t)
    <3>1. /\ toFree' = toFree /\ freed' = freed \ {toFree[loc[t].next]}
          /\ loc'[t].next = loc[t].next + 1 /\ loc[t].next \in Nat
      BY <1>1, <2>2 DEF DeleteSegment, Locals
    <3>2. i < loc[t].next \/ i = loc[t].next
      BY <3>1
    <3> QED  BY <1>3, <3>1, <3>2 DEF Returned, Deleted
  <2>3. CASE UNCHANGED <<toFree, loc, freed>>
    BY <1>3, <2>3 DEF Returned, Deleted
  <2>4. ASSUME NEW u \in Threads, u # t, EndStep(u) PROVE UNCHANGED <<toFree, freed>> /\ loc'[t] = loc[t]
    <3>1. pc[u] \in {"batch", "wrlock"}
      BY <2>1, <2>4, Quiet, NoneIsNobody
         DEF EndStep, AppendLock, AppendFree, RdUnlock, BatchFull, BatchNotFull, WrLock, DeleteSegment,
             BatchDone, Kept, ReadersRun
    <3> QED  BY <1>1, <2>4, <3>1
             DEF EndStep, AppendLock, AppendFree, RdUnlock, BatchFull, BatchNotFull, WrLock, DeleteSegment,
                 BatchDone, TransactionCleanup, tmVars, ghosts
  <2>5. ASSUME EndStep(t), ~DeleteSegment(t) PROVE FALSE
    BY <1>1, <1>3, <2>5
       DEF EndStep, AppendLock, AppendFree, RdUnlock, BatchFull, BatchNotFull, WrLock, BatchDone,
           TransactionCleanup, Goto
  <2>6. ASSUME NEW u \in Threads, Call(u) \/ AllocStep(u) PROVE FALSE
    BY <2>1, <2>6, Quiet
       DEF Call, AllocStep, TmBegin, TmBeginFails, TmWrite, TmAlloc, TmEnd, Abort, TmFree, TmEndReadOnly,
           PopSpot, PopSpotEnd, NewSpot, SegmentInit, SegmentInitFails, PushSpot
  <2>7. ~TmDestroy
    BY <1>3 DEF TmDestroy
  <2>8. Stopped => UNCHANGED <<toFree, loc, freed>>
    BY DEF Stopped, vars, tmVars, ghosts
  <2>9. CASE UNCHANGED <<toFree, freed>> /\ loc'[t] = loc[t]
    BY <1>3, <2>9 DEF Returned, Deleted
  <2> QED  BY <2>2, <2>3, <2>4, <2>5, <2>6, <2>7, <2>8, <2>9 DEF Next
<1> QED  BY <1>2, <1>3

LEMMA ReturnedStep ==
  ASSUME Shape, Kept, Returned, FreesWrite, [Next]_vars
  PROVE  Returned'
<1>1. CASE Next
  <2>1. TypeOK'
    BY ShapeStep DEF Shape
  <2> QED  BY <1>1, <2>1, FreesKeptStep, DeletedStep DEF Returned
<1>2. CASE UNCHANGED vars
  BY <1>2 DEF vars, tmVars, ghosts, Returned, FreesKept, Deleted
<1> QED  BY <1>1, <1>2

LEMMA ReturnedAlways ==
  ASSUME NoMemory = {}, FreesWrite
  PROVE  Spec => []Returned
<1>1. Init => Shape /\ Kept /\ Returned
  BY ShapeInit, KeptInit, ReturnedInit
<1>2. Shape /\ Kept /\ Returned /\ [Next]_vars => (Shape /\ Kept /\ Returned)'
  BY ShapeStep, KeptStep, ReturnedStep
<1> QED  BY <1>1, <1>2, PTL DEF Spec

-----------------------------------------------------------------------------
(* What the runs check, for every instance.                                *)

(* As long as memory does not run out, cleanup_lock is held for reading once *)
(* by every running transaction and by nobody else, and a batch is deleted   *)
(* only by the owner of the write lock while nobody reads.                   *)
THEOREM ReadLockPerTransaction ==
  ASSUME NoMemory = {}
  PROVE  Spec => []ReadersRun
<1>1. Kept => ReadersRun
  BY DEF Kept
<1> QED  BY <1>1, KeptAlways, PTL

(* As long as memory does not run out, tm_alloc never hands out a spot that *)
(* another thread was given, that holds a segment or that is still listed.  *)
THEOREM SpotHandedOutOnce ==
  ASSUME NoMemory = {}
  PROVE  Spec => []SpotsDistinct
<1>1. Kept => SpotsDistinct
  BY DEF Kept
<1> QED  BY <1>1, KeptAlways, PTL

(* As long as memory does not run out, no address in the region or in the *)
(* hands of a running transaction leads to a deleted segment.             *)
THEOREM NoDanglingSegment ==
  ASSUME NoMemory = {}
  PROVE  Spec => []LinkedLive
<1>1. Kept => LinkedLive
  BY DEF Kept
<1> QED  BY <1>1, KeptAlways, PTL

(* When every transaction that frees also writes, and memory does not run *)
(* out, no freed segment is forgotten before it is deleted.               *)
THEOREM NoFreeForgotten ==
  ASSUME NoMemory = {}, FreesWrite
  PROVE  Spec => []FreesKept
<1>1. Returned => FreesKept
  BY DEF Returned
<1> QED  BY <1>1, ReturnedAlways, PTL

(* As long as memory does not run out, a step that takes a segment away finds *)
(* no transaction that may still use its address.                             *)
THEOREM DeletedUnreachable ==
  ASSUME NoMemory = {}
  PROVE  Spec => NoUseAfterFree
<1> DEFINE A == \A s \in Spots : va[s] = "live" /\ va'[s] # "live" =>
                  \A t \in Threads : s \notin {IndexFromVa(a) : a \in reach[t]}
<1>1. ASSUME Shape /\ Kept, [Next]_vars PROVE A
  <2>1. ASSUME NEW s \in Spots, va[s] = "live", va'[s] # "live", NEW t \in Threads PROVE reach[t] = {}
    <3>1. Next
      BY <1>1, <2>1 DEF vars, tmVars
    <3>2. ASSUME NEW u \in Threads, SegmentInit(u), va' = [va EXCEPT ![loc[u].spot] = "live"] PROVE FALSE
      BY <1>1, <2>1, <3>2 DEF Shape, TypeOK
    <3>3. (\E u \in Threads : DeleteSegment(u)) \/ TmDestroy
      BY <1>1, <2>1, <3>1, <3>2, VaStep
    <3>4. CASE \E u \in Threads : DeleteSegment(u)
      BY <1>1, <3>4, Deleting, Quiet
    <3>5. CASE TmDestroy
      BY <1>1, <3>5 DEF TmDestroy, Kept, AtRest, Running, Outside
    <3> QED  BY <3>3, <3>4, <3>5
  <2> QED  BY <2>1
<1> QED  BY <1>1, KeptAlways, PTL DEF Spec, NoUseAfterFree

(* As long as memory does not run out, tm_destroy frees every segment there *)
(* is, and finds none that is broken, freed already or past va_n.           *)
THEOREM DestroyedOnce ==
  ASSUME NoMemory = {}
  PROVE  Spec => DestroyOnce
<1> DEFINE A == gone' # gone => \A s \in Spots : va[s] = "null" \/ (va[s] = "live" /\ s < vaN)
<1>1. ASSUME Shape /\ Kept, [Next]_vars PROVE A
  <2>1. ASSUME gone' # gone PROVE ~gone
    <3>1. TmDestroy
      BY <1>1, <2>1, ZenonT(40) DEF Next, Call, AllocStep, EndStep, TmBegin, TmBeginFails, TmWrite, TmAlloc, TmEnd,
         Abort, TmFree, TmEndReadOnly, PopSpot, PopSpotEnd, NewSpot, SegmentInit, SegmentInitFails,
         PushSpot, AppendLock, AppendFree, RdUnlock, BatchFull, BatchNotFull, WrLock, DeleteSegment,
         BatchDone, Stopped, vars, ghosts
    <3> QED  BY <3>1 DEF TmDestroy
  <2> QED  BY <1>1, <2>1 DEF Kept, SpotsKnown
<1> QED  BY <1>1, KeptAlways, PTL DEF Spec, DestroyOnce

=============================================================================
