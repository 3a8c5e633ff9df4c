------------------------------- MODULE Segments -------------------------------
(***************************************************************************)
(* Segments of the shared region in 353607/tm.c: tm_alloc takes a spot of  *)
(* va_arr, tm_free defers to the commit, the commit defers to a batch, and *)
(* the batch is deleted under the write side of cleanup_lock, which every  *)
(* running transaction holds for reading.                                  *)
(*                                                                         *)
(* The contents of the region are reduced to the set of segments its words *)
(* point to.  What TL2.tla shows of contents is used in two places: of two *)
(* transactions that unlink the same segment at most one commits, and a    *)
(* transaction is given addresses that were in the region at some time     *)
(* since its tm_begin.                                                     *)
(***************************************************************************)
EXTENDS Integers, FiniteSets, Sequences

CONSTANTS
  Threads,       \* application threads: each runs one transaction at a time
  VaSize,        \* VA_SIZE: spots of va_arr, a bound on what the code does not check
  AddressRange,  \* 2^16: values of the part of an address that names its segment
  FreeBatchSize, \* FREE_BATCHSIZE
  Allocators,    \* threads that call tm_alloc
  NoMemory,      \* threads that malloc and posix_memalign may fail
  FreesWrite,    \* a transaction that frees also writes, as those of workload.hpp do
  MaxFrees,      \* bound: tm_free calls of a transaction
  MaxTx,         \* bound: calls of tm_begin in a behaviour
  None           \* nobody

ASSUME ConstantsAssumption ==
  /\ VaSize \in Nat \ {0}
  /\ AddressRange \in Nat /\ VaSize < AddressRange
  /\ FreeBatchSize \in Nat \ {0}
  /\ Allocators \subseteq Threads /\ NoMemory \subseteq Threads
  /\ FreesWrite \in BOOLEAN
  /\ MaxFrees \in Nat /\ MaxTx \in Nat
  /\ None \notin Threads

Spots == 0 .. VaSize - 1

VARIABLES
  va,       \* va[s]: what va_arr[s] points to
  vaN,      \* tm->va_n
  empty,    \* tm->empty_spots: the spots of the list, first to last
  vmLock,   \* owner of virtual_memory_lock
  readers,  \* cleanup_lock: number of read locks
  writer,   \* cleanup_lock: owner of the write lock
  freeLock, \* owner of to_free_lock
  toFree,   \* the first to_free_n entries of tm->to_free
  pc,       \* pc[t]: where thread t is in the call it executes
  tx,       \* tx[t]: the transaction of thread t
  loc,      \* loc[t]: the locals of tm_alloc and of the deletion loop
  linked,   \* addresses of segments in the committed contents of the region
  reach,    \* history: addresses of segments that the transaction may have
  freed,    \* history: segments a committed transaction freed, not yet deleted
  begun,    \* number of calls of tm_begin
  gone      \* the region was destroyed

tmVars   == <<va, vaN, empty, vmLock, readers, writer, freeLock, toFree>>
ghosts   == <<linked, reach, freed, begun, gone>>
vars     == <<tmVars, pc, tx, loc, ghosts>>

PCs == {"idle", "ready",
        "pop", "unlink", "init", "push",           \* tm_alloc
        "append", "appending", "rdunlock", "batch", "wrlock", "delete"} \* tm_end

(* In these a thread has no transaction any more. *)
Outside == {"idle", "batch", "wrlock", "delete"}

Running(t) == pc[t] \notin Outside

(* What va_arr[s] points to: nothing (NULL, or an entry never written), a    *)
(* segment, a segment whose blocks segment_init gave back or never got, or a *)
(* segment that was freed.                                                   *)
SegmentStates == {"null", "live", "broken", "freed"}

Elements(q) == {q[i] : i \in 1 .. Len(q)}

(* macros.h: the high bits of an address are the index of the segment plus   *)
(* one, so that none of those below VaSize is NULL; an offset changes none.  *)
VaFromIndex(idx) == (idx + 1) % AddressRange

IndexFromVa(a) == a - 1

Addresses(S) == {VaFromIndex(s) : s \in S}

TmStart == VaFromIndex(0)

(* wrote: the write set is not empty; toFree: t->to_free; mine: allocated. *)
NoTx  == [wrote |-> FALSE, toFree |-> <<>>, mine |-> {}]
(* spot: of the segment being allocated; list: empty_spots as last loaded.   *)
(* A node of the list is not changed once it is in, so its address stands    *)
(* for the list from there; a node read after free() still holds the same,   *)
(* one of the things it may hold.  next: the index of the deletion loop.     *)
NoLoc == [spot |-> 0, list |-> <<>>, next |-> 1]

(* tm_create has returned a region: segment 0 is in use.  When its            *)
(* segment_init fails (tm.c:166) there is no region, and no call.             *)
Init ==
  /\ va = [s \in Spots |-> IF s = 0 THEN "live" ELSE "null"]
  /\ vaN = 1
  /\ empty = <<>>
  /\ vmLock = None
  /\ readers = 0 /\ writer = None
  /\ freeLock = None
  /\ toFree = <<>>
  /\ pc = [t \in Threads |-> "idle"]
  /\ tx = [t \in Threads |-> NoTx]
  /\ loc = [t \in Threads |-> NoLoc]
  /\ linked = {TmStart}
  /\ reach = [t \in Threads |-> {}]
  /\ freed = {}
  /\ begun = 0
  /\ gone = FALSE

Goto(t, l) == pc' = [pc EXCEPT ![t] = l]

(* The transaction cannot touch the region any more. *)
Forget(t) == reach' = [reach EXCEPT ![t] = {}]

(* transaction_cleanup *)
TransactionCleanup(t) ==
  /\ tx' = [tx EXCEPT ![t] = NoTx]
  /\ loc' = [loc EXCEPT ![t] = NoLoc]
  /\ Goto(t, "idle")

-----------------------------------------------------------------------------
(* Begin, accesses and abort.                                              *)

(* The read lock is granted unless somebody writes, whoever waits to write. *)
TmBegin(t) ==
  /\ pc[t] = "idle" /\ begun < MaxTx /\ ~gone
  /\ writer = None
  /\ readers' = readers + 1
  /\ Goto(t, "ready")
  /\ reach' = [reach EXCEPT ![t] = linked]
  /\ begun' = begun + 1
  /\ UNCHANGED <<va, vaN, empty, vmLock, writer, freeLock, toFree, tx, loc,
                 linked, freed, gone>>

(* A malloc fails: invalid_tx is returned, the read lock is kept. *)
TmBeginFails(t) ==
  /\ pc[t] = "idle" /\ begun < MaxTx /\ ~gone
  /\ t \in NoMemory
  /\ writer = None
  /\ readers' = readers + 1
  /\ begun' = begun + 1
  /\ UNCHANGED <<va, vaN, empty, vmLock, writer, freeLock, toFree, pc, tx, loc,
                 linked, reach, freed, gone>>

(* tm_write enters a word into the write set. *)
TmWrite(t) ==
  /\ pc[t] = "ready"
  /\ tx' = [tx EXCEPT ![t].wrote = TRUE]
  /\ UNCHANGED <<tmVars, pc, loc, ghosts>>

(* Mutant: a failed call does not give the read lock back. *)
AbortKeepsLock(t) ==
  /\ pc[t] = "ready"
  /\ TransactionCleanup(t)
  /\ Forget(t)
  /\ UNCHANGED <<tmVars, linked, freed, begun, gone>>

(* A call fails: a conflict in tm_read, tm_write or tm_end, or a tm_free of  *)
(* segment 0.  The transaction is cleaned up: its frees are forgotten, what  *)
(* it allocated stays.                                                       *)
Abort(t) ==
  /\ pc[t] = "ready"
  /\ TransactionCleanup(t)
  /\ Forget(t)
  /\ readers' = readers - 1
  /\ UNCHANGED <<va, vaN, empty, vmLock, writer, freeLock, toFree, linked, freed,
                 begun, gone>>

-----------------------------------------------------------------------------
(* tm_alloc *)

(* Past VA_SIZE the code goes on; in the model nobody allocates any more. *)
SpotLeft == empty # <<>> \/ vaN < VaSize

TmAlloc(t) ==
  /\ pc[t] = "ready" /\ t \in Allocators
  /\ SpotLeft
  /\ vmLock = None
  /\ vmLock' = t
  /\ Goto(t, "pop")
  /\ UNCHANGED <<va, vaN, empty, readers, writer, freeLock, toFree, tx, loc, ghosts>>

(* The first node of empty_spots is loaded... *)
PopSpot(t) ==
  /\ pc[t] = "pop" /\ empty # <<>>
  /\ loc' = [loc EXCEPT ![t] = [@ EXCEPT !.spot = Head(empty), !.list = empty]]
  /\ Goto(t, "unlink")
  /\ UNCHANGED <<tmVars, tx, ghosts>>

(* Mutant: the node stays in the list. *)
PopSpotKept(t) ==
  /\ pc[t] = "unlink"
  /\ vmLock' = None
  /\ Goto(t, "init")
  /\ UNCHANGED <<va, vaN, empty, readers, writer, freeLock, toFree, tx, loc, ghosts>>

(* ... its successor is stored, the node is freed and the mutex released. *)
PopSpotEnd(t) ==
  /\ pc[t] = "unlink"
  /\ empty' = Tail(loc[t].list)
  /\ vmLock' = None
  /\ Goto(t, "init")
  /\ UNCHANGED <<va, vaN, readers, writer, freeLock, toFree, tx, loc, ghosts>>

(* The list is empty: va_n++. *)
NewSpot(t) ==
  /\ pc[t] = "pop" /\ empty = <<>>
  /\ loc' = [loc EXCEPT ![t].spot = vaN]
  /\ vaN' = vaN + 1
  /\ vmLock' = None
  /\ Goto(t, "init")
  /\ UNCHANGED <<va, empty, readers, writer, freeLock, toFree, tx, ghosts>>

SegmentInit(t) ==
  /\ pc[t] = "init"
  /\ va' = [va EXCEPT ![loc[t].spot] = "live"]
  /\ tx' = [tx EXCEPT ![t].mine = @ \cup {VaFromIndex(loc[t].spot)}]
  /\ reach' = [reach EXCEPT ![t] = @ \cup {VaFromIndex(loc[t].spot)}]
  /\ loc' = [loc EXCEPT ![t] = NoLoc]
  /\ Goto(t, "ready")
  /\ UNCHANGED <<vaN, empty, vmLock, readers, writer, freeLock, toFree,
                 linked, freed, begun, gone>>

(* posix_memalign or the malloc of the locks fails: va_arr[spot] keeps the   *)
(* segment without its blocks, and a node for the spot is filled in, with no *)
(* lock held...  The mallocs of the segment itself and of a node (tm.c:670,  *)
(* 579, 663) are not tested: a NULL ends the process, and no step follows.   *)
SegmentInitFails(t) ==
  /\ pc[t] = "init" /\ t \in NoMemory
  /\ va' = [va EXCEPT ![loc[t].spot] = "broken"]
  /\ loc' = [loc EXCEPT ![t].list = <<loc[t].spot>> \o empty]
  /\ Goto(t, "push")
  /\ UNCHANGED <<vaN, empty, vmLock, readers, writer, freeLock, toFree, tx, ghosts>>

(* ... and stored; tm_alloc answers nomem_alloc and the transaction goes on. *)
PushSpot(t) ==
  /\ pc[t] = "push"
  /\ empty' = loc[t].list
  /\ loc' = [loc EXCEPT ![t] = NoLoc]
  /\ Goto(t, "ready")
  /\ UNCHANGED <<va, vaN, vmLock, readers, writer, freeLock, toFree, tx, ghosts>>

-----------------------------------------------------------------------------
(* tm_free                                                                 *)

(* Mutant: the segment goes to the batch at once. *)
TmFreeNow(t, a) ==
  LET spot == IndexFromVa(a) IN
  /\ pc[t] = "ready" /\ a \in reach[t] /\ spot # 0
  /\ Len(tx[t].toFree) < MaxFrees
  /\ toFree' = Append(toFree, spot)
  /\ tx' = [tx EXCEPT ![t].toFree = Append(@, spot)]
  /\ UNCHANGED <<va, vaN, empty, vmLock, readers, writer, freeLock, pc, loc, ghosts>>

(* Of a segment whose address the transaction was given; the same one may be *)
(* freed twice.                                                              *)
TmFree(t, a) ==
  LET spot == IndexFromVa(a) IN
  /\ pc[t] = "ready" /\ a \in reach[t] /\ spot # 0
  /\ Len(tx[t].toFree) < MaxFrees
  /\ tx' = [tx EXCEPT ![t].toFree = Append(@, spot)]
  /\ UNCHANGED <<tmVars, pc, loc, ghosts>>

-----------------------------------------------------------------------------
(* tm_end                                                                  *)

(* What the application left in the region does not point to what it freed. *)
Unlinked(t) ==
  \/ tx[t].toFree = <<>>
  \/ ~FreesWrite /\ Addresses(Elements(tx[t].toFree)) \subseteq tx[t].mine

(* Nothing was written: tm_end returns true at once. *)
TmEndReadOnly(t) ==
  /\ pc[t] = "ready" /\ ~tx[t].wrote
  /\ Unlinked(t)
  /\ freed' = freed \cup Elements(tx[t].toFree)
  /\ readers' = readers - 1
  /\ TransactionCleanup(t)
  /\ Forget(t)
  /\ UNCHANGED <<va, vaN, empty, vmLock, writer, freeLock, toFree, linked, begun, gone>>

(* The write set is locked, validated and written back.  Somebody who unlinked *)
(* one of the segments in the meantime has written a word of the write set.    *)
TmEnd(t) ==
  /\ pc[t] = "ready" /\ tx[t].wrote
  /\ Addresses(Elements(tx[t].toFree)) \subseteq linked \cup tx[t].mine
  /\ linked' = (linked \cup tx[t].mine) \ Addresses(Elements(tx[t].toFree))
  /\ reach' = [u \in Threads |-> IF Running(u) THEN reach[u] \cup linked' ELSE reach[u]]
  /\ freed' = freed \cup Elements(tx[t].toFree)
  /\ Goto(t, IF tx[t].toFree = <<>> THEN "rdunlock" ELSE "append")
  /\ UNCHANGED <<tmVars, tx, loc, begun, gone>>

AppendLock(t) ==
  /\ pc[t] = "append" /\ freeLock = None
  /\ freeLock' = t
  /\ Goto(t, "appending")
  /\ UNCHANGED <<va, vaN, empty, vmLock, readers, writer, toFree, tx, loc, ghosts>>

(* Mutant: the loop stops before the last entry. *)
AppendFreeShort(t) ==
  /\ pc[t] = "appending"
  /\ IF Len(tx[t].toFree) = 1
     THEN freeLock' = None /\ Goto(t, "rdunlock") /\ UNCHANGED <<toFree, tx>>
     ELSE /\ toFree' = Append(toFree, Head(tx[t].toFree))
          /\ tx' = [tx EXCEPT ![t].toFree = Tail(@)]
          /\ UNCHANGED <<freeLock, pc>>
  /\ UNCHANGED <<va, vaN, empty, vmLock, readers, writer, loc, ghosts>>

(* One turn of the loop; the last one gives the mutex back. *)
AppendFree(t) ==
  /\ pc[t] = "appending"
  /\ toFree' = Append(toFree, Head(tx[t].toFree))
  /\ tx' = [tx EXCEPT ![t].toFree = Tail(@)]
  /\ IF Len(tx[t].toFree) = 1
     THEN freeLock' = None /\ Goto(t, "rdunlock")
     ELSE UNCHANGED <<freeLock, pc>>
  /\ UNCHANGED <<va, vaN, empty, vmLock, readers, writer, loc, ghosts>>

(* Mutant: the transaction is cleaned up as a failed one, which unlocks again. *)
RdUnlockTwice(t) ==
  /\ pc[t] = "rdunlock"
  /\ readers' = readers - 2
  /\ Forget(t)
  /\ Goto(t, "batch")
  /\ UNCHANGED <<va, vaN, empty, vmLock, writer, freeLock, toFree, tx, loc, linked,
                 freed, begun, gone>>

RdUnlock(t) ==
  /\ pc[t] = "rdunlock"
  /\ readers' = readers - 1
  /\ Forget(t)
  /\ Goto(t, "batch")
  /\ UNCHANGED <<va, vaN, empty, vmLock, writer, freeLock, toFree, tx, loc, linked,
                 freed, begun, gone>>

(* to_free_n is read with no lock held. *)
BatchFull(t) ==
  /\ pc[t] = "batch" /\ Len(toFree) >= FreeBatchSize
  /\ Goto(t, "wrlock")
  /\ UNCHANGED <<tmVars, tx, loc, ghosts>>

BatchNotFull(t) ==
  /\ pc[t] = "batch" /\ Len(toFree) < FreeBatchSize
  /\ TransactionCleanup(t)
  /\ UNCHANGED <<tmVars, ghosts>>

(* Mutant: running transactions are not waited for. *)
WrLockNoWait(t) ==
  /\ pc[t] = "wrlock"
  /\ writer = None
  /\ writer' = t
  /\ Goto(t, "delete")
  /\ UNCHANGED <<va, vaN, empty, vmLock, readers, freeLock, toFree, tx, loc, ghosts>>

WrLock(t) ==
  /\ pc[t] = "wrlock"
  /\ readers = 0 /\ writer = None
  /\ writer' = t
  /\ Goto(t, "delete")
  /\ UNCHANGED <<va, vaN, empty, vmLock, readers, freeLock, toFree, tx, loc, ghosts>>

(* Mutant: va_arr[spot] keeps its pointer. *)
DeleteSegmentDangling(t) ==
  /\ pc[t] = "delete" /\ loc[t].next <= Len(toFree)
  /\ LET s == toFree[loc[t].next]
     IN  /\ va' = [va EXCEPT ![s] = "freed"]
         /\ empty' = <<s>> \o empty
         /\ freed' = freed \ {s}
  /\ loc' = [loc EXCEPT ![t].next = @ + 1]
  /\ UNCHANGED <<vaN, vmLock, readers, writer, freeLock, toFree, pc, tx, linked, reach,
                 begun, gone>>

(* Mutant: delete_segment does not look for NULL. *)
DeleteSegmentTwice(t) ==
  /\ pc[t] = "delete" /\ loc[t].next <= Len(toFree)
  /\ LET s == toFree[loc[t].next]
     IN  /\ va' = [va EXCEPT ![s] = "null"]
         /\ empty' = <<s>> \o empty
         /\ freed' = freed \ {s}
  /\ loc' = [loc EXCEPT ![t].next = @ + 1]
  /\ UNCHANGED <<vaN, vmLock, readers, writer, freeLock, toFree, pc, tx, linked, reach,
                 begun, gone>>

(* One turn of the loop.  A segment that is in the batch twice is NULL the *)
(* second time.                                                            *)
DeleteSegment(t) ==
  /\ pc[t] = "delete" /\ loc[t].next <= Len(toFree)
  /\ LET s == toFree[loc[t].next]
     IN  /\ va' = [va EXCEPT ![s] = "null"]
         /\ empty' = IF va[s] = "null" THEN empty ELSE <<s>> \o empty
         /\ freed' = freed \ {s}
  /\ loc' = [loc EXCEPT ![t].next = @ + 1]
  /\ UNCHANGED <<vaN, vmLock, readers, writer, freeLock, toFree, pc, tx, linked, reach,
                 begun, gone>>

BatchDone(t) ==
  /\ pc[t] = "delete" /\ loc[t].next > Len(toFree)
  /\ toFree' = <<>>
  /\ writer' = None
  /\ TransactionCleanup(t)
  /\ UNCHANGED <<va, vaN, empty, vmLock, readers, freeLock, ghosts>>

-----------------------------------------------------------------------------
(* tm_destroy                                                              *)

(* Every segment below va_n goes, then the list and the batch. *)
TmDestroy ==
  /\ \A t \in Threads : pc[t] = "idle"
  /\ begun = MaxTx /\ ~gone
  /\ va' = [s \in Spots |-> IF s < vaN /\ va[s] # "null" THEN "freed" ELSE va[s]]
  /\ empty' = <<>> /\ toFree' = <<>>
  /\ gone' = TRUE
  /\ UNCHANGED <<vaN, vmLock, readers, writer, freeLock, pc, tx, loc, linked, reach,
                 freed, begun>>

Stopped == gone /\ UNCHANGED vars

-----------------------------------------------------------------------------
(* Specification.                                                          *)

Call(t) ==
  \/ TmBegin(t) \/ TmBeginFails(t) \/ TmWrite(t) \/ Abort(t)
  \/ TmAlloc(t)
  \/ \E a \in Addresses(Spots) : TmFree(t, a)
  \/ TmEndReadOnly(t) \/ TmEnd(t)

AllocStep(t) ==
  \/ PopSpot(t) \/ PopSpotEnd(t) \/ NewSpot(t)
  \/ SegmentInit(t) \/ SegmentInitFails(t) \/ PushSpot(t)

EndStep(t) ==
  \/ AppendLock(t) \/ AppendFree(t) \/ RdUnlock(t)
  \/ BatchFull(t) \/ BatchNotFull(t)
  \/ WrLock(t) \/ DeleteSegment(t) \/ BatchDone(t)

Next ==
  \/ \E t \in Threads : Call(t) \/ AllocStep(t) \/ EndStep(t)
  \/ TmDestroy
  \/ Stopped

Spec == Init /\ [][Next]_vars

-----------------------------------------------------------------------------
(* Properties.                                                             *)

TypeOK ==
  /\ va \in [Spots -> SegmentStates]
  /\ vaN \in 1 .. VaSize
  /\ empty \in Seq(Spots)
  /\ vmLock \in Threads \cup {None}
  /\ readers \in Nat
  /\ writer \in Threads \cup {None}
  /\ freeLock \in Threads \cup {None}
  /\ toFree \in Seq(Spots)
  /\ pc \in [Threads -> PCs]
  /\ tx \in [Threads -> [wrote : BOOLEAN, toFree : Seq(Spots), mine : SUBSET Addresses(Spots)]]
  /\ loc \in [Threads -> [spot : Spots, list : Seq(Spots), next : Nat]]
  /\ linked \in SUBSET Addresses(Spots)
  /\ reach \in [Threads -> SUBSET Addresses(Spots)]
  /\ freed \in SUBSET Spots
  /\ begun \in 0 .. MaxTx
  /\ gone \in BOOLEAN

(* cleanup_lock is held for reading once by every running transaction, by    *)
(* nobody else, and never while a batch is deleted: no abort and no return   *)
(* of tm_end loses a read lock or gives one back twice.                      *)
ReadersRun ==
  /\ readers = Cardinality({t \in Threads : Running(t)})
  /\ writer # None => readers = 0
  /\ \A t \in Threads : pc[t] = "delete" <=> writer = t

Allocating(t) == pc[t] \in {"init", "push"}

(* A spot is handed out once: it is in the list of empty spots at most once, *)
(* or with one thread that allocates there, or holds a segment, and never    *)
(* two of these.                                                             *)
SpotsDistinct ==
  /\ \A i, j \in 1 .. Len(empty) : i # j => empty[i] # empty[j]
  /\ \A s \in Elements(empty) : va[s] # "live" /\ s < vaN
  /\ \A t \in Threads :
       Allocating(t) => va[loc[t].spot] # "live" /\ loc[t].spot \notin Elements(empty)
  /\ \A t, u \in Threads :
       t # u /\ Allocating(t) /\ Allocating(u) => loc[t].spot # loc[u].spot

(* The contents of the region never point to a deleted segment, neither for   *)
(* a transaction that begins now (linked) nor for one that runs (reach).      *)
LinkedLive ==
  ~gone =>
    /\ \A a \in linked : va[IndexFromVa(a)] = "live"
    /\ \A t \in Threads : \A a \in reach[t] : va[IndexFromVa(a)] = "live"

(* Every segment freed by a committed transaction is in the batch, or on its *)
(* way there, until it is deleted: none is forgotten by the reset of the     *)
(* batch, by an append that runs at the same time, or by tm_end.             *)
FreesKept ==
  ~gone =>
    freed \subseteq Elements(toFree) \cup
      UNION {Elements(tx[t].toFree) : t \in {u \in Threads : pc[u] \in {"append", "appending"}}}

(* A segment is deleted only when no transaction runs that may have its      *)
(* address from before it was unlinked.                                      *)
NoUseAfterFree ==
  [][\A s \in Spots : va[s] = "live" /\ va'[s] # "live" =>
       \A t \in Threads : s \notin {IndexFromVa(a) : a \in reach[t]}]_vars

(* tm_destroy frees every segment there is, and each once: the ones it finds *)
(* in va_arr are whole, and none lies past va_n.                             *)
DestroyOnce ==
  [][gone' # gone => \A s \in Spots : va[s] = "null" \/ (va[s] = "live" /\ s < vaN)]_vars

=============================================================================
