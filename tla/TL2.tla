--------------------------------- MODULE TL2 ---------------------------------
(***************************************************************************)
(* The transaction protocol of 353607/tm.c: a word-based software          *)
(* transactional memory in the style of TL2, with a read-only path that    *)
(* revalidates its read set instead of aborting when it meets a version    *)
(* newer than its own.                                                     *)
(*                                                                         *)
(* One step of this module is one access to shared memory: a load, store,  *)
(* compare-and-swap or fetch-and-add of an atomic_int, or the copy of one  *)
(* word.  Everything else a call does is private to its thread and happens *)
(* in the same step.  The multi-word loops of tm_read (read-write) and     *)
(* tm_write treat every word on its own, so a call on several words is a   *)
(* sequence of calls on one; ro_transaction_read runs three loops over the *)
(* whole request and is modelled with all of them.                         *)
(*                                                                         *)
(* Segments, the cleanup lock and the deferred frees are in Segments.tla.  *)
(***************************************************************************)
EXTENDS Integers

CONSTANTS
  Threads,   \* application threads: each runs one transaction at a time
  Words,     \* words of the shared region, one versioned lock each
  Values,    \* contents of a word
  Writes,    \* contents the application writes
  Zero,      \* the content segment_init gives to every word
  None,      \* "the write set has no entry for this word"
  Torn,      \* what a reader gets from a word whose memcpy is under way
  Addr,      \* Addr[w] is the virtual address of word w
  IntRange,  \* number of values of the int that ws_item_cmp returns
  Spans,     \* the requests (sets of words) a read-only tm_read is given
  ROThreads, \* threads that run read-only transactions
  RWThreads, \* threads that run read-write transactions
  MaxTx      \* bound: transactions begun in a behaviour

ASSUME ConstantsAssumption ==
  /\ Zero \in Values /\ Writes \subseteq Values
  /\ None \notin Values /\ Torn \notin Values
  /\ Addr \in [Words -> Nat]
  /\ IntRange \in Nat \ {0}
  /\ Spans \subseteq SUBSET Words
  /\ {} \notin Spans
  /\ ROThreads \subseteq Threads /\ RWThreads \subseteq Threads
  /\ MaxTx \in Nat

VARIABLES
  gv,      \* tm->global_version
  vl,      \* vl[w]: the versioned lock of word w
  mem,     \* mem[w]: the content of word w in its segment
  pc,      \* pc[t]: where thread t is in the call it executes
  tx,      \* tx[t]: the transaction_t of thread t
  held,    \* held[t]: the words whose lock tm_end has taken and not given back
  loc,     \* loc[t]: the other locals of the call
  seen,    \* history: pairs <<word, value>> the transaction was given from mem
  suspect, \* history: the word whose version caused the last revalidation
  begun,   \* number of transactions begun
  hist,    \* history: committed contents, as records [word, ver, val]
  done     \* history: what committed transactions were given

vars == <<gv, vl, mem, pc, tx, held, loc, seen, suspect, begun, hist, done>>

-----------------------------------------------------------------------------
(* The order of the loops over a write set or a request.                   *)

(* Mutant: the write set is not sorted. *)
WsItemCmpAny(a, b) == 0

(* ws_item_cmp subtracts two addresses and returns the difference as an int: *)
(* the multiples of IntRange, which tell segments apart, are lost.           *)
WsItemCmp(a, b) ==
  LET d == (Addr[a] - Addr[b]) % IntRange
  IN  IF 2 * d < IntRange THEN d ELSE d - IntRange

(* The words a loop over the sorted set S may visit first.  A comparison *)
(* without a minimum leaves the order to qsort.                           *)
First(S) ==
  LET least == {w \in S : \A u \in S : WsItemCmp(w, u) <= 0}
  IN  IF least = {} THEN S ELSE least

-----------------------------------------------------------------------------
(* versioned_lock.c: a version and a lock bit, read and written together.  *)

VlInit == [ver |-> 0, locked |-> FALSE]

VlReadVersion(l) == IF l.locked THEN -1 ELSE l.ver

(* Mutant: the version is not looked at. *)
StaleIgnoresVersion(l, rv) == l.locked

(* version_read == -1 || version_read > rv, the test of tm_read, tm_write, *)
(* vl_try_lock and of the validation in tm_end.                            *)
Stale(l, rv) == VlReadVersion(l) = -1 \/ VlReadVersion(l) > rv

-----------------------------------------------------------------------------
(* The state of a thread.                                                  *)

PCs == {"idle", "ready",
        "rw_copy", "rw_post",                             \* tm_read
        "ro_pre", "ro_copy", "ro_post", "ro_clock", "ro_reval", \* ro_transaction_read
        "lock", "cas", "release",                         \* tm_end, vl_try_lock
        "tick", "validate", "write", "copy", "unlock"}

Transaction == [ro : BOOLEAN, rv : Nat, ws : [Words -> Values \cup {None}],
                rs : SUBSET (Words \X Nat)]

Locals == [span : SUBSET Words, todo : SUBSET Words, cur : SUBSET Words,
           reval : SUBSET (Words \X Nat), nrv : Nat, wv : Nat,
           prev : [Words -> Nat], buf : [Words -> Values \cup {Torn}]]

NoTx  == [ro |-> FALSE, rv |-> 0, ws |-> [w \in Words |-> None], rs |-> {}]
(* span: the words of the request; todo: those the running loop has left;   *)
(* cur: the word in progress, if any; prev, buf: the versions and contents  *)
(* read; reval, nrv: what revalidate_sets has left and next_rv; wv: ticket. *)
NoLoc == [span |-> {}, todo |-> {}, cur |-> {}, reval |-> {}, nrv |-> 0, wv |-> 0,
          prev |-> [w \in Words |-> 0], buf |-> [w \in Words |-> Zero]]

(* Mutant: the read set goes through the loops of tm_end as well. *)
WrittenOrRead(t) == {w \in Words : tx[t].ws[w] # None \/ \E r \in tx[t].rs : r[1] = w}

Written(t) == {w \in Words : tx[t].ws[w] # None}

Init ==
  /\ gv = 0
  /\ vl = [w \in Words |-> VlInit]
  /\ mem = [w \in Words |-> Zero]
  /\ pc = [t \in Threads |-> "idle"]
  /\ tx = [t \in Threads |-> NoTx]
  /\ held = [t \in Threads |-> {}]
  /\ loc = [t \in Threads |-> NoLoc]
  /\ seen = [t \in Threads |-> {}]
  /\ suspect = [t \in Threads |-> {}]
  /\ begun = 0
  /\ hist = [word : Words, ver : {0}, val : {Zero}]
  /\ done = {}

Goto(t, l) == pc' = [pc EXCEPT ![t] = l]

(* transaction_cleanup: the transaction and its locals are gone. *)
TransactionCleanup(t) ==
  /\ Goto(t, "idle")
  /\ tx' = [tx EXCEPT ![t] = NoTx]
  /\ loc' = [loc EXCEPT ![t] = NoLoc]
  /\ seen' = [seen EXCEPT ![t] = {}]
  /\ suspect' = [suspect EXCEPT ![t] = {}]

(* A call fails before it has changed anything shared. *)
Abort(t) ==
  /\ TransactionCleanup(t)
  /\ UNCHANGED <<gv, vl, mem, held, begun, hist, done>>

-----------------------------------------------------------------------------
(* tm_begin *)

(* The version is sampled; nothing has been read or written yet. *)
TmBegin(t, ro) ==
  /\ pc[t] = "idle"
  /\ begun < MaxTx
  /\ t \in IF ro THEN ROThreads ELSE RWThreads
  /\ Goto(t, "ready")
  /\ tx' = [tx EXCEPT ![t] = [NoTx EXCEPT !.ro = ro, !.rv = gv]]
  /\ begun' = begun + 1
  /\ UNCHANGED <<gv, vl, mem, held, loc, seen, suspect, hist, done>>

-----------------------------------------------------------------------------
(* tm_read of a read-write transaction, one word.  A word of the write set *)
(* is served from it: no shared memory is touched, so there is no step.    *)

RwRead(t, w) ==
  /\ pc[t] = "ready" /\ ~tx[t].ro
  /\ tx[t].ws[w] = None
  /\ ~Stale(vl[w], tx[t].rv)
  /\ Goto(t, "rw_copy")
  /\ loc' = [loc EXCEPT ![t] = [@ EXCEPT !.cur = {w}, !.prev[w] = vl[w].ver]]
  /\ UNCHANGED <<gv, vl, mem, tx, held, seen, suspect, begun, hist, done>>

(* The test before the copy fails: a newer version, or a writer at work. *)
RwReadStale(t, w) ==
  /\ pc[t] = "ready" /\ ~tx[t].ro
  /\ tx[t].ws[w] = None
  /\ Stale(vl[w], tx[t].rv)
  /\ Abort(t)

(* memcpy of the word into the caller's buffer. *)
RwCopy(t) ==
  /\ pc[t] = "rw_copy"
  /\ \E w \in loc[t].cur : loc' = [loc EXCEPT ![t] = [@ EXCEPT !.buf[w] = mem[w]]]
  /\ Goto(t, "rw_post")
  /\ UNCHANGED <<gv, vl, mem, tx, held, seen, suspect, begun, hist, done>>

(* add_to_readset keeps the first entry a read-write transaction has for w. *)
AddToReadset(t, w) ==
  IF ~tx[t].ro /\ \E r \in tx[t].rs : r[1] = w
  THEN tx[t].rs
  ELSE tx[t].rs \cup {<<w, loc[t].prev[w]>>}

(* Mutant: the version is not read again after the copy. *)
RwPostUnchecked(t) ==
  /\ pc[t] = "rw_post"
  /\ \E w \in loc[t].cur :
       /\ tx' = [tx EXCEPT ![t].rs = AddToReadset(t, w)]
       /\ seen' = [seen EXCEPT ![t] = @ \cup {<<w, loc[t].buf[w]>>}]
  /\ Goto(t, "ready")
  /\ loc' = [loc EXCEPT ![t] = NoLoc]
  /\ UNCHANGED <<gv, vl, mem, held, suspect, begun, hist, done>>

(* The second vl_read_version still answers the version read first. *)
RwPost(t) ==
  /\ pc[t] = "rw_post"
  /\ \E w \in loc[t].cur :
       /\ VlReadVersion(vl[w]) = loc[t].prev[w]
       /\ tx' = [tx EXCEPT ![t].rs = AddToReadset(t, w)]
       /\ seen' = [seen EXCEPT ![t] = @ \cup {<<w, loc[t].buf[w]>>}]
  /\ Goto(t, "ready")
  /\ loc' = [loc EXCEPT ![t] = NoLoc]
  /\ UNCHANGED <<gv, vl, mem, held, suspect, begun, hist, done>>

RwPostChanged(t) ==
  /\ pc[t] = "rw_post"
  /\ \E w \in loc[t].cur : VlReadVersion(vl[w]) # loc[t].prev[w]
  /\ Abort(t)

-----------------------------------------------------------------------------
(* tm_write, one word: the optional version check, the write set, and the  *)
(* read-set entry the write makes superfluous.                             *)

(* The read set once w is in the write set: the first write of w drops w. *)
WithoutWord(t, w) ==
  IF tx[t].ws[w] = None THEN {r \in tx[t].rs : r[1] # w} ELSE tx[t].rs

TmWrite(t, w, v) ==
  /\ pc[t] = "ready" /\ ~tx[t].ro
  /\ ~Stale(vl[w], tx[t].rv)
  /\ tx' = [tx EXCEPT ![t] = [@ EXCEPT !.ws[w] = v, !.rs = WithoutWord(t, w)]]
  /\ UNCHANGED <<gv, vl, mem, pc, held, loc, seen, suspect, begun, hist, done>>

TmWriteStale(t, w) ==
  /\ pc[t] = "ready" /\ ~tx[t].ro
  /\ Stale(vl[w], tx[t].rv)
  /\ Abort(t)

(* malloc of a copy of the word returns NULL in tm_write, or the allocation *)
(* of add_to_readset in ro_transaction_read: both abort.  When realloc of   *)
(* the write set fails (tm.c:519) transaction_cleanup reads through the     *)
(* NULL it left in ws and the process ends: no thread takes a step after    *)
(* it, which Spec allows at any time.                                       *)
AllocFails(t) ==
  /\ \/ pc[t] = "ready" /\ ~tx[t].ro
     \/ pc[t] = "ro_post"
     \/ pc[t] = "ro_reval" /\ loc[t].reval = {}
  /\ Abort(t)

-----------------------------------------------------------------------------
(* ro_transaction_read: three loops over the request.                      *)

RoRead(t, S) ==
  /\ pc[t] = "ready" /\ tx[t].ro
  /\ loc' = [loc EXCEPT ![t] = [@ EXCEPT !.span = S, !.todo = S]]
  /\ Goto(t, "ro_pre")
  /\ UNCHANGED <<gv, vl, mem, tx, held, seen, suspect, begun, hist, done>>

(* todo once w is dealt with: the rest, or the whole request for the next loop. *)
Left(t, w) ==
  IF loc[t].todo = {w} THEN loc[t].span ELSE loc[t].todo \ {w}

(* Pre-validation: only the lock bit is tested, whatever the version. *)
RoPre(t) ==
  /\ pc[t] = "ro_pre"
  /\ \E w \in First(loc[t].todo) :
       /\ ~vl[w].locked
       /\ loc' = [loc EXCEPT ![t] = [@ EXCEPT !.prev[w] = vl[w].ver, !.todo = Left(t, w)]]
       /\ Goto(t, IF loc[t].todo = {w} THEN "ro_copy" ELSE "ro_pre")
  /\ UNCHANGED <<gv, vl, mem, tx, held, seen, suspect, begun, hist, done>>

RoPreLocked(t) ==
  /\ pc[t] = "ro_pre"
  /\ \E w \in First(loc[t].todo) : vl[w].locked
  /\ Abort(t)

(* memcpy of the whole request, word after word. *)
RoCopy(t) ==
  /\ pc[t] = "ro_copy"
  /\ \E w \in First(loc[t].todo) :
       /\ loc' = [loc EXCEPT ![t] = [@ EXCEPT !.buf[w] = mem[w], !.todo = Left(t, w)]]
       /\ Goto(t, IF loc[t].todo = {w} THEN "ro_post" ELSE "ro_copy")
  /\ UNCHANGED <<gv, vl, mem, tx, held, seen, suspect, begun, hist, done>>

(* The word is given to the caller; after the last one tm_read returns. *)
RoAccept(t, w, rv) ==
  /\ tx' = [tx EXCEPT ![t] = [@ EXCEPT !.rv = rv, !.rs = AddToReadset(t, w)]]
  /\ seen' = [seen EXCEPT ![t] = @ \cup {<<w, loc[t].buf[w]>>}]
  /\ IF loc[t].todo = {w}
     THEN Goto(t, "ready") /\ loc' = [loc EXCEPT ![t] = NoLoc]
     ELSE /\ Goto(t, "ro_post")
          /\ loc' = [loc EXCEPT ![t] = [@ EXCEPT !.todo = loc[t].todo \ {w}, !.cur = {}]]
  /\ UNCHANGED <<gv, vl, mem, held, begun, hist, done>>

(* Mutant: the lock bit is not looked at again after the copy. *)
RoPostLocked(t) ==
  /\ pc[t] = "ro_post"
  /\ \E w \in First(loc[t].todo) :
       /\ vl[w].ver = loc[t].prev[w]
       /\ vl[w].ver <= tx[t].rv
       /\ RoAccept(t, w, tx[t].rv)
  /\ UNCHANGED suspect

(* Post-validation of one word: unchanged and not newer than rv... *)
RoPost(t) ==
  /\ pc[t] = "ro_post"
  /\ \E w \in First(loc[t].todo) :
       /\ VlReadVersion(vl[w]) = loc[t].prev[w]
       /\ vl[w].ver <= tx[t].rv
       /\ RoAccept(t, w, tx[t].rv)
  /\ UNCHANGED suspect

(* ... unchanged but newer than rv: the read set has to be revalidated... *)
RoPostNewer(t) ==
  /\ pc[t] = "ro_post"
  /\ \E w \in First(loc[t].todo) :
       /\ VlReadVersion(vl[w]) = loc[t].prev[w]
       /\ vl[w].ver > tx[t].rv
       /\ loc' = [loc EXCEPT ![t].cur = {w}]
  /\ Goto(t, "ro_clock")
  /\ UNCHANGED <<gv, vl, mem, tx, held, seen, suspect, begun, hist, done>>

(* ... or written since pre-validation. *)
RoPostChanged(t) ==
  /\ pc[t] = "ro_post"
  /\ \E w \in First(loc[t].todo) : VlReadVersion(vl[w]) # loc[t].prev[w]
  /\ Abort(t)

(* next_rv = atomic_load(&tm->global_version) *)
RoClock(t) ==
  /\ pc[t] = "ro_clock"
  /\ loc' = [loc EXCEPT ![t] = [@ EXCEPT !.nrv = gv, !.reval = tx[t].rs]]
  /\ Goto(t, "ro_reval")
  /\ UNCHANGED <<gv, vl, mem, tx, held, seen, suspect, begun, hist, done>>

(* Mutant: the versions found are not compared with those read. *)
RevalidateSetsUnchecked(t) ==
  /\ pc[t] = "ro_reval"
  /\ \E r \in loc[t].reval :
       /\ ~vl[r[1]].locked
       /\ loc' = [loc EXCEPT ![t].reval = @ \ {r}]
  /\ UNCHANGED <<gv, vl, mem, pc, tx, held, seen, suspect, begun, hist, done>>

(* revalidate_sets looks at what was read before, not at the word in progress. *)
RevalidateSets(t) ==
  /\ pc[t] = "ro_reval"
  /\ \E r \in loc[t].reval :
       /\ VlReadVersion(vl[r[1]]) = r[2]
       /\ loc' = [loc EXCEPT ![t].reval = @ \ {r}]
  /\ UNCHANGED <<gv, vl, mem, pc, tx, held, seen, suspect, begun, hist, done>>

RevalidateSetsFails(t) ==
  /\ pc[t] = "ro_reval"
  /\ \E r \in loc[t].reval : VlReadVersion(vl[r[1]]) # r[2]
  /\ Abort(t)

RoRevalidated(t) ==
  /\ pc[t] = "ro_reval"
  /\ loc[t].reval = {}
  /\ suspect' = [suspect EXCEPT ![t] = loc[t].cur]
  /\ \E w \in loc[t].cur : RoAccept(t, w, loc[t].nrv)

-----------------------------------------------------------------------------
(* tm_end *)

(* Nothing was written: the transaction commits where it stands. *)
TmEndReadOnly(t) ==
  /\ pc[t] = "ready"
  /\ tx[t].ro \/ Written(t) = {}
  /\ done' = done \cup {[ro |-> tx[t].ro, at |-> tx[t].rv,
                         reads |-> seen[t], suspect |-> suspect[t]]}
  /\ TransactionCleanup(t)
  /\ UNCHANGED <<gv, vl, mem, held, begun, hist>>

(* The write set is sorted and the loop over it begins. *)
TmEnd(t) ==
  /\ pc[t] = "ready"
  /\ ~tx[t].ro /\ Written(t) # {}
  /\ loc' = [loc EXCEPT ![t].todo = Written(t)]
  /\ Goto(t, "lock")
  /\ UNCHANGED <<gv, vl, mem, tx, held, seen, suspect, begun, hist, done>>

(* Mutant: a call that fails keeps the locks it has. *)
FailKeepsLocks(t) == Abort(t)

(* Locks are given back in the order of the write set, or there are none. *)
Fail(t) ==
  IF held[t] = {}
  THEN Abort(t)
  ELSE /\ Goto(t, "release")
       /\ UNCHANGED <<gv, vl, mem, tx, held, loc, seen, suspect, begun, hist, done>>

(* vl_try_lock: the load and the test... *)
VlTryLock(t) ==
  /\ pc[t] = "lock"
  /\ \E w \in First(loc[t].todo) :
       /\ ~Stale(vl[w], tx[t].rv)
       /\ loc' = [loc EXCEPT ![t] = [@ EXCEPT !.cur = {w}, !.prev[w] = vl[w].ver]]
  /\ Goto(t, "cas")
  /\ UNCHANGED <<gv, vl, mem, tx, held, seen, suspect, begun, hist, done>>

(* Mutant: the lock is waited for. *)
VlTryLockSpins(t) ==
  /\ pc[t] = "lock"
  /\ \E w \in First(loc[t].todo) : Stale(vl[w], tx[t].rv)
  /\ UNCHANGED vars

VlTryLockStale(t) ==
  /\ pc[t] = "lock"
  /\ \E w \in First(loc[t].todo) : Stale(vl[w], tx[t].rv)
  /\ Fail(t)

(* Mutant: the compare-and-swap stores prev, without the lock bit. *)
VlCasUnlocked(t) ==
  /\ pc[t] = "cas"
  /\ \E w \in loc[t].cur :
       /\ vl[w] = [ver |-> loc[t].prev[w], locked |-> FALSE]
       /\ held' = [held EXCEPT ![t] = @ \cup {w}]
       /\ loc' = [loc EXCEPT ![t] = [@ EXCEPT !.todo = loc[t].todo \ {w}, !.cur = {}]]
       /\ Goto(t, IF loc[t].todo = {w} THEN "tick" ELSE "lock")
  /\ UNCHANGED <<gv, vl, mem, tx, seen, suspect, begun, hist, done>>

(* ... and the compare-and-swap. *)
VlCas(t) ==
  /\ pc[t] = "cas"
  /\ \E w \in loc[t].cur :
       /\ vl[w] = [ver |-> loc[t].prev[w], locked |-> FALSE]
       /\ vl' = [vl EXCEPT ![w].locked = TRUE]
       /\ held' = [held EXCEPT ![t] = @ \cup {w}]
       /\ loc' = [loc EXCEPT ![t] = [@ EXCEPT !.todo = loc[t].todo \ {w}, !.cur = {}]]
       /\ Goto(t, IF loc[t].todo = {w} THEN "tick" ELSE "lock")
  /\ UNCHANGED <<gv, mem, tx, seen, suspect, begun, hist, done>>

VlCasFails(t) ==
  /\ pc[t] = "cas"
  /\ \E w \in loc[t].cur : vl[w] # [ver |-> loc[t].prev[w], locked |-> FALSE]
  /\ Fail(t)

(* vl_unlock: the version stays, the lock bit goes. *)
VlUnlock(t) ==
  /\ pc[t] = "release"
  /\ \E w \in First(held[t]) :
       /\ vl' = [vl EXCEPT ![w].locked = FALSE]
       /\ held' = [held EXCEPT ![t] = @ \ {w}]
  /\ IF held'[t] = {}
     THEN TransactionCleanup(t)
     ELSE UNCHANGED <<pc, tx, loc, seen, suspect>>
  /\ UNCHANGED <<gv, mem, begun, hist, done>>

(* From here on the transaction cannot fail any more. *)
Decide(t, wv) ==
  /\ hist' = hist \cup {[word |-> w, ver |-> wv, val |-> tx[t].ws[w]] : w \in Written(t)}
  /\ done' = done \cup {[ro |-> FALSE, at |-> wv - 1,
                         reads |-> seen[t], suspect |-> {}]}
  /\ loc' = [loc EXCEPT ![t] = [@ EXCEPT !.wv = wv, !.todo = Written(t), !.reval = {}]]
  /\ Goto(t, "write")

(* Mutant: the read set is never validated. *)
TickUnvalidated(t) ==
  /\ pc[t] = "tick"
  /\ gv' = gv + 1
  /\ Decide(t, gv + 1)
  /\ UNCHANGED <<vl, mem, tx, held, seen, suspect, begun>>

(* atomic_fetch_add on the clock: nobody committed since tm_begin... *)
Tick(t) ==
  /\ pc[t] = "tick"
  /\ gv' = gv + 1
  /\ tx[t].rv = gv \/ tx[t].rs = {}
  /\ Decide(t, gv + 1)
  /\ UNCHANGED <<vl, mem, tx, held, seen, suspect, begun>>

(* ... or the read set has to be validated. *)
TickValidate(t) ==
  /\ pc[t] = "tick"
  /\ gv' = gv + 1
  /\ tx[t].rv # gv /\ tx[t].rs # {}
  /\ loc' = [loc EXCEPT ![t] = [@ EXCEPT !.wv = gv + 1, !.reval = tx[t].rs]]
  /\ Goto(t, "validate")
  /\ UNCHANGED <<vl, mem, tx, held, seen, suspect, begun, hist, done>>

Validate(t) ==
  /\ pc[t] = "validate"
  /\ \E r \in loc[t].reval :
       /\ ~Stale(vl[r[1]], tx[t].rv)
       /\ IF loc[t].reval = {r}
          THEN Decide(t, loc[t].wv)
          ELSE /\ loc' = [loc EXCEPT ![t].reval = @ \ {r}]
               /\ UNCHANGED <<pc, hist, done>>
  /\ UNCHANGED <<gv, vl, mem, tx, held, seen, suspect, begun>>

ValidateStale(t) ==
  /\ pc[t] = "validate"
  /\ \E r \in loc[t].reval : Stale(vl[r[1]], tx[t].rv)
  /\ Fail(t)

(* The memcpy of one word of the write set begins... *)
WriteBack(t) ==
  /\ pc[t] = "write"
  /\ \E w \in First(loc[t].todo) :
       /\ mem' = [mem EXCEPT ![w] = Torn]
       /\ loc' = [loc EXCEPT ![t].cur = {w}]
  /\ Goto(t, "copy")
  /\ UNCHANGED <<gv, vl, tx, held, seen, suspect, begun, hist, done>>

(* ... and ends. *)
WriteBackEnd(t) ==
  /\ pc[t] = "copy"
  /\ \E w \in loc[t].cur : mem' = [mem EXCEPT ![w] = tx[t].ws[w]]
  /\ Goto(t, "unlock")
  /\ UNCHANGED <<gv, vl, tx, held, loc, seen, suspect, begun, hist, done>>

(* Mutant: the version sampled by tm_begin is stored, not the ticket. *)
VlUnlockSampled(t) ==
  /\ pc[t] = "unlock"
  /\ \E w \in loc[t].cur :
       /\ vl' = [vl EXCEPT ![w] = [ver |-> tx[t].rv, locked |-> FALSE]]
       /\ held' = [held EXCEPT ![t] = @ \ {w}]
       /\ IF loc[t].todo = {w}
          THEN TransactionCleanup(t)
          ELSE /\ loc' = [loc EXCEPT ![t] = [@ EXCEPT !.todo = loc[t].todo \ {w}, !.cur = {}]]
               /\ Goto(t, "write")
               /\ UNCHANGED <<tx, seen, suspect>>
  /\ UNCHANGED <<gv, mem, begun, hist, done>>

(* vl_unlock_update: the new version, and the lock bit is clear. *)
VlUnlockUpdate(t) ==
  /\ pc[t] = "unlock"
  /\ \E w \in loc[t].cur :
       /\ vl' = [vl EXCEPT ![w] = [ver |-> loc[t].wv, locked |-> FALSE]]
       /\ held' = [held EXCEPT ![t] = @ \ {w}]
       /\ IF loc[t].todo = {w}
          THEN TransactionCleanup(t)
          ELSE /\ loc' = [loc EXCEPT ![t] = [@ EXCEPT !.todo = loc[t].todo \ {w}, !.cur = {}]]
               /\ Goto(t, "write")
               /\ UNCHANGED <<tx, seen, suspect>>
  /\ UNCHANGED <<gv, mem, begun, hist, done>>

-----------------------------------------------------------------------------
(* Specification.                                                          *)

(* What the application does: it calls. *)
Call(t) ==
  \/ \E ro \in BOOLEAN : TmBegin(t, ro)
  \/ \E w \in Words : RwRead(t, w)
  \/ \E w \in Words : RwReadStale(t, w)
  \/ \E w \in Words, v \in Writes : TmWrite(t, w, v)
  \/ \E w \in Words : TmWriteStale(t, w)
  \/ \E S \in Spans : RoRead(t, S)
  \/ AllocFails(t)
  \/ TmEndReadOnly(t)
  \/ TmEnd(t)

(* What a thread does inside a call. *)
ReadStep(t) ==
  \/ RwCopy(t) \/ RwPost(t) \/ RwPostChanged(t)
  \/ RoPre(t) \/ RoPreLocked(t) \/ RoCopy(t)
  \/ RoPost(t) \/ RoPostNewer(t) \/ RoPostChanged(t)
  \/ RoClock(t) \/ RevalidateSets(t) \/ RevalidateSetsFails(t) \/ RoRevalidated(t)

EndStep(t) ==
  \/ VlTryLock(t) \/ VlTryLockStale(t) \/ VlCas(t) \/ VlCasFails(t) \/ VlUnlock(t)
  \/ Tick(t) \/ TickValidate(t) \/ Validate(t) \/ ValidateStale(t)
  \/ WriteBack(t) \/ WriteBackEnd(t) \/ VlUnlockUpdate(t)

(* The bound is reached and every call has returned. *)
Stopped ==
  /\ begun = MaxTx
  /\ \A t \in Threads : pc[t] = "idle"
  /\ UNCHANGED vars

Next ==
  \/ \E t \in Threads : Call(t) \/ ReadStep(t) \/ EndStep(t)
  \/ Stopped

Spec == Init /\ [][Next]_vars

(* A thread inside a call keeps running; nothing forces it to make a call. *)
FairSpec == Spec /\ \A t \in Threads : WF_vars(ReadStep(t) \/ EndStep(t))

-----------------------------------------------------------------------------
(* Properties.                                                             *)

TypeOK ==
  /\ gv \in Nat
  /\ vl \in [Words -> [ver : Nat, locked : BOOLEAN]]
  /\ mem \in [Words -> Values \cup {Torn}]
  /\ pc \in [Threads -> PCs]
  /\ tx \in [Threads -> Transaction]
  /\ held \in [Threads -> SUBSET Words]
  /\ loc \in [Threads -> Locals]
  /\ seen \in [Threads -> SUBSET (Words \X (Values \cup {Torn}))]
  /\ suspect \in [Threads -> SUBSET Words]
  /\ begun \in Nat
  /\ hist \in SUBSET [word : Words, ver : Nat, val : Values]
  /\ done \in SUBSET [ro : BOOLEAN, at : Nat, suspect : SUBSET Words,
                      reads : SUBSET (Words \X (Values \cup {Torn}))]

(* A versioned lock is locked exactly while one thread is in the part of     *)
(* tm_end that owns it: no lock is lost by an abort path and none is given   *)
(* back twice (vl_unlock subtracts one without looking).                     *)
LockOwnership ==
  /\ \A w \in Words : vl[w].locked <=> \E t \in Threads : w \in held[t]
  /\ \A t, u \in Threads : t # u => held[t] \cap held[u] = {}
  /\ \A t \in Threads :
       held[t] # {} => pc[t] \in {"lock", "cas", "release", "tick", "validate",
                                 "write", "copy", "unlock"}

(* val is the content of word w in the state left by the commits up to s. *)
Holds(w, val, s) ==
  \E h \in hist :
    /\ h.word = w /\ h.val = val /\ h.ver <= s
    /\ \A g \in hist : g.word = w /\ g.ver <= s => g.ver <= h.ver

Consistent(reads, s) == \A r \in reads : Holds(r[1], r[2], s)

Trusted(reads, S) == {r \in reads : r[1] \notin S}

(* An unlocked word holds its newest committed content, under the version of *)
(* that commit: write-back is complete before vl_unlock_update, and an abort *)
(* leaves both alone.                                                        *)
LatestInMemory ==
  \A w \in Words :
    ~vl[w].locked =>
      /\ [word |-> w, ver |-> vl[w].ver, val |-> mem[w]] \in hist
      /\ \A h \in hist : h.word = w => h.ver <= vl[w].ver

(* Opacity: at any time, even if it will abort, what a transaction was given *)
(* is the content of the region at its read version.  The word whose version *)
(* made ro_transaction_read revalidate is left out: see RoAtomic.            *)
Opacity ==
  \A t \in Threads :
    pc[t] # "idle" => Consistent(Trusted(seen[t], suspect[t]), tx[t].rv)

(* Serializability in the order of the clock: what a committed transaction   *)
(* was given is what the commits before it left, for a writer those with a   *)
(* smaller ticket, for the others those up to their read version.            *)
Serializable ==
  \A d \in done : Consistent(Trusted(d.reads, d.suspect), d.at)

(* Whatever a read returned was committed; never a half-copied word, nor the *)
(* write of a transaction that may still abort.                              *)
ReadCommitted ==
  \A t \in Threads : \A r \in seen[t] :
    \E h \in hist : h.word = r[1] /\ h.val = r[2]

(* The invariant the workload checks (workload.hpp:309): a read-only          *)
(* transaction that commits was given one state of the region.               *)
RoAtomic ==
  \A d \in done : d.ro => \E s \in 0 .. gv : Consistent(d.reads, s)

(* What is left of the address of w in an int: its offset, without the segment. *)
LowBits(w) == Addr[w] % IntRange

(* The order in which locks are taken is the order of the offsets: two        *)
(* transactions that each hold the lock the other one fails on do so over two *)
(* words of the same offset, in two segments, which ws_item_cmp cannot tell   *)
(* apart.  A word at half the range of an int (2 GiB) or beyond changes the   *)
(* sign of a difference, so that a write set with one has no order.           *)
NoCrossedLocks ==
  \A t, u \in Threads : \A a \in held[t], b \in held[u] :
    /\ pc[t] = "lock" /\ b \in First(loc[t].todo)
    /\ pc[u] = "lock" /\ a \in First(loc[u].todo)
    /\ \A w \in Written(t) \cup Written(u) : 2 * LowBits(w) < IntRange
    => LowBits(a) = LowBits(b)

(* The content of a word changes under its lock only, and a version never goes *)
(* back: vl_unlock_update stores a newer one, vl_unlock the same.              *)
GuardedWrites ==
  [][\A w \in Words :
       /\ mem'[w] # mem[w] => vl[w].locked /\ vl'[w].locked
       /\ vl'[w].ver # vl[w].ver => vl'[w].ver > vl[w].ver /\ vl[w].locked]_vars

(* Every call returns: a lock that is held, or a version that is too new, makes *)
(* the call fail, so under fair scheduling no thread ever waits for another.    *)
CallsReturn ==
  \A t \in Threads : pc[t] \notin {"idle", "ready"} ~> pc[t] \in {"idle", "ready"}

=============================================================================
