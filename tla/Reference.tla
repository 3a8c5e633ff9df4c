------------------------------ MODULE Reference ------------------------------
(***************************************************************************)
(* The reference library, reference/tm.c: one readers-writer lock for the  *)
(* whole region, accesses in place, and a doubly linked list of the        *)
(* segments that were allocated.                                           *)
(*                                                                         *)
(* A step is an operation on the lock, the copy of one word, or a store to *)
(* the list.  Calls that fail (a lock that cannot be taken, no memory)     *)
(* change nothing.  The callers are those of the grading workload: they    *)
(* reach segments through pointers in the memory (Shared<Type *> in        *)
(* grading/transactional.hpp), put a new segment where they read a null    *)
(* pointer, and free one that has no successor.                            *)
(***************************************************************************)
EXTENDS Integers, FiniteSets

CONSTANTS
  Threads,
  Data,    \* words of the first segment with plain contents
  Roots,   \* words of the first segment that hold pointers
  Segs,    \* addresses of other segments; each holds a pointer
  Values,  \* plain contents
  Zero,    \* zero, and the null pointer
  Garbage, \* what fresh memory holds
  Free,    \* no memory (abstract memory only)
  None     \* no thread

ASSUME ReferenceAssumption ==
  /\ IsFiniteSet(Segs) /\ IsFiniteSet(Threads)
  /\ Zero \in Values
  /\ Roots # {} /\ Roots \cap Data = {} /\ (Roots \cup Data) \cap Segs = {}
  /\ Values \cap Segs = {}
  /\ {Garbage, Free} \cap (Values \cup Segs) = {} /\ Garbage # Free
  /\ None \notin Threads

VARIABLES
  readers, \* who holds region->lock shared
  writer,  \* who holds it exclusively
  mem,     \* contents of the words
  alive,   \* segments that malloc has given out
  allocs,  \* region->allocs
  next,    \* next[s], prev[s]: links of segment s; Zero for NULL
  prev,
  mode,    \* mode[t]: the handle t has: "none", "ro" or "rw"
  pc,      \* pc[t]: where in tm_alloc or tm_free t is
  node,    \* node[t]: the segment that it is about
  slot,    \* slot[t]: the word that points, or will point, to it
  known,   \* known[t]: addresses that t's transaction has
  got,     \* got[t]: what its last tm_read returned
  pre,     \* history: the memory when the last writer began, or at the end
  destroyed

lockVars == <<readers, writer>>
listVars == <<allocs, next, prev>>
callVars == <<pc, node, slot>>
vars == <<lockVars, mem, alive, listVars, mode, callVars, known, got, pre, destroyed>>

Start == Roots \cup Data
Words == Start \cup Segs
Links == Segs \cup {Zero}

(* Segments the memory shows: not those whose tm_alloc has not returned. *)
Allocating == {node[t] : t \in {u \in Threads : pc[u] \in {"back", "head", "memset"}}}
Shown == [w \in Words |-> IF w \in Start \cup (alive \ Allocating) THEN mem[w] ELSE Free]

Init ==
  /\ readers = {} /\ writer = None
  /\ mem = [w \in Words |-> IF w \in Start THEN Zero ELSE Garbage]
  /\ alive = {}
  /\ allocs = Zero
  /\ next = [s \in Segs |-> Zero] /\ prev = [s \in Segs |-> Zero]
  /\ mode = [t \in Threads |-> "none"]
  /\ pc = [t \in Threads |-> "out"]
  /\ node = [t \in Threads |-> Zero]
  /\ slot = [t \in Threads |-> Zero]
  /\ known = [t \in Threads |-> {}]
  /\ got = [t \in Threads |-> {}]
  /\ pre = Shown
  /\ destroyed = FALSE

-----------------------------------------------------------------------------
(* tm_begin and tm_end                                                     *)

Begin(t, m) ==
  /\ mode[t] = "none" /\ ~destroyed
  /\ mode' = [mode EXCEPT ![t] = m]
  /\ known' = [known EXCEPT ![t] = Start]
  /\ UNCHANGED <<mem, alive, listVars, callVars, got, destroyed>>

(* shared_lock_acquire_shared *)
TmBeginRO(t) ==
  /\ writer = None
  /\ readers' = readers \cup {t}
  /\ UNCHANGED <<writer, pre>>
  /\ Begin(t, "ro")

(* Mutant: a read-write transaction takes the lock although there are readers. *)
TmBeginNoWait(t) ==
  /\ writer = None
  /\ writer' = t
  /\ pre' = Shown
  /\ UNCHANGED readers
  /\ Begin(t, "rw")

(* shared_lock_acquire *)
TmBeginRW(t) ==
  /\ writer = None /\ readers = {}
  /\ writer' = t
  /\ pre' = Shown
  /\ UNCHANGED readers
  /\ Begin(t, "rw")

Idle(t) == pc[t] = "out" /\ mode[t] # "none"

TmEnd(t) ==
  /\ Idle(t)
  /\ IF mode[t] = "ro" THEN readers' = readers \ {t} /\ UNCHANGED writer
                       ELSE writer' = None /\ UNCHANGED readers
  /\ mode' = [mode EXCEPT ![t] = "none"]
  /\ known' = [known EXCEPT ![t] = {}]
  /\ got' = [got EXCEPT ![t] = {}]
  /\ UNCHANGED <<mem, alive, listVars, callVars, pre, destroyed>>

-----------------------------------------------------------------------------
(* tm_read and tm_write                                                    *)

TmRead(t, w) ==
  /\ Idle(t) /\ w \in known[t]
  /\ got' = [got EXCEPT ![t] = {<<w, mem[w]>>}]
  /\ known' = [known EXCEPT ![t] = @ \cup ({mem[w]} \cap Segs)]
  /\ UNCHANGED <<lockVars, mem, alive, listVars, mode, callVars, pre, destroyed>>

Store(t, w, c) ==
  /\ mem' = [mem EXCEPT ![w] = c]
  /\ got' = [got EXCEPT ![t] = {}]

TmWrite(t, w, v) ==
  /\ Idle(t) /\ mode[t] = "rw" /\ w \in Data
  /\ Store(t, w, v)
  /\ UNCHANGED <<lockVars, alive, listVars, mode, callVars, known, pre, destroyed>>

-----------------------------------------------------------------------------
(* tm_alloc, and the tm_write of Shared<Type *>::alloc                     *)

Goto(t, l) == pc' = [pc EXCEPT ![t] = l]

(* posix_memalign returns s; sn->prev and sn->next *)
NewNode(t, w, s) ==
  /\ Idle(t) /\ mode[t] = "rw"
  /\ w \in Roots \cup Segs /\ got[t] = {<<w, Zero>>}
  /\ s \notin alive
  /\ alive' = alive \cup {s}
  /\ prev' = [prev EXCEPT ![s] = Zero]
  /\ next' = [next EXCEPT ![s] = allocs]
  /\ node' = [node EXCEPT ![t] = s]
  /\ slot' = [slot EXCEPT ![t] = w]
  /\ Goto(t, "back")
  /\ UNCHANGED <<lockVars, mem, allocs, mode, known, got, pre, destroyed>>

(* Mutant: the old head does not learn of its predecessor. *)
NoLinkBack(t) ==
  /\ pc[t] = "back"
  /\ Goto(t, "head")
  /\ UNCHANGED <<lockVars, mem, alive, listVars, mode, node, slot, known, got,
                 pre, destroyed>>

LinkBack(t) ==
  /\ pc[t] = "back"
  /\ prev' = [s \in Segs |-> IF s = next[node[t]] THEN node[t] ELSE prev[s]]
  /\ Goto(t, "head")
  /\ UNCHANGED <<lockVars, mem, alive, allocs, next, mode, node, slot, known, got,
                 pre, destroyed>>

LinkHead(t) ==
  /\ pc[t] = "head"
  /\ allocs' = node[t]
  /\ Goto(t, "memset")
  /\ UNCHANGED <<lockVars, mem, alive, next, prev, mode, node, slot, known, got,
                 pre, destroyed>>

ZeroSegment(t) ==
  /\ pc[t] = "memset"
  /\ Store(t, node[t], Zero)
  /\ known' = [known EXCEPT ![t] = @ \cup {node[t]}]
  /\ Goto(t, "publish")
  /\ UNCHANGED <<lockVars, alive, listVars, mode, node, slot, pre, destroyed>>

(* Forget the call's locals. *)
Return(t) ==
  /\ Goto(t, "out")
  /\ node' = [node EXCEPT ![t] = Zero]
  /\ slot' = [slot EXCEPT ![t] = Zero]

(* Mutant: source and target of tm_write change places. *)
PublishSwapped(t) ==
  /\ pc[t] = "publish"
  /\ Store(t, node[t], slot[t])
  /\ Return(t)
  /\ UNCHANGED <<lockVars, alive, listVars, mode, known, pre, destroyed>>

Publish(t) ==
  /\ pc[t] = "publish"
  /\ Store(t, slot[t], node[t])
  /\ Return(t)
  /\ UNCHANGED <<lockVars, alive, listVars, mode, known, pre, destroyed>>

-----------------------------------------------------------------------------
(* tm_free, and the tm_write of Shared<Type *>::free                       *)

TmFree(t, w, s) ==
  /\ Idle(t) /\ mode[t] = "rw"
  /\ got[t] = {<<w, s>>} /\ mem[s] = Zero
  /\ node' = [node EXCEPT ![t] = s]
  /\ slot' = [slot EXCEPT ![t] = w]
  /\ Goto(t, "unlink")
  /\ UNCHANGED <<lockVars, mem, alive, listVars, mode, known, got, pre, destroyed>>

UnlinkPrev(t) ==
  /\ pc[t] = "unlink"
  /\ LET s == node[t] IN
       IF prev[s] # Zero
       THEN next' = [next EXCEPT ![prev[s]] = next[s]] /\ UNCHANGED allocs
       ELSE allocs' = next[s] /\ UNCHANGED next
  /\ Goto(t, "unlink_next")
  /\ UNCHANGED <<lockVars, mem, alive, prev, mode, node, slot, known, got, pre,
                 destroyed>>

UnlinkNext(t) ==
  /\ pc[t] = "unlink_next"
  /\ prev' = [s \in Segs |-> IF s = next[node[t]] THEN prev[node[t]] ELSE prev[s]]
  /\ Goto(t, "free")
  /\ UNCHANGED <<lockVars, mem, alive, allocs, next, mode, node, slot, known, got,
                 pre, destroyed>>

(* What was in the block is undefined from here on. *)
FreeNode(t) ==
  /\ pc[t] = "free"
  /\ alive' = alive \ {node[t]}
  /\ Store(t, node[t], Garbage)
  /\ next' = [next EXCEPT ![node[t]] = Zero]
  /\ prev' = [prev EXCEPT ![node[t]] = Zero]
  /\ Goto(t, "clear")
  /\ UNCHANGED <<lockVars, allocs, mode, node, slot, known, pre, destroyed>>

(* Mutant: the pointer to the freed segment stays. *)
LeavePointer(t) ==
  /\ pc[t] = "clear"
  /\ known' = [known EXCEPT ![t] = @ \ {node[t]}]
  /\ Return(t)
  /\ UNCHANGED <<lockVars, mem, alive, listVars, mode, got, pre, destroyed>>

ClearPointer(t) ==
  /\ pc[t] = "clear"
  /\ Store(t, slot[t], Zero)
  /\ known' = [known EXCEPT ![t] = @ \ {node[t]}]
  /\ Return(t)
  /\ UNCHANGED <<lockVars, alive, listVars, mode, pre, destroyed>>

-----------------------------------------------------------------------------
(* tm_destroy                                                              *)

(* Walk[n]: the segment that the loop of tm_destroy frees in its n-th round *)
Walk[n \in 0 .. Cardinality(Segs)] ==
  IF n = 0 THEN allocs ELSE IF Walk[n - 1] = Zero THEN Zero ELSE next[Walk[n - 1]]

Listed == {Walk[n] : n \in DOMAIN Walk} \ {Zero}

TmDestroy ==
  /\ ~destroyed /\ \A t \in Threads : mode[t] = "none"
  /\ alive' = alive \ Listed
  /\ allocs' = Zero
  /\ destroyed' = TRUE
  /\ pre' = Shown
  /\ UNCHANGED <<lockVars, mem, next, prev, mode, callVars, known, got>>

-----------------------------------------------------------------------------
(* Specification                                                           *)

Ended == destroyed /\ UNCHANGED vars

Call(t) ==
  \/ TmBeginRO(t) \/ TmBeginRW(t) \/ TmEnd(t)
  \/ \E w \in Words : TmRead(t, w) \/ \E v \in Values : TmWrite(t, w, v)
  \/ \E w \in Words, s \in Segs : NewNode(t, w, s) \/ TmFree(t, w, s)
  \/ LinkBack(t) \/ LinkHead(t) \/ ZeroSegment(t) \/ Publish(t)
  \/ UnlinkPrev(t) \/ UnlinkNext(t) \/ FreeNode(t) \/ ClearPointer(t)

Next == (\E t \in Threads : Call(t)) \/ TmDestroy \/ Ended

Spec == Init /\ [][Next]_vars

-----------------------------------------------------------------------------
(* Properties                                                              *)

(* Every variable keeps its type. *)
TypeOK ==
  /\ readers \subseteq Threads /\ writer \in Threads \cup {None}
  /\ mem \in [Words -> Values \cup Segs \cup {Garbage}]
  /\ alive \subseteq Segs /\ allocs \in Links
  /\ next \in [Segs -> Links] /\ prev \in [Segs -> Links]
  /\ mode \in [Threads -> {"none", "ro", "rw"}]
  /\ pc \in [Threads -> {"out", "back", "head", "memset", "publish", "unlink",
                         "unlink_next", "free", "clear"}]
  /\ node \in [Threads -> Links] /\ slot \in [Threads -> Words \cup {Zero}]
  /\ known \in [Threads -> SUBSET Words]
  /\ got \in [Threads -> SUBSET (Words \X (Values \cup Segs \cup {Garbage}))]
  /\ pre \in [Words -> Values \cup Segs \cup {Garbage, Free}]
  /\ destroyed \in BOOLEAN

(* Whenever no writer is at work the list holds every segment that was      *)
(* allocated and not freed, once, linked both ways: tm_free unlinks in      *)
(* constant time from what it finds there, and tm_destroy frees what is     *)
(* listed and nothing else, so that nothing is left.                        *)
ListOfSegments ==
  /\ writer = None /\ ~destroyed =>
       /\ Listed = alive /\ Walk[Cardinality(Segs)] = Zero
       /\ \A s \in alive : IF s = allocs THEN prev[s] = Zero
                           ELSE prev[s] \in alive /\ next[prev[s]] = s
  /\ destroyed => alive = {}

(* A transaction has no address of a freed segment, although tm_free frees  *)
(* at once: the lock has kept out who could still have it.                  *)
NoDanglingAddress ==
  \A t \in Threads :
    known[t] \ {s \in {node[t]} : pc[t] = "clear"} \subseteq Start \cup alive

(* The library is an atomic memory: what a transaction reads is one state   *)
(* of the memory and its own changes, and its changes appear at tm_end.     *)
(* The lock keeps every word from changing under a transaction; while a     *)
(* writer is at work the memory is what it was when it began.               *)
Committed == IF writer = None /\ ~destroyed THEN Shown ELSE pre
NoView == [w \in Words |-> Free]

Atomic == INSTANCE AtomicMemory WITH
  Contents <- Values \cup Segs,
  mem <- Committed,
  used <- [t \in Threads |-> IF mode[t] = "none" THEN {} ELSE Words],
  snap <- [t \in Threads |-> IF mode[t] = "none" THEN NoView ELSE Committed],
  view <- [t \in Threads |-> CASE mode[t] = "none" -> NoView
                               [] mode[t] = "ro" -> Committed
                               [] mode[t] = "rw" -> Shown]

ImplementsAtomicMemory == Atomic!Spec

=============================================================================
