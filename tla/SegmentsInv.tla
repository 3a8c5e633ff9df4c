----------------------------- MODULE SegmentsInv -----------------------------
(***************************************************************************)
(* The inductive invariant of Segments.tla, in three parts: Shape holds    *)
(* always, Kept when memory does not run out, Returned when moreover a     *)
(* transaction that frees also writes.  The properties of Segments.tla     *)
(* follow from them (SegmentsProofs.tla).                                  *)
(***************************************************************************)
EXTENDS Segments

-----------------------------------------------------------------------------
(* Shape                                                                   *)

Transaction == [wrote : BOOLEAN, toFree : Seq(Spots), mine : SUBSET Addresses(Spots)]
Locals      == [spot : Spots, list : Seq(Spots), next : Nat]

RunningThreads == {t \in Threads : Running(t)}

(* tm_alloc loads and stores the list, or va_n, with the mutex. *)
Popping ==
  \A t \in Threads :
    /\ pc[t] \in {"pop", "unlink"} <=> vmLock = t
    /\ pc[t] = "pop" => SpotLeft
    /\ pc[t] \in {"unlink", "push"} => loc[t].list # <<>>

(* There is something to append as long as the loop runs. *)
Appending ==
  \A t \in Threads :
    /\ pc[t] \in {"append", "appending"} => tx[t].toFree # <<>>
    /\ pc[t] = "appending" <=> freeLock = t

(* The deletion loop starts from the first entry. *)
Looping ==
  \A t \in Threads :
    /\ loc[t].next > 0
    /\ pc[t] # "delete" => loc[t].next = 1

(* Each running transaction holds a read lock. *)
ReadersEnough ==
  /\ IsFiniteSet(RunningThreads)
  /\ Cardinality(RunningThreads) <= readers

(* A batch is deleted by the owner of the write lock, and nobody reads. *)
WriterAlone ==
  /\ writer # None => readers = 0
  /\ \A t \in Threads : pc[t] = "delete" <=> writer = t

Shape == TypeOK /\ Popping /\ Appending /\ Looping /\ ReadersEnough /\ WriterAlone

(* It follows: while a thread deletes segments no transaction runs. *)
NobodyRuns ==
  (\E t \in Threads : pc[t] = "delete") => RunningThreads = {}

-----------------------------------------------------------------------------
(* Kept                                                                    *)

(* A transaction that has not written back yet. *)
Open(t) == pc[t] \in {"ready", "pop", "unlink", "init"}

(* The frees of a transaction that has written back. *)
Pending(t) == IF pc[t] \in {"append", "appending"} THEN Elements(tx[t].toFree) ELSE {}

(* What a thread leaves behind when it has no transaction. *)
AtRest ==
  \A t \in Threads :
    /\ pc[t] = "idle" => tx[t] = NoTx
    /\ ~Running(t) => reach[t] = {}
    /\ gone => pc[t] = "idle"

(* Spots are below va_n, and hold a segment or nothing. *)
SpotsKnown ==
  /\ \A s \in Spots : va[s] = "live" => s < vaN
  /\ ~gone => \A s \in Spots : va[s] \in {"null", "live"}
  /\ \A t \in Threads :
       /\ pc[t] # "push"
       /\ pc[t] = "init" => loc[t].spot < vaN
       /\ pc[t] = "unlink" => loc[t].list = empty /\ loc[t].spot = Head(empty)

(* What a transaction allocated is its own until it commits. *)
MineMine ==
  \A t \in Threads : Open(t) => \A a \in tx[t].mine :
    /\ va[IndexFromVa(a)] = "live"
    /\ a \notin linked
    /\ IndexFromVa(a) \notin Elements(toFree)
    /\ \A u \in Threads : IndexFromVa(a) \notin Pending(u)
    /\ \A u \in Threads : u # t /\ Open(u) => a \notin tx[u].mine

(* What a committed transaction freed is unlinked, and there until a batch  *)
(* is deleted.                                                              *)
Doomed ==
  /\ \A s \in Elements(toFree) :
       VaFromIndex(s) \notin linked /\ (writer = None => va[s] = "live")
  /\ \A t \in Threads : \A s \in Pending(t) :
       VaFromIndex(s) \notin linked /\ va[s] = "live"

Kept == AtRest /\ ReadersRun /\ SpotsKnown /\ SpotsDistinct /\ LinkedLive /\ MineMine /\ Doomed

-----------------------------------------------------------------------------
(* Returned                                                                *)

(* What the deletion loop has gone over is deleted. *)
Deleted ==
  \A t \in Threads : pc[t] = "delete" =>
    \A i \in 1 .. Len(toFree) : i < loc[t].next => toFree[i] \notin freed

Returned == FreesKept /\ Deleted

=============================================================================
