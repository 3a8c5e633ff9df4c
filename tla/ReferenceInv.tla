----------------------------- MODULE ReferenceInv -----------------------------
(***************************************************************************)
(* The inductive invariant of the reference library (Reference.tla): who   *)
(* has the lock, which addresses a transaction has, what the pointers in   *)
(* the memory point to, and the shape of the list of segments between the  *)
(* stores of tm_alloc and tm_free.  What the run checks follows from it    *)
(* (ReferenceProofs.tla).                                                  *)
(***************************************************************************)
EXTENDS Reference

(* Readers together or one writer; only a writer allocates and frees. *)
LockInv ==
  /\ readers = {t \in Threads : mode[t] = "ro"}
  /\ writer # None => readers = {}
  /\ \A t \in Threads :
       /\ writer = t <=> mode[t] = "rw"
       /\ pc[t] # "out" => mode[t] = "rw"
       /\ destroyed => mode[t] = "none"

(* A transaction has addresses of segments that live, or of the one that it *)
(* is freeing, and what it read last is still there.                        *)
AddressOf(t) ==
  /\ mode[t] = "none" => known[t] = {} /\ got[t] = {}
  /\ known[t] \ {s \in {node[t]} : pc[t] = "clear"} \subseteq Start \cup alive
  /\ got[t] \subseteq {<<w, mem[w]>> : w \in known[t]}

(* The segment of tm_alloc lives and nothing points to it; that of tm_free *)
(* hangs on one word, and lives until it is freed.                         *)
CallOf(t) ==
  pc[t] # "out" =>
    /\ node[t] \in Segs /\ slot[t] \in Roots \cup alive /\ slot[t] # node[t]
    /\ node[t] \in alive <=> pc[t] # "clear"
    /\ IF pc[t] \in {"back", "head", "memset", "publish"}
       THEN \A w \in Words : mem[w] # node[t]
       ELSE mem[slot[t]] = node[t]

(* A pointer points to a segment that lives, or to the one just freed, and *)
(* no two of them to the same.                                             *)
PointerInv ==
  ~destroyed =>
    /\ \A w \in Data : mem[w] \notin Segs
    /\ \A s \in Segs \ alive : mem[s] = Garbage
    /\ \A w \in Words : mem[w] \in Segs \ alive =>
         \E t \in Threads : pc[t] = "clear" /\ w = slot[t] /\ mem[w] = node[t]
    /\ \A w, u \in Words : mem[w] \in Segs /\ mem[w] = mem[u] => w = u

(* q is the list of the n segments in S, from first on. *)
IsList(q, n, S, first, nx, pv) ==
  /\ q \in [1 .. n -> S]
  /\ \A s \in S : \E i \in 1 .. n : q[i] = s
  /\ \A i, j \in 1 .. n : q[i] = q[j] => i = j
  /\ first = IF n = 0 THEN Zero ELSE q[1]
  /\ \A i \in 1 .. n : /\ nx[q[i]] = IF i = n THEN Zero ELSE q[i + 1]
                       /\ pv[q[i]] = IF i = 1 THEN Zero ELSE q[i - 1]

List(S, first, nx, pv) ==
  \E n \in 0 .. Cardinality(Segs) : \E q \in [1 .. n -> S] : IsList(q, n, S, first, nx, pv)

(* prev once tm_free has taken the node of t out of the list. *)
PrevWithout(t) == [s \in Segs |-> IF s = next[node[t]] THEN prev[node[t]] ELSE prev[s]]

(* The list holds what lives, but for a segment that is not yet in it, or  *)
(* is no longer.                                                           *)
ListOf(t) ==
  LET others == alive \ {node[t]} IN
  /\ pc[t] \in {"out", "memset", "publish", "unlink", "clear"} => List(alive, allocs, next, prev)
  /\ pc[t] = "back" => /\ List(others, allocs, next, prev)
                       /\ next[node[t]] = allocs /\ prev[node[t]] = Zero
  /\ pc[t] = "head" => List(alive, node[t], next, prev)
  /\ pc[t] = "unlink_next" => List(others, allocs, next, PrevWithout(t))
  /\ pc[t] = "free" => List(others, allocs, next, prev)

ListInv ==
  IF destroyed
  THEN alive = {}
  ELSE /\ (\A t \in Threads : pc[t] = "out") => List(alive, allocs, next, prev)
       /\ \A t \in Threads : pc[t] # "out" => ListOf(t)

RefInv ==
  /\ TypeOK /\ LockInv /\ PointerInv /\ ListInv
  /\ \A t \in Threads : AddressOf(t) /\ CallOf(t)

=============================================================================
