------------------------------- MODULE BankInv -------------------------------
(***************************************************************************)
(* The inductive invariant of the bank (Bank.tla): the list as a function  *)
(* from positions, what a state of the memory is between two transactions, *)
(* what a transaction has seen and done so far, and how far the workers    *)
(* are.  What the run checks follows from it (BankProofs.tla).             *)
(***************************************************************************)
EXTENDS Bank

Allocated(m) == {s \in Addresses : m[s] # Null}

(* q is the list of what is allocated, from the first segment at 0 on.      *)
IsList(q, k, m) ==
  /\ q \in [0 .. k -> Addresses] /\ q[0] = First
  /\ \A i, j \in 0 .. k : q[i] = q[j] => i = j
  /\ Allocated(m) = {q[i] : i \in 0 .. k}
  /\ \A i \in 0 .. k : m[q[i]].next = IF i = k THEN Null ELSE q[i + 1]

Listed(m) == \E k \in 0 .. Cardinality(Segs) : \E q \in [0 .. k -> Addresses] : IsList(q, k, m)

(* A state that the body of a transaction relies on, and leaves behind. *)
Shaped(m) ==
  /\ Listed(m)
  /\ \A s \in Allocated(m) :
       /\ m[s].count \in 1 .. NbAccounts /\ ~Indebted(m[s])
       /\ m[s].next # Null => m[s].count = NbAccounts

Sound(m) == Shaped(m) /\ Money(m, Allocated(m)) = InitBalance * Number(m, Allocated(m))

(* The memory before and after the transaction of init. *)
Only(s) == [a \in Addresses |-> IF a = First THEN s ELSE Null]
Created == Only(Fresh)
Opened == Only(Segment(NbAccounts, Null, 0, [i \in Places |-> InitBalance]))

-----------------------------------------------------------------------------
(* A walk through m is at a segment, and has been at those before it.      *)
Walk(m, past, l) ==
  \E k \in 0 .. Cardinality(Segs) : \E q \in [0 .. k -> Addresses] : \E j \in 0 .. k :
    /\ IsList(q, k, m)
    /\ l.at = q[j] /\ past = {q[i] : i \in 0 .. j - 1}
    /\ l.prev \in {Null, IF j = 0 THEN Null ELSE q[j - 1]}
    /\ l.count = Number(m, past)

IsPlace(m, p) == p[1] \in Allocated(m) /\ p[2] \in Places /\ p[2] < m[p[1]].count

(* What short_tx did to v, or that there was nothing to pay with. *)
Transferred(m, v, send, recv) ==
  /\ IsPlace(m, send) /\ IsPlace(m, recv)
  /\ v = IF Balance(m, send) > 0 THEN Paid(Paid(m, send, -1), recv, 1) ELSE m

(* What the body can have returned. *)
Results(o) == {"none", "true"} \cup (IF o = "short" THEN {"false"} ELSE {})
                               \cup (IF o = "alloc" THEN {"nomem"} ELSE {})

RunOps == {"long", "last", "alloc", "short"}

Outside(w) ==
  mode[w] = "none" => /\ snap[w] = M!NoView /\ view[w] = M!NoView /\ used[w] = {}
                      /\ loc[w] = NewLoc /\ res[w] = "none"

Inside(w) ==
  mode[w] # "none" =>
    /\ op[w] \in InTx /\ mode[w] = IF op[w] \in ReadWrite THEN "rw" ELSE "ro"
    /\ res[w] \in Results(op[w])
    /\ ~(res[w] = "true" /\ op[w] \in ReadWrite) => view[w] = snap[w]
    /\ op[w] \notin RunOps => loc[w] = NewLoc /\ (res[w] = "none" => used[w] = {})

(* The transactions of init, of run and of check. *)
InitTx(w) ==
  mode[w] # "none" =>
    /\ op[w] = "init" => snap[w] \in {Created, Opened}
    /\ op[w] = "init" /\ res[w] = "true" => view[w] = Opened /\ used[w] = {First}
    /\ op[w] = "init_check" => snap[w] = Opened

LongTx(w) ==
  mode[w] # "none" /\ res[w] = "none" /\ op[w] \in {"long", "last"} =>
    Walk(snap[w], used[w], loc[w]) /\ loc[w].prev = Null /\ loc[w].sum = Money(snap[w], used[w])

AllocTx(w) ==
  mode[w] # "none" /\ op[w] = "alloc" =>
    /\ res[w] = "none" => Walk(snap[w], used[w], loc[w]) /\ (used[w] # {} => loc[w].prev # Null)
    /\ res[w] = "true" => /\ Sound(view[w]) /\ Allocated(snap[w]) \subseteq used[w]
                          /\ \A s \in Addresses \ used[w] : view[w][s] = snap[w][s]

ShortTx(w) ==
  LET send == loc[w].send
      recv == loc[w].recv IN
  mode[w] # "none" /\ op[w] = "short" =>
    /\ \A p \in {send, recv} \ {Null} : IsPlace(snap[w], p)
    /\ res[w] = "none" => loc[w].at \in Allocated(snap[w])
    /\ res[w] = "true" => /\ Transferred(snap[w], view[w], send, recv)
                          /\ {send[1], recv[1]} \subseteq used[w]

CheckTx(w) ==
  mode[w] # "none" =>
    /\ op[w] \in {"counter_check", "zero"} => snap[w] = mem
    /\ op[w] \in {"counter_init", "decrease"} /\ res[w] = "true" =>
         /\ used[w] = {First}
         /\ view[w] = [snap[w] EXCEPT ![First].count = IF op[w] = "decrease" THEN @ - 1 ELSE InitCounter]
    /\ op[w] \in {"fetch", "decrease"} => mem[First].count <= snap[w][First].count
    /\ op[w] = "decrease" => snap[w][First].count <= known[w]
    /\ op[w] = "fetch" /\ res[w] = "true" => known[w] = snap[w][First].count

(* Every transaction works on a list, in run on one that is sound. *)
Snapshot(w) ==
  mode[w] # "none" => Listed(snap[w]) /\ (op[w] \in RunOps => Sound(snap[w]))

TxInv(w) ==
  /\ Outside(w) /\ Inside(w) /\ Snapshot(w)
  /\ InitTx(w) /\ LongTx(w) /\ AllocTx(w) /\ ShortTx(w) /\ CheckTx(w)

-----------------------------------------------------------------------------
(* How far the workers are *)

OpenOps == {"init", "init_check", "init_threw"}
Opening == \E w \in Workers : op[w] \in OpenOps

CounterSet == /\ op[Uid0] \in {"counter_init", "counter_check", "sync2", "check_threw"}
              /\ \A w \in Workers \ {Uid0} : op[w] = "sync2"
              /\ op[Uid0] \in {"counter_check", "sync2"} => mem[First].count = InitCounter

CountDown == /\ \A w \in Workers : op[w] \in {"fetch", "decrease", "sync3", "check_threw"}
             /\ mem[First].count = SumFunction(todo)
             /\ mem[First].count <= InitCounter
             /\ \A w \in Workers : op[w] = "decrease" => mem[First].count <= known[w]

CountedDown == /\ op[Uid0] \in {"zero", "over", "check_threw"}
               /\ \A w \in Workers \ {Uid0} : op[w] = "over"
               /\ mem[First].count = 0

(* The round of init is over before the first of run begins, and all of run *)
(* before check.  A turn that has begun is not yet counted.                 *)
PhaseInv ==
  /\ Opening => \A w \in Workers : op[w] \in OpenOps \cup {"idle"}
  /\ Checking => CounterSet \/ CountDown \/ CountedDown
  /\ \A w \in Workers :
       /\ op[w] \in {"long", "alloc", "short", "again", "fetch", "decrease"} => todo[w] > 0
       /\ op[w] = "sync3" => todo[w] = 0

MemInv ==
  /\ Listed(mem)
  /\ Opening => mem \in {Created, Opened}
  /\ Initialized /\ ~Checking => Sound(mem)
  /\ Initialized /\ Opening => mem = Opened

BankInvariant == TypeOK /\ NoFalseAlarm /\ PhaseInv /\ MemInv /\ \A w \in Workers : TxInv(w)

=============================================================================
