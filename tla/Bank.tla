-------------------------------- MODULE Bank --------------------------------
(***************************************************************************)
(* The bank of grading/workload.hpp over a transactional memory that keeps *)
(* its promises (AtomicMemory), with the retries of transactional and the  *)
(* destructor of Transaction (grading/transactional.hpp).  Accounts are in *)
(* a list of segments that grows and shrinks at its end.  When all of run  *)
(* is over, check counts a shared counter down to zero.                    *)
(*                                                                         *)
(* A word of the memory is a whole segment here.  A step is the visit of a *)
(* segment by the body of a transaction, its begin or its end; it may have *)
(* to be retried after every step.                                         *)
(***************************************************************************)
EXTENDS Integers, FiniteSets, FiniteSetsExt

CONSTANTS
  Workers,
  Uid0,        \* the worker whose uid is 0
  First,       \* tm.get_start()
  Segs,        \* addresses that tm_alloc returns
  Null,
  NbAccounts,  \* nbaccounts: accounts of a segment
  InitBalance, \* init_balance
  NbTx,        \* nbtxperwrk
  NbCheckTx,   \* nbtxperwrk of check
  Triggers,    \* outcomes of alloc_trigger
  NoMem        \* tm_alloc may report that there is no memory

Places == 0 .. NbAccounts - 1

(* AccountSegment: Shared<size_t> count, next, parity and the accounts *)
Segments == [count : Nat, next : Segs \cup {Null}, parity : Int, accounts : [Places -> Int]]

(* What the memory can hold: at an address a segment or nothing. *)
Addresses == {First} \cup Segs
Memories == [Addresses -> {Null} \cup Segments]

ASSUME BankAssumption ==
  /\ IsFiniteSet(Workers) /\ IsFiniteSet(Segs)
  /\ First \notin Segs /\ Null \notin Segs \cup {First} /\ Null \notin Segments
  /\ NbAccounts \in Nat \ {0} /\ InitBalance \in Nat /\ NbTx \in Nat
  /\ Uid0 \in Workers /\ NbCheckTx \in Nat \ {0}
  /\ Triggers \subseteq Nat /\ NoMem \in BOOLEAN

VARIABLES
  mem, mode, snap, view, used, got, \* the memory, see AtomicMemory
  op,    \* op[w]: what worker w is doing
  todo,  \* todo[w]: transactions left in run, turns left in check
  known, \* known[w]: run's count of accounts, check's last
  req,   \* req[w]: captured arguments: [send, recv, trigger]
  loc,   \* loc[w]: locals of the body: [at, prev, count, sum, send, recv]
  res    \* res[w]: what the body returned, or "none"

memVars == <<mem, mode, snap, view, used, got>>
runVars == <<op, todo, known>>
vars == <<memVars, runVars, req, loc, res>>

Segment(c, n, p, a) == [count |-> c, next |-> n, parity |-> p, accounts |-> a]
Fresh == Segment(0, Null, 0, [i \in Places |-> 0])

M == INSTANCE AtomicMemory WITH
  Threads <- Workers, Start <- {First}, Contents <- {Fresh}, Zero <- Fresh, Free <- Null

NoReq == [send |-> 0, recv |-> 0, trigger |-> 0]
NewLoc == [at |-> First, prev |-> Null, count |-> 0, sum |-> 0, send |-> Null, recv |-> Null]

Init ==
  /\ M!Init
  /\ op = [w \in Workers |-> "init"]
  /\ todo = [w \in Workers |-> NbTx]
  /\ known = [w \in Workers |-> NbAccounts]
  /\ req = [w \in Workers |-> NoReq]
  /\ loc = [w \in Workers |-> NewLoc]
  /\ res = [w \in Workers |-> "none"]

-----------------------------------------------------------------------------
(* WorkloadBank::run: what comes next                                      *)

(* All workers have left init: the rounds of the grading program. *)
Running == \A w \in Workers : op[w] \notin {"init", "init_check", "error", "init_threw"}

Pick(w, o, r) ==
  /\ op' = [op EXCEPT ![w] = o]
  /\ req' = [req EXCEPT ![w] = r]
  /\ UNCHANGED <<memVars, todo, known, loc, res>>

PickLong(w) ==
  /\ Running /\ op[w] = "idle" /\ todo[w] > 0
  /\ Pick(w, "long", NoReq)

PickAlloc(w, t) ==
  /\ Running /\ op[w] = "idle" /\ todo[w] > 0
  /\ Pick(w, "alloc", [NoReq EXCEPT !.trigger = t])

(* Two accounts below the count, again until short_tx returns true *)
PickShort(w, s, r) ==
  /\ Running /\ (op[w] = "again" \/ (op[w] = "idle" /\ todo[w] > 0))
  /\ s < known[w] /\ r < known[w]
  /\ Pick(w, "short", [NoReq EXCEPT !.send = s, !.recv = r])

PickLast(w) ==
  /\ Running /\ op[w] = "idle" /\ todo[w] = 0
  /\ Pick(w, "last", NoReq)

(* Where a worker is in check. *)
CheckOps == {"counter_init", "counter_check", "sync2", "fetch", "decrease", "sync3",
             "zero", "over", "check_threw"}

-----------------------------------------------------------------------------
(* transactional, Transaction and its destructor                           *)

InTx == {"init", "init_check", "long", "alloc", "short", "last",
         "counter_init", "counter_check", "fetch", "decrease", "zero"}
ReadWrite == {"init", "alloc", "short", "counter_init", "decrease"}

(* The locals of the body are new in each try, its captures are not. *)
TxBegin(w) ==
  /\ op[w] \in InTx
  /\ M!Begin(w, IF op[w] \in ReadWrite THEN "rw" ELSE "ro", {})
  /\ loc' = [loc EXCEPT ![w] = NewLoc]
  /\ UNCHANGED <<runVars, req, res>>

(* tm_begin answers invalid_tx: TransactionBegin goes through transactional. *)
TxBeginFails(w) ==
  /\ op[w] \in InTx /\ mode[w] = "none" /\ NoMem
  /\ op' = [op EXCEPT ![w] = CASE @ \in {"init", "init_check"} -> "init_threw"
                                     [] @ \in CheckOps -> "check_threw"
                                     [] OTHER -> "threw"]
  /\ UNCHANGED <<memVars, todo, known, req, loc, res>>

After(w) ==
  CASE res[w] = "nomem" -> "threw"
    [] op[w] = "init" -> "init_check"
    [] op[w] = "short" /\ res[w] = "false" -> "again"
    [] op[w] # "short" /\ res[w] = "false" -> "error"
    [] op[w] = "last" /\ res[w] = "true" -> "done"
    [] op[w] = "counter_init" -> "counter_check"
    [] op[w] = "counter_check" /\ res[w] = "true" -> "sync2"
    [] op[w] = "fetch" -> "decrease"
    [] op[w] = "decrease" /\ res[w] = "true" -> IF todo[w] = 1 THEN "sync3" ELSE "fetch"
    [] op[w] = "zero" /\ res[w] = "true" -> "over"
    [] OTHER -> "idle"

(* The loop of run or of check has made a turn. *)
Turn(w) ==
  \/ op[w] \in {"long", "alloc", "short"} /\ After(w) = "idle"
  \/ op[w] = "decrease" /\ res[w] = "true"

TxEnd(w) ==
  /\ res[w] # "none"
  /\ M!Commit(w)
  /\ op' = [op EXCEPT ![w] = After(w)]
  /\ todo' = [todo EXCEPT ![w] = IF Turn(w) THEN @ - 1 ELSE @]
  /\ req' = [req EXCEPT ![w] = NoReq]
  /\ loc' = [loc EXCEPT ![w] = NewLoc]
  /\ res' = [res EXCEPT ![w] = "none"]
  /\ UNCHANGED known

(* A call fails: TransactionRetry.  The destructor must not throw it while *)
(* another exception is on its way: that ends the process.                 *)
TxRetry(w) ==
  /\ M!Abort(w)
  /\ op' = [op EXCEPT ![w] = IF res[w] = "nomem" THEN "terminated" ELSE @]
  /\ loc' = [loc EXCEPT ![w] = NewLoc]
  /\ res' = [res EXCEPT ![w] = "none"]
  /\ UNCHANGED <<todo, known, req>>

-----------------------------------------------------------------------------
(* Bodies of transactions                                                  *)

In(w, o) == op[w] = o /\ mode[w] # "none" /\ res[w] = "none"
Here(w) == view[w][loc[w].at]

Return(w, r) == res' = [res EXCEPT ![w] = r]
Bool(b) == IF b THEN "true" ELSE "false"

(* The body reads segment s. *)
Look(w, s) == M!Use(w, s) /\ UNCHANGED <<mem, mode, snap, view, got>>

(* The body reads and writes the segments in S and leaves the view v. *)
Put(w, S, v) ==
  /\ view' = [view EXCEPT ![w] = v]
  /\ used' = [used EXCEPT ![w] = @ \cup S]
  /\ UNCHANGED <<mem, mode, snap, got>>

InitBody(w) ==
  /\ In(w, "init")
  /\ Put(w, {First}, [view[w] EXCEPT ![First].count = NbAccounts,
                                     ![First].accounts = [i \in Places |-> InitBalance]])
  /\ Return(w, "true")
  /\ UNCHANGED <<runVars, req, loc>>

InitCheckBody(w) ==
  /\ In(w, "init_check")
  /\ Look(w, First)
  /\ Return(w, Bool(Here(w).accounts[0] = InitBalance))
  /\ UNCHANGED <<runVars, req, loc>>

-----------------------------------------------------------------------------
(* long_tx                                                                 *)

Balances(s) == SumFunction([i \in {j \in Places : j < s.count} |-> s.accounts[i]])
Indebted(s) == \E i \in Places : i < s.count /\ s.accounts[i] < 0

InLong(w) == In(w, "long") \/ In(w, "last")

(* The locals after a visit of s that adds up money. *)
Counted(w, s, money) ==
  [loc[w] EXCEPT !.at = s.next, !.count = @ + s.count, !.sum = @ + money]

(* The count goes to run, except from the last one (dummy). *)
LongStep(w, l) ==
  /\ InLong(w)
  /\ Look(w, loc[w].at)
  /\ CASE Indebted(Here(w)) -> Return(w, "false") /\ UNCHANGED <<loc, known>>
       [] ~Indebted(Here(w)) /\ l.at # Null ->
            loc' = [loc EXCEPT ![w] = l] /\ UNCHANGED <<res, known>>
       [] OTHER ->
            /\ loc' = [loc EXCEPT ![w] = l]
            /\ Return(w, Bool(l.sum = InitBalance * l.count))
            /\ known' = [known EXCEPT ![w] = IF op[w] = "long" THEN l.count ELSE @]
  /\ UNCHANGED <<op, todo, req>>

LongVisit(w) == LongStep(w, Counted(w, Here(w), Here(w).parity + Balances(Here(w))))

-----------------------------------------------------------------------------
(* alloc_tx                                                                *)

AllocVisit(w) ==
  LET s == Here(w) IN
  /\ In(w, "alloc") /\ s.next # Null
  /\ Look(w, loc[w].at)
  /\ loc' = [loc EXCEPT ![w].prev = loc[w].at, ![w].at = s.next, ![w].count = @ + s.count]
  /\ UNCHANGED <<runVars, req, res>>

(* At the last segment: does the body remove an account or add one? *)
AtLast(w) == In(w, "alloc") /\ Here(w).next = Null
Total(w) == loc[w].count + Here(w).count
Removes(w) == AtLast(w) /\ Total(w) > req[w].trigger /\ Total(w) > 2
Adds(w) == AtLast(w) /\ ~(Total(w) > req[w].trigger /\ Total(w) > 2)

(* The account goes, the money stays: as parity. *)
NewParity(s) == s.parity + s.accounts[s.count - 1] - InitBalance

AllocDone(w, S, v) ==
  /\ Put(w, S, v)
  /\ Return(w, "true")
  /\ UNCHANGED <<runVars, req, loc>>

RemoveAccount(w) ==
  LET at == loc[w].at IN
  /\ Removes(w) /\ Here(w).count > 1
  /\ AllocDone(w, {at}, [view[w] EXCEPT ![at].count = @ - 1, ![at].parity = NewParity(Here(w))])

(* prev_segment.next.free(): its parity goes to the segment before it. *)
FreeNext(w, v) ==
  /\ Removes(w) /\ Here(w).count = 1
  /\ AllocDone(w, {loc[w].at, loc[w].prev}, v)

(* Mutant: the parity of the freed segment is forgotten. *)
RemoveSegmentNoParity(w) ==
  FreeNext(w, [view[w] EXCEPT ![loc[w].at] = Null, ![loc[w].prev].next = Null])

(* Mutant: the freed segment stays in the list. *)
RemoveSegmentKeepNext(w) ==
  FreeNext(w, [view[w] EXCEPT ![loc[w].at] = Null,
                              ![loc[w].prev].parity = @ + NewParity(Here(w))])

RemoveSegment(w) ==
  FreeNext(w, [view[w] EXCEPT ![loc[w].at] = Null, ![loc[w].prev].next = Null,
                              ![loc[w].prev].parity = @ + NewParity(Here(w))])

AddTo(w, at, i) ==
  AllocDone(w, {at}, [view[w] EXCEPT ![at].count = i + 1, ![at].accounts[i] = InitBalance])

(* Mutant: an account is added without looking for room. *)
AddAccountAnywhere(w) == Adds(w) /\ AddTo(w, loc[w].at, Here(w).count)

AddAccount(w) ==
  /\ Adds(w) /\ Here(w).count < NbAccounts
  /\ AddTo(w, loc[w].at, Here(w).count)

(* segment.next.alloc(): the rest of the new segment is zero. *)
AddSegment(w, new) ==
  /\ Adds(w) /\ Here(w).count = NbAccounts
  /\ view[w][new] = Null
  /\ AllocDone(w, {loc[w].at, new},
       [view[w] EXCEPT ![loc[w].at].next = new,
                       ![new] = [Fresh EXCEPT !.count = 1, !.accounts[0] = InitBalance]])

(* TransactionAlloc is thrown, and the destructor calls tm_end. *)
AddSegmentNoMem(w) ==
  /\ Adds(w) /\ Here(w).count = NbAccounts /\ NoMem
  /\ Look(w, loc[w].at)
  /\ Return(w, "nomem")
  /\ UNCHANGED <<runVars, req, loc>>

-----------------------------------------------------------------------------
(* short_tx                                                                *)

(* Looking for the accounts counts the captured numbers down. *)
ShortVisit(w) ==
  LET s == Here(w)
      l == loc[w]
      Found(place, i) == IF place = Null /\ i < s.count THEN <<l.at, i>> ELSE place
      Rest(place, i) == IF place = Null /\ i >= s.count THEN i - s.count ELSE i
      send == Found(l.send, req[w].send)
      recv == Found(l.recv, req[w].recv)
  IN
  /\ In(w, "short") /\ Null \in {l.send, l.recv}
  /\ Look(w, l.at)
  /\ req' = [req EXCEPT ![w].send = Rest(l.send, @), ![w].recv = Rest(l.recv, @)]
  /\ IF Null \notin {send, recv}
     THEN loc' = [loc EXCEPT ![w].send = send, ![w].recv = recv] /\ UNCHANGED res
     ELSE /\ loc' = [loc EXCEPT ![w].send = send, ![w].recv = recv, ![w].at = s.next]
          /\ IF s.next = Null THEN Return(w, "false") ELSE UNCHANGED res
  /\ UNCHANGED runVars

Balance(v, place) == v[place[1]].accounts[place[2]]
Paid(v, place, amount) == [v EXCEPT ![place[1]].accounts[place[2]] = @ + amount]

(* The receiver is read after the sender is written: they can be the same. *)
Transfer(w) ==
  LET send == loc[w].send
      recv == loc[w].recv IN
  /\ In(w, "short") /\ Null \notin {send, recv}
  /\ view' = [view EXCEPT ![w] = IF Balance(@, send) > 0 THEN Paid(Paid(@, send, -1), recv, 1)
                                                          ELSE @]
  /\ used' = [used EXCEPT ![w] = @ \cup {send[1], recv[1]}]
  /\ Return(w, "true")
  /\ UNCHANGED <<mem, mode, snap, got, runVars, req, loc>>

-----------------------------------------------------------------------------
(* check: its barriers, where a worker that failed waits as well, and its  *)
(* transactions.  The counter is in the place of the first count.          *)

CheckSync(from, next) ==
  /\ \A w \in Workers : op[w] \in {from, "error"}
  /\ op' = [w \in Workers |-> IF op[w] = "error" THEN "error" ELSE next[w]]
  /\ UNCHANGED <<memVars, known, req, loc, res>>

CheckStart ==
  /\ CheckSync("done", [w \in Workers |-> IF w = Uid0 THEN "counter_init" ELSE "sync2"])
  /\ UNCHANGED todo

CheckLoop ==
  /\ CheckSync("sync2", [w \in Workers |-> "fetch"])
  /\ todo' = [w \in Workers |-> NbCheckTx]

CheckEnd ==
  /\ CheckSync("sync3", [w \in Workers |-> IF w = Uid0 THEN "zero" ELSE "over"])
  /\ UNCHANGED todo

Counter(w) == Here(w).count
PutCounter(w, n) == Put(w, {First}, [view[w] EXCEPT ![First].count = n])
InitCounter == NbCheckTx * Cardinality(Workers)

CounterInitBody(w) ==
  /\ In(w, "counter_init")
  /\ PutCounter(w, InitCounter)
  /\ Return(w, "true")
  /\ UNCHANGED <<runVars, req, loc>>

(* counter == init_counter, counter == 0 *)
CounterTestBody(w, o, n) ==
  /\ In(w, o)
  /\ Look(w, First)
  /\ Return(w, Bool(Counter(w) = n))
  /\ UNCHANGED <<runVars, req, loc>>

FetchBody(w) ==
  /\ In(w, "fetch")
  /\ Look(w, First)
  /\ known' = [known EXCEPT ![w] = Counter(w)]
  /\ Return(w, "true")
  /\ UNCHANGED <<op, todo, req, loc>>

(* Mutant: what fetch read is decreased. *)
DecreaseFetched(w) ==
  /\ In(w, "decrease")
  /\ IF Counter(w) > known[w]
     THEN Look(w, First) /\ Return(w, "false")
     ELSE PutCounter(w, known[w] - 1) /\ Return(w, "true")
  /\ UNCHANGED <<runVars, req, loc>>

(* The counter may have gone down since fetch, but not up. *)
DecreaseBody(w) ==
  /\ In(w, "decrease")
  /\ IF Counter(w) > known[w]
     THEN Look(w, First) /\ Return(w, "false")
     ELSE PutCounter(w, Counter(w) - 1) /\ Return(w, "true")
  /\ UNCHANGED <<runVars, req, loc>>

-----------------------------------------------------------------------------
(* Specification                                                           *)

Choose(w) ==
  \/ PickLong(w) \/ (\E t \in Triggers : PickAlloc(w, t)) \/ PickLast(w)
  \/ \E s, r \in 0 .. NbAccounts * (Cardinality(Segs) + 1) : PickShort(w, s, r)

Body(w) ==
  \/ InitBody(w) \/ InitCheckBody(w)
  \/ LongVisit(w)
  \/ AllocVisit(w) \/ RemoveAccount(w) \/ RemoveSegment(w)
  \/ AddAccount(w) \/ (\E s \in Segs : AddSegment(w, s)) \/ AddSegmentNoMem(w)
  \/ ShortVisit(w) \/ Transfer(w)
  \/ CounterInitBody(w) \/ FetchBody(w) \/ DecreaseBody(w)
  \/ CounterTestBody(w, "counter_check", InitCounter) \/ CounterTestBody(w, "zero", 0)

Terminated == \E w \in Workers : op[w] = "terminated"

Worker(w) == ~Terminated /\ (Choose(w) \/ TxBegin(w) \/ TxBeginFails(w) \/ Body(w) \/ TxEnd(w) \/ TxRetry(w))

Threw == {"init_threw", "threw", "check_threw"}
Stopped == Threw \cup {"over", "error"}

(* Where a worker waits for the others: for ever if one of them threw. *)
Waits(w) == op[w] \in {"done", "sync2", "sync3"} \/ (op[w] = "idle" /\ ~Running)

Ended ==
  /\ \/ Terminated
     \/ \A w \in Workers : op[w] \in Stopped
     \/ /\ \A w \in Workers : op[w] \in Stopped \/ Waits(w)
        /\ \E w \in Workers : op[w] \in Threw
  /\ UNCHANGED vars

Next == (\E w \in Workers : Worker(w)) \/ CheckStart \/ CheckLoop \/ CheckEnd \/ Ended

Spec == Init /\ [][Next]_vars

-----------------------------------------------------------------------------
(* Properties                                                              *)

Checking == \E w \in Workers : op[w] \in CheckOps

Counts == 0 .. NbAccounts \cup (IF Checking THEN 0 .. InitCounter ELSE {})
Found == {Null} \cup (Addresses \X Places)

(* Every variable keeps its type. *)
TypeOK ==
  /\ mem \in Memories /\ snap \in [Workers -> Memories] /\ view \in [Workers -> Memories]
  /\ \A m \in {mem} \cup {snap[w] : w \in Workers} \cup {view[w] : w \in Workers} :
       \A s \in Addresses : m[s] # Null => m[s].count \in Counts
  /\ mode \in [Workers -> {"none", "ro", "rw"}]
  /\ used \in [Workers -> SUBSET Addresses]
  /\ op \in [Workers -> InTx \cup CheckOps \cup Stopped \cup {"idle", "again", "done", "terminated"}]
  /\ todo \in [Workers -> Nat] /\ known \in [Workers -> Nat]
  /\ req \in [Workers -> [send : Nat, recv : Nat, trigger : Nat]]
  /\ loc \in [Workers -> [at : Addresses \cup {Null}, prev : Addresses \cup {Null}, count : Nat,
                         sum : Int, send : Found, recv : Found]]
  /\ res \in [Workers -> {"none", "true", "false", "nomem"}]

(* The segments that the walk of every transaction goes through.            *)
Following(m, s) == IF s = Null \/ m[s] = Null THEN Null ELSE m[s].next

List(m) ==
  LET walk[n \in 0 .. Cardinality(Segs)] == IF n = 0 THEN First ELSE Following(m, walk[n - 1])
  IN {walk[n] : n \in DOMAIN walk} \ {Null}

Initialized == \E w \in Workers : op[w] \notin {"init", "init_threw"}

(* The money and the accounts of the segments in S. *)
Money(m, S) == SumFunction([s \in S |-> m[s].parity + Balances(m[s])])
Number(m, S) == SumFunction([s \in S |-> m[s].count])

(* No money is created or destroyed, whatever is retried and whatever       *)
(* accounts and segments come and go, and no account is in debt.            *)
MoneyConserved ==
  Initialized /\ ~Checking =>
    LET total == Money(mem, List(mem))
        count == Number(mem, List(mem))
    IN total = InitBalance * count /\ \A s \in List(mem) : ~Indebted(mem[s])

(* What is allocated is in the list, once it is committed, and the other    *)
(* way round; only the last segment has room, and none is empty: alloc_tx   *)
(* relies on it when it counts an account down or looks for room.           *)
ListShape ==
  /\ List(mem) = {s \in Addresses : mem[s] # Null}
  /\ Initialized /\ ~Checking => \A s \in List(mem) :
       mem[s].count = NbAccounts \/ (mem[s].next = Null /\ mem[s].count > 0)

(* On a memory that keeps its promises no check of the workload fails, in   *)
(* no try: long_tx balances also in transactions that are retried, and the   *)
(* counter of check never goes up between two transactions and ends at zero. *)
NoFalseAlarm ==
  \A w \in Workers : op[w] # "error" /\ (res[w] = "false" => op[w] = "short")

=============================================================================
