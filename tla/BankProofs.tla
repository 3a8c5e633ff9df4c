----------------------------- MODULE BankProofs -----------------------------
(***************************************************************************)
(* Every step of the workload keeps the invariant of BankInv.tla, and so   *)
(* the properties of Bank.tla hold in every reachable state, for finite    *)
(* sets of workers and segments, any number of accounts per segment, any   *)
(* balance, and any number of transactions and of turns of check.          *)
(***************************************************************************)
EXTENDS BankLists

-----------------------------------------------------------------------------
(* Types, worker by worker *)

Ops == InTx \cup CheckOps \cup Stopped \cup {"idle", "again", "done", "terminated"}
Requests == [send : Nat, recv : Nat, trigger : Nat]
Locals == [at : Addresses \cup {Null}, prev : Addresses \cup {Null}, count : Nat, sum : Int,
           send : Found, recv : Found]
Answers == {"none", "true", "false", "nomem"}

(* Every count of m is in C. *)
Within(m, C) == \A s \in Addresses : m[s] # Null => m[s].count \in C

Functions ==
  /\ DOMAIN mode = Workers /\ DOMAIN snap = Workers /\ DOMAIN view = Workers
  /\ DOMAIN used = Workers /\ DOMAIN op = Workers /\ DOMAIN todo = Workers
  /\ DOMAIN known = Workers /\ DOMAIN req = Workers /\ DOMAIN loc = Workers /\ DOMAIN res = Workers
  /\ mode = [w \in Workers |-> mode[w]] /\ snap = [w \in Workers |-> snap[w]]
  /\ view = [w \in Workers |-> view[w]] /\ used = [w \in Workers |-> used[w]]
  /\ op = [w \in Workers |-> op[w]] /\ todo = [w \in Workers |-> todo[w]]
  /\ known = [w \in Workers |-> known[w]] /\ req = [w \in Workers |-> req[w]]
  /\ loc = [w \in Workers |-> loc[w]] /\ res = [w \in Workers |-> res[w]]

TxType(w) ==
  /\ mode[w] \in {"none", "ro", "rw"}
  /\ snap[w] \in Memories /\ view[w] \in Memories
  /\ used[w] \in SUBSET Addresses /\ req[w] \in Requests /\ loc[w] \in Locals /\ res[w] \in Answers
  /\ Within(snap[w], Counts) /\ Within(view[w], Counts)

RunType(w) == op[w] \in Ops /\ todo[w] \in Nat /\ known[w] \in Nat

LEMMA Types ==
  TypeOK <=> /\ Functions /\ mem \in Memories /\ Within(mem, Counts)
             /\ \A w \in Workers : TxType(w) /\ RunType(w)
<1>1. ASSUME TypeOK
      PROVE  /\ Functions /\ mem \in Memories /\ Within(mem, Counts)
             /\ \A w \in Workers : TxType(w) /\ RunType(w)
  <2>1. Functions /\ mem \in Memories
    BY <1>1 DEF TypeOK, Functions
  <2>2. Within(mem, Counts)
    BY <1>1 DEF TypeOK, Within
  <2>3. ASSUME NEW w \in Workers PROVE Within(snap[w], Counts) /\ Within(view[w], Counts)
    BY <1>1 DEF TypeOK, Within
  <2>4. ASSUME NEW w \in Workers PROVE TxType(w) /\ RunType(w)
    BY <1>1, <2>3 DEF TypeOK, TxType, RunType, Ops, Requests, Locals, Answers
  <2> QED  BY <2>1, <2>2, <2>4
<1>2. ASSUME Functions, mem \in Memories, Within(mem, Counts),
             \A w \in Workers : TxType(w) /\ RunType(w)
      PROVE  TypeOK
  <2>1. \A m \in {mem} \cup {snap[w] : w \in Workers} \cup {view[w] : w \in Workers} :
          \A s \in Addresses : m[s] # Null => m[s].count \in Counts
    BY <1>2 DEF TxType, Within
  <2>2. /\ snap \in [Workers -> Memories] /\ view \in [Workers -> Memories]
        /\ mode \in [Workers -> {"none", "ro", "rw"}]
        /\ used \in [Workers -> SUBSET Addresses]
        /\ req \in [Workers -> Requests] /\ loc \in [Workers -> Locals] /\ res \in [Workers -> Answers]
    BY <1>2 DEF TxType, Functions
  <2>3. op \in [Workers -> Ops] /\ todo \in [Workers -> Nat] /\ known \in [Workers -> Nat]
    BY <1>2 DEF RunType, Functions
  <2> QED  BY <1>2, <2>1, <2>2, <2>3 DEF TypeOK, Ops, Requests, Locals, Answers
<1> QED  BY <1>1, <1>2

LEMMA TypesNext ==
  (TypeOK <=> /\ Functions /\ mem \in Memories /\ Within(mem, Counts)
              /\ \A w \in Workers : TxType(w) /\ RunType(w))'
  BY Types, PTL

(* A step of w may change what belongs to w. *)
StepOf(w) ==
  /\ mode' = [mode EXCEPT ![w] = mode'[w]] /\ snap' = [snap EXCEPT ![w] = snap'[w]]
  /\ view' = [view EXCEPT ![w] = view'[w]] /\ used' = [used EXCEPT ![w] = used'[w]]
  /\ op' = [op EXCEPT ![w] = op'[w]] /\ todo' = [todo EXCEPT ![w] = todo'[w]]
  /\ known' = [known EXCEPT ![w] = known'[w]] /\ req' = [req EXCEPT ![w] = req'[w]]
  /\ loc' = [loc EXCEPT ![w] = loc'[w]] /\ res' = [res EXCEPT ![w] = res'[w]]

SameTx(u) ==
  /\ mode'[u] = mode[u] /\ snap'[u] = snap[u] /\ view'[u] = view[u] /\ used'[u] = used[u]
  /\ req'[u] = req[u] /\ loc'[u] = loc[u] /\ res'[u] = res[u]
SameRun(u) == op'[u] = op[u] /\ todo'[u] = todo[u] /\ known'[u] = known[u]

LEMMA Others ==
  ASSUME Functions, NEW w \in Workers, StepOf(w)
  PROVE  Functions' /\ \A u \in Workers \ {w} : SameTx(u) /\ SameRun(u)
<1>2. \A u \in Workers \ {w} : SameTx(u) /\ SameRun(u)
  BY DEF Functions, StepOf, SameTx, SameRun
<1>3. Functions'
  BY DEF Functions, StepOf
<1> QED  BY <1>2, <1>3

LEMMA CountsKept ==
  ASSUME Checking => Checking'
  PROVE  Counts \subseteq Counts'
  BY DEF Counts

LEMMA WithinMore ==
  ASSUME NEW C, NEW D, C \subseteq D, NEW m, Within(m, C)
  PROVE  Within(m, D)
  BY DEF Within

(* Of the others only what check knows of the memory can become wrong. *)
LEMMA TxKept ==
  ASSUME NEW u, TxInv(u), SameTx(u), SameRun(u), CheckTx(u)'
  PROVE  TxInv(u)'
<1>1. Outside(u)' /\ Inside(u)' /\ Snapshot(u)'
  BY DEF TxInv, SameTx, SameRun, Outside, Inside, Snapshot
<1>2. InitTx(u)' /\ LongTx(u)' /\ AllocTx(u)' /\ ShortTx(u)'
  BY DEF TxInv, SameTx, SameRun, InitTx, LongTx, AllocTx, ShortTx
<1> QED  BY <1>1, <1>2 DEF TxInv

LEMMA TypeStep ==
  ASSUME TypeOK, NEW w \in Workers, StepOf(w), Checking => Checking',
         mem' \in Memories, Within(mem', Counts'), TxType(w)', RunType(w)'
  PROVE  TypeOK'
<1>1. Functions /\ \A u \in Workers : TxType(u) /\ RunType(u)
  BY Types
<1>2. Functions' /\ \A u \in Workers \ {w} : SameTx(u) /\ SameRun(u)
  BY <1>1, Others
<1>3. Counts \subseteq Counts'
  BY CountsKept
<1>4. ASSUME NEW u \in Workers \ {w} PROVE TxType(u)' /\ RunType(u)'
  <2>1. Within(snap[u], Counts') /\ Within(view[u], Counts')
    BY <1>1, <1>3, WithinMore DEF TxType
  <2> QED  BY <1>1, <1>2, <2>1 DEF TxType, RunType, SameTx, SameRun
<1>5. \A u \in Workers : TxType(u)' /\ RunType(u)'
  BY <1>4
<1> QED  BY <1>2, <1>5, TypesNext

-----------------------------------------------------------------------------
(* Steps of bodies *)

(* What a body may do: it works on its view and its locals. *)
BodyOf(w) ==
  /\ mem' = mem /\ mode' = mode /\ snap' = snap /\ op' = op /\ todo' = todo
  /\ StepOf(w)

LEMMA BodyStep ==
  ASSUME BankInvariant, NEW w \in Workers, BodyOf(w), mode[w] # "none",
         view'[w] \in Memories, Within(view'[w], Counts), used'[w] \in SUBSET Addresses,
         known'[w] \in Nat, req'[w] \in Requests, loc'[w] \in Locals,
         res'[w] \in Results(op[w]),
         ~(res'[w] = "true" /\ op[w] \in ReadWrite) => view'[w] = snap[w],
         op[w] = "decrease" => known'[w] = known[w],
         op[w] \notin RunOps => loc'[w] = loc[w] /\ res'[w] # "none",
         InitTx(w)', LongTx(w)', AllocTx(w)', ShortTx(w)', CheckTx(w)'
  PROVE  BankInvariant'
<1>1. /\ Functions /\ mem \in Memories /\ Within(mem, Counts)
      /\ \A u \in Workers : TxType(u) /\ RunType(u)
  BY Types DEF BankInvariant
<1>2. Functions' /\ \A u \in Workers \ {w} : SameTx(u) /\ SameRun(u)
  BY <1>1, Others DEF BodyOf
<1>3. Checking' = Checking /\ Counts' = Counts
  BY DEF BodyOf, Checking, Counts
<1>4. TypeOK'
  <2>1. RunType(w)'
    BY <1>1 DEF RunType, BodyOf
  <2>2. TxType(w)'
    <3>1. res'[w] \in Answers
      BY DEF Results, Answers
    <3> QED  BY <1>1, <1>3, <3>1 DEF TxType, BodyOf
  <2>3. mem' \in Memories /\ Within(mem', Counts')
    BY <1>1, <1>3 DEF BodyOf
  <2> QED  BY <1>3, <2>1, <2>2, <2>3, TypeStep DEF BodyOf, BankInvariant
<1>5. NoFalseAlarm'
  <2>1. res'[w] = "false" => op[w] = "short"
    BY DEF Results
  <2> QED  BY <1>2, <2>1 DEF BankInvariant, NoFalseAlarm, BodyOf, SameTx
<1>6. PhaseInv'
  <2>1. \A u \in Workers : op[u] = "decrease" => known'[u] = known[u]
    BY <1>2 DEF SameRun
  <2> QED  BY <1>3, <2>1 DEF BankInvariant, PhaseInv, BodyOf, Opening, CounterSet, CountDown, CountedDown
<1>7. MemInv'
  BY <1>3 DEF BankInvariant, MemInv, BodyOf, Opening, Initialized
<1>8. ASSUME NEW u \in Workers PROVE TxInv(u)'
  <2>1. CASE u # w
    <3>1. TxInv(u) /\ SameTx(u) /\ SameRun(u)
      BY <1>2, <2>1 DEF BankInvariant
    <3>2. CheckTx(u)'
      BY <3>1 DEF TxInv, SameTx, SameRun, CheckTx, BodyOf
    <3> QED  BY <3>1, <3>2, TxKept
  <2>2. CASE u = w
    <3>1. TxInv(w)
      BY DEF BankInvariant
    <3>2. Outside(w)' /\ Inside(w)' /\ Snapshot(w)'
      BY <3>1 DEF TxInv, Outside, Inside, Snapshot, BodyOf
    <3> QED  BY <2>2, <3>2 DEF TxInv
  <2> QED  BY <2>1, <2>2
<1> QED  BY <1>4, <1>5, <1>6, <1>7, <1>8 DEF BankInvariant

-----------------------------------------------------------------------------
(* The bodies of init and of check *)

(* What a body starts from. *)
LEMMA Started ==
  ASSUME BankInvariant, NEW w \in Workers, mode[w] # "none", res[w] = "none"
  PROVE  /\ Functions /\ TxInv(w) /\ TxType(w) /\ RunType(w) /\ op[w] \in InTx
         /\ view[w] = snap[w] /\ snap[w] \in Memories /\ Listed(snap[w]) /\ First \in Allocated(snap[w])
         /\ op[w] \in RunOps => Sound(snap[w])
         /\ op[w] \notin RunOps => used[w] = {} /\ loc[w] = NewLoc
<1>1. /\ Functions /\ TxInv(w) /\ TxType(w) /\ RunType(w)
  BY Types DEF BankInvariant
<1>2. /\ op[w] \in InTx /\ view[w] = snap[w] /\ Listed(snap[w])
      /\ op[w] \in RunOps => Sound(snap[w])
      /\ op[w] \notin RunOps => used[w] = {} /\ loc[w] = NewLoc
  BY <1>1 DEF TxInv, Inside, Snapshot
<1>3. snap[w] \in Memories
  BY <1>1 DEF TxType
<1>4. First \in Allocated(snap[w])
  BY <1>2, <1>3, Lists
<1> QED  BY <1>1, <1>2, <1>3, <1>4

LEMMA Putting ==
  ASSUME Functions, NEW w \in Workers, NEW S, NEW v, NEW r, Put(w, S, v), Return(w, r),
         UNCHANGED <<runVars, req, loc>>
  PROVE  /\ BodyOf(w) /\ view'[w] = v /\ used'[w] = used[w] \cup S /\ res'[w] = r
         /\ known'[w] = known[w] /\ req'[w] = req[w] /\ loc'[w] = loc[w]
<1>1. /\ mem' = mem /\ mode' = mode /\ snap' = snap /\ op' = op /\ todo' = todo /\ known' = known
      /\ req' = req /\ loc' = loc
      /\ view' = [view EXCEPT ![w] = v] /\ used' = [used EXCEPT ![w] = @ \cup S]
      /\ res' = [res EXCEPT ![w] = r]
  BY DEF Put, Return, runVars
<1>2. view'[w] = v /\ used'[w] = used[w] \cup S /\ res'[w] = r
  BY <1>1 DEF Functions
<1> QED  BY <1>1, <1>2 DEF BodyOf, StepOf, Functions

LEMMA Looking ==
  ASSUME Functions, NEW w \in Workers, NEW s, Look(w, s)
  PROVE  /\ mem' = mem /\ mode' = mode /\ snap' = snap /\ view' = view
         /\ used' = [used EXCEPT ![w] = used'[w]] /\ used'[w] = used[w] \cup {s}
  BY DEF Look, M!Use, Functions

LEMMA LookingAll ==
  ASSUME Functions, NEW w \in Workers, NEW s, NEW r, Look(w, s), Return(w, r),
         UNCHANGED <<runVars, req, loc>>
  PROVE  /\ BodyOf(w) /\ view'[w] = view[w] /\ used'[w] = used[w] \cup {s} /\ res'[w] = r
         /\ known'[w] = known[w] /\ req'[w] = req[w] /\ loc'[w] = loc[w]
<1>1. /\ mem' = mem /\ mode' = mode /\ snap' = snap /\ view' = view
      /\ used' = [used EXCEPT ![w] = used'[w]] /\ used'[w] = used[w] \cup {s}
  BY Looking
<1>2. /\ op' = op /\ todo' = todo /\ known' = known /\ req' = req /\ loc' = loc
      /\ res' = [res EXCEPT ![w] = r]
  BY DEF Return, runVars
<1>3. res'[w] = r
  BY <1>2 DEF Functions
<1> QED  BY <1>1, <1>2, <1>3 DEF BodyOf, StepOf, Functions

(* Everything in a list is counted as TypeOK says. *)
LEMMA ShapedWithin ==
  ASSUME NEW m \in Memories, Shaped(m)
  PROVE  Within(m, Counts)
  BY Sorts DEF Within, Shaped, Allocated, Counts

LEMMA InitStep ==
  ASSUME BankInvariant, NEW w \in Workers, InitBody(w)
  PROVE  BankInvariant'
<1> DEFINE v == [view[w] EXCEPT ![First].count = NbAccounts,
                                ![First].accounts = [i \in Places |-> InitBalance]]
<1>1. /\ op[w] = "init" /\ mode[w] # "none" /\ res[w] = "none"
      /\ Put(w, {First}, v) /\ Return(w, "true") /\ UNCHANGED <<runVars, req, loc>>
  BY DEF InitBody, In
<1>2. /\ Functions /\ TxInv(w) /\ TxType(w) /\ RunType(w)
      /\ view[w] = snap[w] /\ used[w] = {} /\ loc[w] = NewLoc
  BY <1>1, Started DEF RunOps
<1>3. snap[w] \in {Created, Opened}
  BY <1>1, <1>2 DEF TxInv, InitTx
<1>4. v = Opened
  BY <1>2, <1>3, Sorts DEF Created, Opened, Only, Fresh, Segment
<1>5. /\ BodyOf(w) /\ view'[w] = Opened /\ used'[w] = {First} /\ res'[w] = "true"
      /\ known'[w] = known[w] /\ req'[w] = req[w] /\ loc'[w] = loc[w]
  <2> HIDE DEF v
  <2> QED  BY <1>1, <1>2, <1>4, Putting
<1>6. mode'[w] # "none" /\ op'[w] = "init" /\ snap'[w] = snap[w]
  BY <1>1, <1>5 DEF BodyOf
<1>7. InitTx(w)' /\ LongTx(w)' /\ AllocTx(w)' /\ ShortTx(w)' /\ CheckTx(w)'
  BY <1>3, <1>5, <1>6 DEF InitTx, LongTx, AllocTx, ShortTx, CheckTx
<1>8. Opened \in Memories /\ Within(Opened, Counts)
  BY OpenedSound, ShapedWithin DEF Sound
<1>9. "true" \in Results(op[w]) /\ op[w] \in ReadWrite
  BY <1>1 DEF Results, ReadWrite
<1> QED  BY <1>1, <1>2, <1>5, <1>7, <1>8, <1>9, Sorts, BodyStep DEF TxType, RunType

(* The bodies that only look at the first segment. *)
LEMMA TestStep ==
  ASSUME BankInvariant, NEW w \in Workers, mode[w] # "none", res[w] = "none",
         op[w] \in {"init_check", "counter_check", "zero"},
         Look(w, First), Return(w, "true"), UNCHANGED <<runVars, req, loc>>
  PROVE  BankInvariant'
<1>2. /\ Functions /\ TxInv(w) /\ TxType(w) /\ RunType(w)
      /\ view[w] = snap[w] /\ used[w] = {} /\ loc[w] = NewLoc
  BY Started DEF RunOps
<1>5. /\ BodyOf(w) /\ view'[w] = view[w] /\ used'[w] = used[w] \cup {First} /\ res'[w] = "true"
      /\ known'[w] = known[w] /\ req'[w] = req[w] /\ loc'[w] = loc[w]
  BY <1>2, LookingAll
<1>6. mode'[w] = mode[w] /\ op'[w] = op[w] /\ snap'[w] = snap[w] /\ mem' = mem
  BY <1>5 DEF BodyOf
<1>7. InitTx(w)' /\ LongTx(w)' /\ AllocTx(w)' /\ ShortTx(w)' /\ CheckTx(w)'
  BY <1>2, <1>5, <1>6 DEF TxInv, InitTx, LongTx, AllocTx, ShortTx, CheckTx
<1>9. "true" \in Results(op[w])
  BY DEF Results
<1> QED  BY <1>2, <1>5, <1>7, <1>9, Sorts, BodyStep DEF TxType, RunType

LEMMA InitCheckStep ==
  ASSUME BankInvariant, NEW w \in Workers, InitCheckBody(w)
  PROVE  BankInvariant'
<1>1. /\ op[w] = "init_check" /\ mode[w] # "none" /\ res[w] = "none"
      /\ Look(w, First) /\ Return(w, Bool(Here(w).accounts[0] = InitBalance))
      /\ UNCHANGED <<runVars, req, loc>>
  BY DEF InitCheckBody, In
<1>2. TxInv(w) /\ view[w] = snap[w] /\ loc[w] = NewLoc
  BY <1>1, Started DEF RunOps
<1>3. Here(w) = Opened[First]
  BY <1>1, <1>2 DEF TxInv, InitTx, Here, NewLoc
<1>4. Return(w, "true")
  BY <1>1, <1>3, OpenedSound DEF Bool
<1> QED  BY <1>1, <1>4, TestStep

(* Where the workers are in check says what the counter is. *)
LEMMA Phases ==
  ASSUME BankInvariant, NEW w \in Workers
  PROVE  /\ op[w] \in CheckOps => Checking
         /\ op[w] \in {"counter_init", "counter_check"} => CounterSet /\ w = Uid0
         /\ op[w] \in {"fetch", "decrease", "sync3"} => CountDown
         /\ op[w] \in {"zero", "over"} => CountedDown
         /\ op[w] = "zero" => w = Uid0
<1>1. op[w] \in CheckOps => Checking
  BY DEF Checking
<1>2. Checking => CounterSet \/ CountDown \/ CountedDown
  BY DEF BankInvariant, PhaseInv
<1>3. op[w] \in {"counter_init", "counter_check"} => CounterSet /\ w = Uid0
  BY <1>1, <1>2 DEF CheckOps, CounterSet, CountDown, CountedDown
<1>4. op[w] \in {"fetch", "decrease", "sync3"} => CountDown
  BY <1>1, <1>2 DEF CheckOps, CounterSet, CountDown, CountedDown
<1>5. op[w] \in {"zero", "over"} => CountedDown
  BY <1>1, <1>2 DEF CheckOps, CounterSet, CountDown, CountedDown
<1>6. op[w] = "zero" => w = Uid0
  BY <1>5 DEF CountedDown
<1> QED  BY <1>1, <1>3, <1>4, <1>5, <1>6

LEMMA CounterPut ==
  ASSUME NEW m \in Memories, First \in Allocated(m), Within(m, Counts), NEW n \in Nat, n \in Counts
  PROVE  LET v == [m EXCEPT ![First].count = n] IN
         /\ v \in Memories /\ Within(v, Counts) /\ v[First].count = n
         /\ Listed(m) => Listed(v)
<1> DEFINE v == [m EXCEPT ![First].count = n]
           s == m[First]
           r == [s EXCEPT !.count = n]
<1>1. s \in Segments /\ First \in Addresses
  BY Contents
<1>2. v[First] = r /\ (\A a \in Addresses \ {First} : v[a] = m[a]) /\ v = [a \in Addresses |-> v[a]]
  BY <1>1 DEF Memories
<1> HIDE DEF s, v
<1>3. r \in Segments /\ r.count = n /\ r.next = s.next
  BY <1>1 DEF Segments
<1> HIDE DEF r
<1>4. v \in Memories
  <2>1. \A a \in Addresses : v[a] \in {Null} \cup Segments
    BY <1>2, <1>3 DEF Memories
  <2> QED  BY <1>2, <2>1 DEF Memories
<1>5. Within(v, Counts)
  BY <1>2, <1>3 DEF Within
<1>6. Allocated(v) = Allocated(m) /\ \A a \in Allocated(m) : v[a].next = m[a].next
  BY <1>2, <1>3, Sorts DEF Allocated, s
<1>7. Listed(m) => Listed(v)
  BY <1>4, <1>6, ListKept
<1> QED  BY <1>2, <1>3, <1>4, <1>5, <1>7 DEF v

LEMMA InitCounterType ==
  /\ InitCounter \in Nat
  /\ Checking => \A n \in 0 .. InitCounter : n \in Counts
<1>1. InitCounter \in Nat
  <2>1. Cardinality(Workers) \in Nat /\ NbCheckTx \in Nat
    BY BankAssumption, FS_CardinalityType
  <2> QED  BY <2>1 DEF InitCounter
<1> QED  BY <1>1 DEF Counts

LEMMA CounterInitStep ==
  ASSUME BankInvariant, NEW w \in Workers, CounterInitBody(w)
  PROVE  BankInvariant'
<1> DEFINE v == [view[w] EXCEPT ![First].count = InitCounter]
<1>1. /\ op[w] = "counter_init" /\ mode[w] # "none" /\ res[w] = "none"
      /\ Put(w, {First}, v) /\ Return(w, "true") /\ UNCHANGED <<runVars, req, loc>>
  BY DEF CounterInitBody, In, PutCounter
<1>2. /\ Functions /\ TxInv(w) /\ TxType(w) /\ RunType(w)
      /\ view[w] = snap[w] /\ used[w] = {} /\ loc[w] = NewLoc
      /\ snap[w] \in Memories /\ First \in Allocated(snap[w])
  BY <1>1, Started DEF RunOps
<1>3. v \in Memories /\ Within(v, Counts)
  <2>1. InitCounter \in Nat /\ InitCounter \in Counts
    <3>1. Checking
      BY <1>1, Phases DEF CheckOps
    <3> QED  BY <3>1, InitCounterType
  <2> QED  BY <1>2, <2>1, CounterPut DEF TxType
<1>4. v = [snap[w] EXCEPT ![First].count = InitCounter]
  BY <1>2
<1> HIDE DEF v
<1>5. /\ BodyOf(w) /\ view'[w] = v /\ used'[w] = {First} /\ res'[w] = "true"
      /\ known'[w] = known[w] /\ req'[w] = req[w] /\ loc'[w] = loc[w]
  BY <1>1, <1>2, Putting
<1>6. mode'[w] = mode[w] /\ op'[w] = op[w] /\ snap'[w] = snap[w] /\ mem' = mem
  BY <1>5 DEF BodyOf
<1>7. InitTx(w)' /\ LongTx(w)' /\ AllocTx(w)' /\ ShortTx(w)' /\ CheckTx(w)'
  BY <1>1, <1>4, <1>5, <1>6 DEF InitTx, LongTx, AllocTx, ShortTx, CheckTx
<1>9. "true" \in Results(op[w]) /\ op[w] \in ReadWrite
  BY <1>1 DEF Results, ReadWrite
<1> QED  BY <1>1, <1>2, <1>3, <1>5, <1>7, <1>9, Sorts, BodyStep DEF TxType, RunType

LEMMA CounterTestStep ==
  ASSUME BankInvariant, NEW w \in Workers,
         CounterTestBody(w, "counter_check", InitCounter) \/ CounterTestBody(w, "zero", 0)
  PROVE  BankInvariant'
<1>1. /\ op[w] \in {"counter_check", "zero"} /\ mode[w] # "none" /\ res[w] = "none"
      /\ Look(w, First) /\ UNCHANGED <<runVars, req, loc>>
  BY DEF CounterTestBody, In
<1>2. TxInv(w) /\ view[w] = snap[w] /\ loc[w] = NewLoc
  BY <1>1, Started DEF RunOps
<1>3. Counter(w) = mem[First].count
  BY <1>1, <1>2 DEF TxInv, CheckTx, Counter, Here, NewLoc
<1>4. Return(w, "true")
  <2>1. CASE CounterTestBody(w, "counter_check", InitCounter)
    <3>1. op[w] = "counter_check" /\ Return(w, Bool(Counter(w) = InitCounter))
      BY <2>1 DEF CounterTestBody, In
    <3>2. mem[First].count = InitCounter
      BY <3>1, Phases DEF CounterSet
    <3> QED  BY <1>3, <3>1, <3>2 DEF Bool
  <2>2. CASE CounterTestBody(w, "zero", 0)
    <3>1. op[w] = "zero" /\ Return(w, Bool(Counter(w) = 0))
      BY <2>2 DEF CounterTestBody, In
    <3>2. mem[First].count = 0
      BY <3>1, Phases DEF CountedDown
    <3> QED  BY <1>3, <3>1, <3>2 DEF Bool
  <2> QED  BY <2>1, <2>2
<1> QED  BY <1>1, <1>4, TestStep

LEMMA FetchStep ==
  ASSUME BankInvariant, NEW w \in Workers, FetchBody(w)
  PROVE  BankInvariant'
<1>1. /\ op[w] = "fetch" /\ mode[w] # "none" /\ res[w] = "none"
      /\ Look(w, First) /\ res' = [res EXCEPT ![w] = "true"]
      /\ known' = [known EXCEPT ![w] = Counter(w)]
      /\ op' = op /\ todo' = todo /\ req' = req /\ loc' = loc
  BY DEF FetchBody, In, Return
<1>2. /\ Functions /\ TxInv(w) /\ TxType(w) /\ RunType(w)
      /\ view[w] = snap[w] /\ used[w] = {} /\ loc[w] = NewLoc
      /\ snap[w] \in Memories /\ First \in Allocated(snap[w])
  BY <1>1, Started DEF RunOps
<1>3. Counter(w) = snap[w][First].count /\ Counter(w) \in Nat
  BY <1>2, Contents DEF Counter, Here, NewLoc
<1>4. /\ mem' = mem /\ mode' = mode /\ snap' = snap /\ view' = view
      /\ used' = [used EXCEPT ![w] = used'[w]] /\ used'[w] = used[w] \cup {First}
  BY <1>1, <1>2, Looking
<1>5. known'[w] = Counter(w) /\ res'[w] = "true" /\ req'[w] = req[w] /\ loc'[w] = loc[w]
  BY <1>1, <1>2 DEF Functions
<1>6. BodyOf(w)
  BY <1>1, <1>2, <1>4, <1>5 DEF BodyOf, StepOf, Functions
<1>7. InitTx(w)' /\ LongTx(w)' /\ AllocTx(w)' /\ ShortTx(w)' /\ CheckTx(w)'
  BY <1>1, <1>2, <1>3, <1>4, <1>5 DEF TxInv, InitTx, LongTx, AllocTx, ShortTx, CheckTx
<1>8. "true" \in Results(op[w]) /\ op[w] \notin ReadWrite
  BY <1>1 DEF Results, ReadWrite
<1> QED  BY <1>1, <1>2, <1>3, <1>4, <1>5, <1>6, <1>7, <1>8, Sorts, BodyStep DEF TxType, RunType

(* The counter is not zero before the last turn of the last worker. *)
LEMMA TurnsLeft ==
  ASSUME BankInvariant, NEW w \in Workers, op[w] \in {"fetch", "decrease"}
  PROVE  /\ todo[w] \in Nat \ {0} /\ todo \in [Workers -> Nat] /\ mem[First].count = SumFunctionOnSet(todo, Workers)
         /\ mem[First].count \in 1 .. InitCounter
<1>1. CountDown /\ todo[w] > 0
  BY Phases DEF BankInvariant, PhaseInv
<1>2. todo \in [Workers -> Nat]
  BY DEF BankInvariant, TypeOK
<1>3. mem[First].count = SumFunctionOnSet(todo, Workers)
  BY <1>1, <1>2 DEF CountDown, SumFunction
<1>4. SumFunctionOnSet(todo, Workers) \in Nat /\ todo[w] <= SumFunctionOnSet(todo, Workers)
  BY <1>2, SumNat, Sorts
<1> QED  BY <1>1, <1>2, <1>3, <1>4, InitCounterType DEF CountDown

LEMMA DecreaseStep ==
  ASSUME BankInvariant, NEW w \in Workers, DecreaseBody(w)
  PROVE  BankInvariant'
<1>1. op[w] = "decrease" /\ mode[w] # "none" /\ res[w] = "none" /\ UNCHANGED <<runVars, req, loc>>
  BY DEF DecreaseBody, In
<1>2. /\ Functions /\ TxInv(w) /\ TxType(w) /\ RunType(w)
      /\ view[w] = snap[w] /\ used[w] = {} /\ loc[w] = NewLoc
      /\ snap[w] \in Memories /\ First \in Allocated(snap[w])
  BY <1>1, Started DEF RunOps
<1> DEFINE n == Counter(w)
           v == [view[w] EXCEPT ![First].count = n - 1]
<1>3. /\ n = snap[w][First].count /\ n \in Nat /\ n <= known[w] /\ mem[First].count <= n /\ n \in Counts
  <2>1. n = snap[w][First].count /\ n \in Nat
    BY <1>2, Contents DEF Counter, Here, NewLoc
  <2>2. n \in Counts
    BY <1>2, <2>1, Sorts DEF TxType, Within, Allocated
  <2> QED  BY <1>1, <1>2, <2>1, <2>2 DEF TxInv, CheckTx
<1>4. Put(w, {First}, v) /\ Return(w, "true")
  <2>1. known[w] \in Nat /\ ~(Counter(w) > known[w])
    BY <1>2, <1>3 DEF RunType
  <2> QED  BY <2>1 DEF DecreaseBody, PutCounter
<1>5. n - 1 \in Nat /\ n - 1 \in Counts
  <2>1. mem[First].count \in 1 .. InitCounter
    BY <1>1, TurnsLeft
  <2>2. n - 1 \in Nat
    BY <1>3, <2>1, InitCounterType
  <2> QED  BY <1>3, <2>2, InitCounterType, Sorts DEF Counts
<1>6. v \in Memories /\ Within(v, Counts)
  <2> HIDE DEF n
  <2> QED  BY <1>2, <1>5, CounterPut DEF TxType
<1>7. v = [snap[w] EXCEPT ![First].count = @ - 1]
  BY <1>2, <1>3
<1> HIDE DEF v, n
<1>8. /\ BodyOf(w) /\ view'[w] = v /\ used'[w] = {First} /\ res'[w] = "true"
      /\ known'[w] = known[w] /\ req'[w] = req[w] /\ loc'[w] = loc[w]
  BY <1>1, <1>2, <1>4, Putting
<1>9. mode'[w] = mode[w] /\ op'[w] = op[w] /\ snap'[w] = snap[w] /\ mem' = mem
  BY <1>8 DEF BodyOf
<1>10. InitTx(w)' /\ LongTx(w)' /\ AllocTx(w)' /\ ShortTx(w)' /\ CheckTx(w)'
  BY <1>1, <1>2, <1>7, <1>8, <1>9 DEF TxInv, InitTx, LongTx, AllocTx, ShortTx, CheckTx
<1>11. "true" \in Results(op[w]) /\ op[w] \in ReadWrite
  BY <1>1 DEF Results, ReadWrite
<1> QED  BY <1>1, <1>2, <1>6, <1>8, <1>10, <1>11, Sorts, BodyStep DEF TxType, RunType

-----------------------------------------------------------------------------
(* Walks *)

LEMMA NextListed ==
  ASSUME NEW m \in Memories, Listed(m), NEW s \in Allocated(m), m[s].next # Null
  PROVE  m[s].next \in Allocated(m)
<1>1. PICK k \in Nat : \E q : IsList(q, k, m)
  BY Lists
<1>2. PICK q : IsList(q, k, m)
  BY <1>1
<1>3. PICK i \in 0 .. k : s = q[i]
  BY <1>2 DEF IsList
<1>4. i + 1 \in 0 .. k /\ m[s].next = q[i + 1]
  BY <1>2, <1>3, ListFacts
<1> QED  BY <1>2, <1>4 DEF IsList

LEMMA WalkStart ==
  ASSUME NEW m \in Memories, Listed(m)
  PROVE  Walk(m, {}, NewLoc)
<1>1. PICK k \in 0 .. Cardinality(Segs) : \E q \in [0 .. k -> Addresses] : IsList(q, k, m)
  BY DEF Listed
<1>2. PICK q \in [0 .. k -> Addresses] : IsList(q, k, m)
  BY <1>1
<1>3. 0 \in 0 .. k /\ {q[i] : i \in 0 .. 0 - 1} = {}
  BY <1>1, Sorts
<1>4. NewLoc.at = q[0] /\ NewLoc.prev = Null /\ NewLoc.count = Number(m, {})
  BY <1>2, MoneyNone DEF NewLoc, IsList
<1> QED  BY <1>1, <1>2, <1>3, <1>4 DEF Walk

(* Where a walk is, as a position in the list. *)
WalkIs(m, past, l, k, q, j) ==
  /\ k \in 0 .. Cardinality(Segs) /\ q \in [0 .. k -> Addresses] /\ j \in 0 .. k
  /\ IsList(q, k, m)
  /\ l.at = q[j] /\ past = {q[i] : i \in 0 .. j - 1}
  /\ l.prev \in {Null, IF j = 0 THEN Null ELSE q[j - 1]}
  /\ l.count = Number(m, past)

LEMMA WalkAt ==
  ASSUME NEW m \in Memories, NEW past, NEW l, NEW k, NEW q, NEW j, WalkIs(m, past, l, k, q, j)
  PROVE  /\ k \in Nat /\ j \in Nat /\ past \in SUBSET Allocated(m) /\ l.at \in Allocated(m) \ past
         /\ (m[l.at].next = Null) <=> (j = k)
         /\ j # k => j + 1 \in 0 .. k /\ m[l.at].next = q[j + 1]
         /\ past \cup {l.at} = {q[i] : i \in 0 .. j}
         /\ past = {} <=> j = 0
<1>1. k \in Nat /\ j \in Nat /\ j \in 0 .. k /\ IsList(q, k, m) /\ l.at = q[j] /\ past = {q[i] : i \in 0 .. j - 1}
  BY Sorts DEF WalkIs
<1>2. /\ l.at \in Allocated(m)
      /\ (m[l.at].next = Null) <=> (j = k)
      /\ j # k => j + 1 \in 0 .. k /\ m[l.at].next = q[j + 1]
  BY <1>1, ListFacts
<1>3. \A i \in 0 .. j - 1 : i \in 0 .. k /\ i # j /\ i \in 0 .. j
  BY <1>1
<1>4. \A i \in 0 .. j : i \in 0 .. j - 1 \/ i = j
  BY <1>1
<1>5. past \in SUBSET Allocated(m)
  BY <1>1, <1>3 DEF IsList
<1>6. l.at \notin past
  BY <1>1, <1>3 DEF IsList
<1>7. past \cup {l.at} = {q[i] : i \in 0 .. j}
  <2>1. j \in 0 .. j
    BY <1>1
  <2> QED  BY <1>1, <1>3, <1>4, <2>1
<1>8. past = {} <=> j = 0
  <2>1. j # 0 => 0 \in 0 .. j - 1
    BY <1>1
  <2>2. j = 0 => 0 .. j - 1 = {}
    BY <1>1
  <2> QED  BY <1>1, <2>1, <2>2
<1> QED  BY <1>1, <1>2, <1>5, <1>6, <1>7, <1>8

LEMMA WalkIsSome ==
  ASSUME NEW m, NEW past, NEW l, Walk(m, past, l)
  PROVE  \E k, q, j : WalkIs(m, past, l, k, q, j)
  BY DEF Walk, WalkIs

(* What a walk has counted, and what it counts next. *)
LEMMA WalkCounts ==
  ASSUME NEW m \in Memories, NEW past, NEW l, Walk(m, past, l)
  PROVE  /\ past \in SUBSET Allocated(m) /\ l.at \in Allocated(m) /\ l.at \in Addresses
         /\ l.count = Number(m, past) /\ Number(m, past) \in Nat /\ Money(m, past) \in Int
         /\ Money(m, past \cup {l.at}) = Money(m, past) + Worth(m[l.at])
         /\ Number(m, past \cup {l.at}) = Number(m, past) + m[l.at].count
         /\ m[l.at].next = Null => past \cup {l.at} = Allocated(m)
<1>1. PICK k, q, j : WalkIs(m, past, l, k, q, j)
  BY WalkIsSome
<1>2. /\ past \in SUBSET Allocated(m) /\ l.at \in Allocated(m) \ past
      /\ (m[l.at].next = Null) <=> (j = k)
      /\ past \cup {l.at} = {q[i] : i \in 0 .. j}
  BY <1>1, WalkAt
<1>3. l.count = Number(m, past) /\ IsList(q, k, m)
  BY <1>1 DEF WalkIs
<1>4. Allocated(m) = {q[i] : i \in 0 .. k}
  BY <1>3 DEF IsList
<1>5. Number(m, past) \in Nat /\ Money(m, past) \in Int
  BY <1>2, MoneySum
<1>6. /\ Money(m, past \cup {l.at}) = Money(m, past) + Worth(m[l.at])
      /\ Number(m, past \cup {l.at}) = Number(m, past) + m[l.at].count
  BY <1>2, MoneyAdd
<1> QED  BY <1>2, <1>3, <1>4, <1>5, <1>6 DEF Allocated

LEMMA WalkEnd ==
  ASSUME NEW m \in Memories, NEW past, NEW l, Walk(m, past, l), m[l.at].next = Null
  PROVE  past \cup {l.at} = Allocated(m)
  BY WalkCounts

LEMMA WalkOn ==
  ASSUME NEW m \in Memories, NEW past, NEW l, Walk(m, past, l), m[l.at].next # Null,
         NEW n, n.at = m[l.at].next, n.prev \in {Null, l.at}, n.count = l.count + m[l.at].count
  PROVE  Walk(m, past \cup {l.at}, n)
<1>1. PICK k, q, j : WalkIs(m, past, l, k, q, j)
  BY WalkIsSome
<1>2. /\ k \in Nat /\ j \in Nat /\ j + 1 \in 0 .. k /\ n.at = q[j + 1]
      /\ past \cup {l.at} = {q[i] : i \in 0 .. j}
  BY <1>1, WalkAt
<1>3. j + 1 # 0 /\ (j + 1) - 1 = j
  BY <1>2
<1>4. n.count = Number(m, past \cup {l.at})
  <2>1. /\ past \in SUBSET Allocated(m) /\ l.at \in Allocated(m) /\ l.at \in Addresses
        /\ l.count = Number(m, past) /\ Number(m, past) \in Nat /\ Money(m, past) \in Int
        /\ Money(m, past \cup {l.at}) = Money(m, past) + Worth(m[l.at])
        /\ Number(m, past \cup {l.at}) = Number(m, past) + m[l.at].count
        /\ m[l.at].next = Null => past \cup {l.at} = Allocated(m)
    BY WalkCounts
  <2> QED  BY <2>1
<1>5. n.prev \in {Null, q[j]}
  BY <1>1 DEF WalkIs
<1> DEFINE i == j + 1
<1>6. i \in 0 .. k /\ n.at = q[i] /\ past \cup {l.at} = {q[a] : a \in 0 .. i - 1}
      /\ n.prev \in {Null, IF i = 0 THEN Null ELSE q[i - 1]}
  BY <1>2, <1>3, <1>5
<1> HIDE DEF i
<1> QED  BY <1>1, <1>4, <1>6 DEF Walk, WalkIs

-----------------------------------------------------------------------------
(* long_tx *)

LEMMA LongStepKeeps ==
  ASSUME BankInvariant, NEW w \in Workers, LongVisit(w)
  PROVE  BankInvariant'
<1> DEFINE s == Here(w)
           l == Counted(w, Here(w), Here(w).parity + Balances(Here(w)))
           m == snap[w]
           at == loc[w].at
<1>1. op[w] \in {"long", "last"} /\ mode[w] # "none" /\ res[w] = "none" /\ op' = op /\ todo' = todo /\ req' = req
      /\ Look(w, at)
  BY DEF LongVisit, LongStep, InLong, In
<1>2. /\ Functions /\ TxInv(w) /\ TxType(w) /\ RunType(w)
      /\ view[w] = m /\ m \in Memories /\ Sound(m) /\ s = m[at]
  BY <1>1, Started DEF RunOps, Here
<1>3. Walk(m, used[w], loc[w]) /\ loc[w].prev = Null /\ loc[w].sum = Money(m, used[w])
  BY <1>1, <1>2 DEF TxInv, LongTx
<1> DEFINE past == used[w]
<1>4. /\ past \in SUBSET Allocated(m) /\ at \in Allocated(m) /\ at \in Addresses
      /\ loc[w].count = Number(m, past) /\ Number(m, past) \in Nat /\ Money(m, past) \in Int
      /\ Money(m, past \cup {at}) = Money(m, past) + Worth(m[at])
      /\ Number(m, past \cup {at}) = Number(m, past) + m[at].count
      /\ m[at].next = Null => past \cup {at} = Allocated(m)
  <2>1. m \in Memories /\ Walk(m, past, loc[w])
    BY <1>2, <1>3
  <2> HIDE DEF m, past
  <2> QED  BY <2>1, WalkCounts
<1>5. /\ ~Indebted(s) /\ s.next \in Segs \cup {Null} /\ s.count \in Nat /\ Worth(s) \in Int
      /\ Worth(s) = s.parity + Balances(s)
  BY <1>2, <1>4, Contents DEF Sound, Shaped, Worth
<1>6. /\ l.at = s.next /\ l.prev = Null /\ l.count = Number(m, past \cup {at}) /\ l.sum = Money(m, past \cup {at})
      /\ l.send = loc[w].send /\ l.recv = loc[w].recv /\ l \in Locals
  <2>1. loc[w] \in Locals
    BY <1>2 DEF TxType
  <2>2. PICK mo : mo = s.parity + Balances(s)
    OBVIOUS
  <2>3. l = [loc[w] EXCEPT !.at = s.next, !.count = @ + s.count, !.sum = @ + mo] /\ mo \in Int
    BY <1>5, <2>2 DEF Counted
  <2>4. PICK c, u : c = loc[w].count + s.count /\ u = loc[w].sum + mo
    OBVIOUS
  <2>5. c \in Nat /\ u \in Int /\ c = Number(m, past \cup {at}) /\ u = Money(m, past \cup {at})
    <3>1. c = Number(m, past) + s.count /\ u = Money(m, past) + Worth(s) /\ s = m[at]
      BY <1>2, <1>3, <1>4, <1>5, <2>2, <2>4
    <3> HIDE DEF s, m, past, at
    <3> QED  BY <1>4, <1>5, <3>1
  <2>6. l = [loc[w] EXCEPT !.at = s.next, !.count = c, !.sum = u]
    BY <2>3, <2>4
  <2>7. s.next \in Addresses \cup {Null}
    BY <1>5, Sorts
  <2>8. PICK n : n = s.next
    OBVIOUS
  <2>9. PICK o : o = loc[w]
    OBVIOUS
  <2> HIDE DEF l, s
  <2>10. l = [o EXCEPT !.at = n, !.count = c, !.sum = u] /\ o \in Locals /\ n \in Addresses \cup {Null}
    BY <2>1, <2>6, <2>7, <2>8, <2>9
  <2>11. /\ l.at = n /\ l.prev = o.prev /\ l.count = c /\ l.sum = u /\ l.send = o.send /\ l.recv = o.recv
         /\ l \in Locals
    BY <2>5, <2>10 DEF Locals
  <2> QED  BY <1>3, <2>5, <2>8, <2>9, <2>11
<1>7. /\ mem' = mem /\ mode' = mode /\ snap' = snap /\ view' = view
      /\ used' = [used EXCEPT ![w] = used'[w]] /\ used'[w] = past \cup {at}
  BY <1>1, <1>2, Looking
<1>8. ~Indebted(s) => /\ loc' = [loc EXCEPT ![w] = l]
                      /\ IF l.at # Null THEN UNCHANGED <<res, known>>
                         ELSE /\ Return(w, Bool(l.sum = InitBalance * l.count))
                              /\ known' = [known EXCEPT ![w] = IF op[w] = "long" THEN l.count ELSE @]
  <2> HIDE DEF l, s
  <2>1. LongStep(w, l)
    BY DEF LongVisit, l, s
  <2> QED  BY <2>1 DEF LongStep, s
<1> HIDE DEF l, s
<1>9. loc' = [loc EXCEPT ![w] = l] /\ loc'[w] = l
  BY <1>2, <1>5, <1>8 DEF Functions
<1>10. CASE l.at # Null
  <2>1. res' = res /\ known' = known
    BY <1>5, <1>8, <1>10
  <2>2. BodyOf(w)
    BY <1>1, <1>2, <1>7, <1>9, <2>1 DEF BodyOf, StepOf, Functions
  <2>3. Walk(m, past \cup {at}, l)
    BY <1>2, <1>3, <1>6, <1>10, WalkOn, <1>4
  <2>4. InitTx(w)' /\ LongTx(w)' /\ AllocTx(w)' /\ ShortTx(w)' /\ CheckTx(w)'
    <3>1. op'[w] = op[w] /\ snap'[w] = m /\ res'[w] = "none" /\ used'[w] = past \cup {at}
      BY <1>1, <1>7, <2>1
    <3> QED  BY <1>1, <1>6, <1>9, <2>3, <3>1 DEF InitTx, LongTx, AllocTx, ShortTx, CheckTx
  <2>5. /\ view'[w] = view[w] /\ req'[w] = req[w] /\ known'[w] = known[w] /\ res'[w] = "none"
        /\ "none" \in Results(op[w]) /\ op[w] \in RunOps
    BY <1>1, <1>7, <2>1 DEF Results, RunOps
  <2> QED  BY <1>1, <1>2, <1>4, <1>6, <1>7, <1>9, <2>2, <2>4, <2>5, Sorts, BodyStep DEF TxType, RunType
<1>11. CASE l.at = Null
  <2>1. l.sum = InitBalance * l.count /\ l.count \in Nat
    BY <1>2, <1>4, <1>6, <1>11, MoneySum DEF Sound
  <2>2. res' = [res EXCEPT ![w] = "true"] /\ known' = [known EXCEPT ![w] = IF op[w] = "long" THEN l.count ELSE @]
    BY <1>5, <1>8, <1>11, <2>1 DEF Return, Bool
  <2>3. res'[w] = "true" /\ known'[w] \in Nat
    BY <1>2, <2>1, <2>2 DEF Functions, RunType
  <2>4. BodyOf(w)
    BY <1>1, <1>2, <1>7, <1>9, <2>2, <2>3 DEF BodyOf, StepOf, Functions
  <2>5. InitTx(w)' /\ LongTx(w)' /\ AllocTx(w)' /\ ShortTx(w)' /\ CheckTx(w)'
    <3>1. op'[w] = op[w] /\ res'[w] = "true"
      BY <1>1, <2>3
    <3> QED  BY <1>1, <3>1 DEF InitTx, LongTx, AllocTx, ShortTx, CheckTx
  <2>6. view'[w] = view[w] /\ req'[w] = req[w] /\ "true" \in Results(op[w]) /\ op[w] \in RunOps \ ReadWrite
    BY <1>1, <1>7 DEF Results, RunOps, ReadWrite
  <2>7. op[w] # "decrease"
    BY <1>1
  <2> QED  BY <1>1, <1>2, <1>4, <1>6, <1>7, <1>9, <2>3, <2>4, <2>5, <2>6, <2>7, Sorts, BodyStep DEF TxType, RunType
<1> QED  BY <1>10, <1>11

-----------------------------------------------------------------------------
(* alloc_tx *)

(* What alloc_tx starts a visit from. *)
LEMMA AllocStarted ==
  ASSUME BankInvariant, NEW w \in Workers, In(w, "alloc")
  PROVE  /\ op[w] = "alloc" /\ mode[w] # "none" /\ res[w] = "none"
         /\ Functions /\ TxInv(w) /\ TxType(w) /\ RunType(w)
         /\ view[w] = snap[w] /\ snap[w] \in Memories /\ Sound(snap[w])
         /\ Here(w) = snap[w][loc[w].at] /\ Here(w) \in Segments
         /\ Walk(snap[w], used[w], loc[w]) /\ (used[w] # {} => loc[w].prev # Null)
         /\ loc[w].at \in Allocated(snap[w]) /\ loc[w].at \in Addresses
<1>1. op[w] = "alloc" /\ mode[w] # "none" /\ res[w] = "none"
  BY DEF In
<1>2. /\ Functions /\ TxInv(w) /\ TxType(w) /\ RunType(w)
      /\ view[w] = snap[w] /\ snap[w] \in Memories /\ Sound(snap[w])
  BY <1>1, Started DEF RunOps
<1>3. Walk(snap[w], used[w], loc[w]) /\ (used[w] # {} => loc[w].prev # Null)
  BY <1>1, <1>2 DEF TxInv, AllocTx
<1>4. loc[w].at \in Allocated(snap[w]) /\ loc[w].at \in Addresses
  BY <1>2, <1>3, WalkCounts
<1>5. Here(w) = snap[w][loc[w].at] /\ Here(w) \in Segments
  BY <1>2, <1>4, Contents DEF Here
<1> QED  BY <1>1, <1>2, <1>3, <1>4, <1>5

LEMMA AllocVisitKeeps ==
  ASSUME BankInvariant, NEW w \in Workers, AllocVisit(w)
  PROVE  BankInvariant'
<1> DEFINE s == Here(w)
           at == loc[w].at
           l == [loc[w] EXCEPT !.prev = at, !.at = s.next, !.count = @ + s.count]
<1>1. In(w, "alloc") /\ s.next # Null /\ Look(w, at)
  BY DEF AllocVisit
<1>2. /\ op[w] = "alloc" /\ mode[w] # "none" /\ res[w] = "none"
      /\ Functions /\ TxInv(w) /\ TxType(w) /\ RunType(w)
      /\ view[w] = snap[w] /\ snap[w] \in Memories /\ Sound(snap[w])
      /\ s = snap[w][at] /\ s \in Segments
      /\ Walk(snap[w], used[w], loc[w]) /\ (used[w] # {} => loc[w].prev # Null)
      /\ at \in Allocated(snap[w]) /\ at \in Addresses
  BY <1>1, AllocStarted
<1>3. loc' = [loc EXCEPT ![w].prev = at, ![w].at = s.next, ![w].count = @ + s.count]
  BY DEF AllocVisit
<1>4. mode' = mode /\ op' = op /\ todo' = todo /\ known' = known /\ req' = req /\ res' = res
  BY DEF AllocVisit, runVars, Look
<1>5. loc' = [loc EXCEPT ![w] = l] /\ loc'[w] = l
  BY <1>2, <1>3 DEF Functions
<1>6. /\ l.at = s.next /\ l.prev = at /\ l.count = loc[w].count + s.count /\ l \in Locals
  <2>1. PICK o : o = loc[w]
    OBVIOUS
  <2>2. PICK n : n = s.next
    OBVIOUS
  <2>3. PICK c : c = loc[w].count + s.count
    OBVIOUS
  <2>4. s.next \in Segs \cup {Null} /\ s.count \in Nat
    BY <1>2 DEF Segments
  <2>5. o \in Locals /\ c \in Nat /\ n \in Addresses \cup {Null}
    <3>1. o \in Locals /\ n \in Addresses \cup {Null}
      BY <1>2, <2>1, <2>2, <2>4, Sorts DEF TxType
    <3>2. o.count \in Nat
      BY <3>1 DEF Locals
    <3> QED  BY <2>1, <2>3, <2>4, <3>1, <3>2
  <2>6. l = [o EXCEPT !.prev = at, !.at = n, !.count = c]
    BY <2>1, <2>2, <2>3
  <2>7. PICK a : a = at
    OBVIOUS
  <2>8. l = [o EXCEPT !.prev = a, !.at = n, !.count = c] /\ a \in Addresses
    BY <1>2, <2>6, <2>7
  <2> HIDE DEF l, s, at
  <2>9. l.at = n /\ l.prev = a /\ l.count = c /\ l \in Locals
    BY <2>5, <2>8 DEF Locals
  <2> QED  BY <2>2, <2>3, <2>7, <2>9
<1> HIDE DEF l, s
<1>7. /\ mem' = mem /\ mode' = mode /\ snap' = snap /\ view' = view
      /\ used' = [used EXCEPT ![w] = used'[w]] /\ used'[w] = used[w] \cup {at}
  BY <1>1, <1>2, Looking
<1>8. BodyOf(w)
  BY <1>2, <1>4, <1>5, <1>7, ZenonT(40) DEF BodyOf, StepOf, Functions
<1>9. Walk(snap[w], used[w] \cup {at}, l)
  BY <1>1, <1>2, <1>6, WalkOn
<1>10. InitTx(w)' /\ LongTx(w)' /\ AllocTx(w)' /\ ShortTx(w)' /\ CheckTx(w)'
  <2>1. at # Null
    BY <1>2, Sorts
  <2> QED  BY <1>2, <1>4, <1>5, <1>6, <1>7, <1>9, <2>1 DEF InitTx, LongTx, AllocTx, ShortTx, CheckTx
<1>11. "none" \in Results(op[w]) /\ op[w] \in RunOps /\ op[w] # "decrease" /\ res'[w] = "none"
       /\ view'[w] = view[w] /\ known'[w] = known[w] /\ req'[w] = req[w]
  BY <1>2, <1>4, <1>7 DEF Results, RunOps
<1> QED  BY <1>2, <1>5, <1>6, <1>7, <1>8, <1>10, <1>11, BodyStep DEF TxType, RunType

(* At the end of the list the body has been everywhere. *)
LEMMA AllocEnd ==
  ASSUME BankInvariant, NEW w \in Workers, AtLast(w),
         NEW S \in SUBSET Addresses, loc[w].at \in S,
         NEW v \in Memories, Sound(v), \A a \in Addresses \ S : v[a] = snap[w][a],
         AllocDone(w, S, v)
  PROVE  BankInvariant'
<1>1. In(w, "alloc") /\ Here(w).next = Null
  BY DEF AtLast
<1>2. /\ op[w] = "alloc" /\ mode[w] # "none" /\ res[w] = "none"
      /\ Functions /\ TxInv(w) /\ TxType(w) /\ RunType(w)
      /\ snap[w] \in Memories /\ Here(w) = snap[w][loc[w].at]
      /\ Walk(snap[w], used[w], loc[w])
  BY <1>1, AllocStarted
<1>3. used[w] \cup {loc[w].at} = Allocated(snap[w])
  BY <1>1, <1>2, WalkEnd
<1>4. /\ BodyOf(w) /\ view'[w] = v /\ used'[w] = used[w] \cup S /\ res'[w] = "true"
      /\ known'[w] = known[w] /\ req'[w] = req[w] /\ loc'[w] = loc[w]
  BY <1>2, Putting DEF AllocDone
<1>5. mode'[w] = mode[w] /\ op'[w] = op[w] /\ snap'[w] = snap[w]
  BY <1>4 DEF BodyOf
<1>6. InitTx(w)' /\ LongTx(w)' /\ AllocTx(w)' /\ ShortTx(w)' /\ CheckTx(w)'
  BY <1>2, <1>3, <1>4, <1>5 DEF InitTx, LongTx, AllocTx, ShortTx, CheckTx
<1>7. Within(v, Counts)
  BY ShapedWithin DEF Sound
<1>8. "true" \in Results(op[w]) /\ op[w] \in RunOps /\ op[w] \in ReadWrite /\ op[w] # "decrease"
  BY <1>2 DEF Results, RunOps, ReadWrite
<1>9. used'[w] \in SUBSET Addresses
  BY <1>2, <1>4 DEF TxType
<1> QED  BY <1>2, <1>4, <1>6, <1>7, <1>8, <1>9, BodyStep DEF TxType, RunType

LEMMA RemoveAccountKeeps ==
  ASSUME BankInvariant, NEW w \in Workers, RemoveAccount(w)
  PROVE  BankInvariant'
<1> DEFINE at == loc[w].at
           v == [snap[w] EXCEPT ![at].count = @ - 1, ![at].parity = NewParity(snap[w][at])]
<1>1. AtLast(w) /\ In(w, "alloc") /\ Here(w).next = Null /\ Here(w).count > 1
  BY DEF RemoveAccount, Removes, AtLast
<1>2. /\ view[w] = snap[w] /\ snap[w] \in Memories /\ Sound(snap[w])
      /\ Here(w) = snap[w][at] /\ at \in Allocated(snap[w]) /\ at \in Addresses
  BY <1>1, AllocStarted
<1>3. AllocDone(w, {at}, v)
  BY <1>2 DEF RemoveAccount
<1>4. v \in Memories /\ Sound(v)
  BY <1>1, <1>2, SoundRemoved
<1>5. \A a \in Addresses \ {at} : v[a] = snap[w][a]
  BY <1>2 DEF Memories
<1> HIDE DEF v
<1> QED  BY <1>1, <1>2, <1>3, <1>4, <1>5, AllocEnd

LEMMA AddAccountKeeps ==
  ASSUME BankInvariant, NEW w \in Workers, AddAccount(w)
  PROVE  BankInvariant'
<1> DEFINE at == loc[w].at
           v == [snap[w] EXCEPT ![at].count = snap[w][at].count + 1,
                                ![at].accounts[snap[w][at].count] = InitBalance]
<1>1. AtLast(w) /\ In(w, "alloc") /\ Here(w).next = Null /\ Here(w).count < NbAccounts
  BY DEF AddAccount, Adds, AtLast
<1>2. /\ view[w] = snap[w] /\ snap[w] \in Memories /\ Sound(snap[w])
      /\ Here(w) = snap[w][at] /\ at \in Allocated(snap[w]) /\ at \in Addresses
  BY <1>1, AllocStarted
<1>3. AllocDone(w, {at}, v)
  BY <1>2 DEF AddAccount, AddTo
<1>4. v \in Memories /\ Sound(v)
  BY <1>1, <1>2, SoundAdded
<1>5. \A a \in Addresses \ {at} : v[a] = snap[w][a]
  BY <1>2 DEF Memories
<1> HIDE DEF v
<1> QED  BY <1>1, <1>2, <1>3, <1>4, <1>5, AllocEnd

(* The segment before the last is the one that was visited before. *)
LEMMA RemoveSegmentKeeps ==
  ASSUME BankInvariant, NEW w \in Workers, RemoveSegment(w)
  PROVE  BankInvariant'
<1> DEFINE at == loc[w].at
           prev == loc[w].prev
           m == snap[w]
           v == [m EXCEPT ![at] = Null, ![prev].next = Null, ![prev].parity = @ + NewParity(m[at])]
<1>1. AtLast(w) /\ In(w, "alloc") /\ Here(w).next = Null /\ Here(w).count = 1 /\ Total(w) > 2
  BY DEF RemoveSegment, FreeNext, Removes, AtLast
<1>2. /\ view[w] = m /\ m \in Memories /\ Sound(m)
      /\ Here(w) = m[at] /\ at \in Allocated(m) /\ at \in Addresses
      /\ Walk(m, used[w], loc[w]) /\ (used[w] # {} => prev # Null)
  BY <1>1, AllocStarted
<1>3. AllocDone(w, {at, prev}, v)
  BY <1>2 DEF RemoveSegment, FreeNext
<1>4. PICK k, q, j : WalkIs(m, used[w], loc[w], k, q, j)
  BY <1>2, WalkIsSome
<1>5. /\ k \in Nat /\ j \in Nat
      /\ (m[at].next = Null) <=> (j = k)
      /\ used[w] = {} <=> j = 0
  <2> HIDE DEF m
  <2> QED  BY <1>2, <1>4, WalkAt
<1>6. used[w] # {}
  <2>1. used[w] = {} => Number(m, used[w]) = 0
    BY <1>2, MoneyNone
  <2>2. loc[w].count = Number(m, used[w])
    BY <1>4 DEF WalkIs
  <2> QED  BY <1>1, <2>1, <2>2 DEF Total
<1>7. k \in Nat \ {0} /\ j = k /\ IsList(q, k, m) /\ at = q[k] /\ prev = q[k - 1]
  BY <1>1, <1>2, <1>4, <1>5, <1>6 DEF WalkIs
<1>8. v \in Memories /\ Sound(v)
  <2> HIDE DEF m, at, prev
  <2>1. m[at].count = 1
    BY <1>1, <1>2
  <2> QED  BY <1>2, <1>7, <2>1, SoundShrunk
<1>9. prev \in Addresses
  <2>1. k - 1 \in 0 .. k
    BY <1>7
  <2> QED  BY <1>7, <2>1 DEF IsList
<1>10. \A a \in Addresses \ {at, prev} : v[a] = m[a]
  BY <1>2 DEF Memories
<1> HIDE DEF v
<1> QED  BY <1>1, <1>2, <1>3, <1>8, <1>9, <1>10, AllocEnd

LEMMA AddSegmentKeeps ==
  ASSUME BankInvariant, NEW w \in Workers, NEW new \in Segs, AddSegment(w, new)
  PROVE  BankInvariant'
<1> DEFINE at == loc[w].at
           m == snap[w]
           v == [m EXCEPT ![at].next = new, ![new] = [Fresh EXCEPT !.count = 1, !.accounts[0] = InitBalance]]
<1>1. AtLast(w) /\ In(w, "alloc") /\ Here(w).next = Null /\ Here(w).count = NbAccounts /\ view[w][new] = Null
  BY DEF AddSegment, Adds, AtLast
<1>2. /\ view[w] = m /\ m \in Memories /\ Sound(m)
      /\ Here(w) = m[at] /\ at \in Allocated(m) /\ at \in Addresses
      /\ Walk(m, used[w], loc[w])
  BY <1>1, AllocStarted
<1>3. AllocDone(w, {at, new}, v)
  BY <1>2 DEF AddSegment
<1>4. PICK k, q, j : WalkIs(m, used[w], loc[w], k, q, j)
  BY <1>2, WalkIsSome
<1>5. k \in Nat /\ j = k /\ IsList(q, k, m) /\ at = q[k]
  <2>1. /\ k \in Nat
        /\ (m[at].next = Null) <=> (j = k)
    <3> HIDE DEF m
    <3> QED  BY <1>2, <1>4, WalkAt
  <2> QED  BY <1>1, <1>2, <1>4, <2>1 DEF WalkIs
<1>6. v \in Memories /\ Sound(v)
  <2> HIDE DEF m, at
  <2>1. m[at].count = NbAccounts /\ m[new] = Null
    BY <1>1, <1>2
  <2> QED  BY <1>2, <1>5, <2>1, SoundGrown
<1>7. \A a \in Addresses \ {at, new} : v[a] = m[a]
  BY <1>2 DEF Memories
<1>8. new \in Addresses
  BY Sorts
<1> HIDE DEF v
<1> QED  BY <1>1, <1>2, <1>3, <1>6, <1>7, <1>8, AllocEnd

LEMMA AddSegmentNoMemKeeps ==
  ASSUME BankInvariant, NEW w \in Workers, AddSegmentNoMem(w)
  PROVE  BankInvariant'
<1> DEFINE at == loc[w].at
<1>1. In(w, "alloc") /\ Look(w, at) /\ Return(w, "nomem") /\ UNCHANGED <<runVars, req, loc>>
  BY DEF AddSegmentNoMem, Adds, AtLast
<1>2. /\ op[w] = "alloc" /\ mode[w] # "none" /\ res[w] = "none"
      /\ Functions /\ TxInv(w) /\ TxType(w) /\ RunType(w)
      /\ view[w] = snap[w] /\ at \in Addresses
  BY <1>1, AllocStarted
<1>3. /\ BodyOf(w) /\ view'[w] = view[w] /\ used'[w] = used[w] \cup {at} /\ res'[w] = "nomem"
      /\ known'[w] = known[w] /\ req'[w] = req[w] /\ loc'[w] = loc[w]
  BY <1>1, <1>2, LookingAll
<1>4. mode'[w] = mode[w] /\ op'[w] = op[w] /\ snap'[w] = snap[w]
  BY <1>3 DEF BodyOf
<1>5. InitTx(w)' /\ LongTx(w)' /\ AllocTx(w)' /\ ShortTx(w)' /\ CheckTx(w)'
  BY <1>2, <1>3, <1>4 DEF InitTx, LongTx, AllocTx, ShortTx, CheckTx
<1>6. "nomem" \in Results(op[w]) /\ op[w] \in RunOps /\ op[w] # "decrease"
  BY <1>2 DEF Results, RunOps
<1> QED  BY <1>2, <1>3, <1>5, <1>6, BodyStep DEF TxType, RunType

-----------------------------------------------------------------------------
(* short_tx *)

LEMMA ShortStarted ==
  ASSUME BankInvariant, NEW w \in Workers, In(w, "short")
  PROVE  /\ op[w] = "short" /\ mode[w] # "none" /\ res[w] = "none"
         /\ Functions /\ TxInv(w) /\ TxType(w) /\ RunType(w)
         /\ view[w] = snap[w] /\ snap[w] \in Memories /\ Sound(snap[w])
         /\ \A p \in {loc[w].send, loc[w].recv} \ {Null} : IsPlace(snap[w], p)
         /\ loc[w].at \in Allocated(snap[w]) /\ loc[w].at \in Addresses
         /\ Here(w) = snap[w][loc[w].at] /\ Here(w) \in Segments
<1>1. op[w] = "short" /\ mode[w] # "none" /\ res[w] = "none"
  BY DEF In
<1>2. /\ Functions /\ TxInv(w) /\ TxType(w) /\ RunType(w)
      /\ view[w] = snap[w] /\ snap[w] \in Memories /\ Sound(snap[w])
  BY <1>1, Started DEF RunOps
<1>3. /\ \A p \in {loc[w].send, loc[w].recv} \ {Null} : IsPlace(snap[w], p)
      /\ loc[w].at \in Allocated(snap[w])
  BY <1>1, <1>2 DEF TxInv, ShortTx
<1>4. Here(w) = snap[w][loc[w].at] /\ Here(w) \in Segments /\ loc[w].at \in Addresses
  BY <1>2, <1>3, Contents DEF Here
<1> QED  BY <1>1, <1>2, <1>3, <1>4

(* Looking for one account in segment s at at. *)
FoundIn(s, at, place, i) == IF place = Null /\ i < s.count THEN <<at, i>> ELSE place
RestOf(s, place, i) == IF place = Null /\ i >= s.count THEN i - s.count ELSE i

LEMMA LookUp ==
  ASSUME NEW m \in Memories, Shaped(m), NEW at \in Allocated(m), NEW place, NEW i \in Nat,
         place = Null \/ IsPlace(m, place)
  PROVE  /\ RestOf(m[at], place, i) \in Nat
         /\ LET p == FoundIn(m[at], at, place, i) IN p = Null \/ IsPlace(m, p)
<1>1. m[at].count \in 1 .. NbAccounts
  BY DEF Shaped
<1>2. RestOf(m[at], place, i) \in Nat
  BY <1>1, Sorts DEF RestOf
<1>3. CASE place = Null /\ i < m[at].count
  <2>1. IsPlace(m, <<at, i>>)
    BY <1>1, <1>3, Sorts DEF IsPlace, Places
  <2> QED  BY <1>2, <1>3, <2>1 DEF FoundIn
<1>4. CASE ~(place = Null /\ i < m[at].count)
  BY <1>2, <1>4 DEF FoundIn
<1> QED  BY <1>3, <1>4

LEMMA FoundType ==
  ASSUME NEW m \in Memories, Shaped(m), NEW at \in Allocated(m), NEW place \in Found, NEW i \in Nat
  PROVE  FoundIn(m[at], at, place, i) \in Found
<1>1. m[at].count \in 1 .. NbAccounts /\ at \in Addresses
  BY DEF Shaped, Allocated
<1>2. i < m[at].count => i \in Places
  BY <1>1, Sorts DEF Places
<1> QED  BY <1>1, <1>2 DEF FoundIn, Found

LEMMA ShortVisitKeeps ==
  ASSUME BankInvariant, NEW w \in Workers, ShortVisit(w)
  PROVE  BankInvariant'
<1> DEFINE m == snap[w]
           at == loc[w].at
           s == m[at]
<1>1. In(w, "short")
  BY DEF ShortVisit
<1>2. /\ op[w] = "short" /\ mode[w] # "none" /\ res[w] = "none"
      /\ Functions /\ TxInv(w) /\ TxType(w) /\ RunType(w)
      /\ view[w] = m /\ m \in Memories /\ Sound(m)
      /\ \A p \in {loc[w].send, loc[w].recv} \ {Null} : IsPlace(m, p)
      /\ at \in Allocated(m) /\ at \in Addresses
      /\ Here(w) = s /\ s \in Segments
  BY <1>1, ShortStarted
<1>3. PICK send : send = FoundIn(s, at, loc[w].send, req[w].send)
  OBVIOUS
<1>4. PICK recv : recv = FoundIn(s, at, loc[w].recv, req[w].recv)
  OBVIOUS
<1>5. PICK rs : rs = RestOf(s, loc[w].send, req[w].send)
  OBVIOUS
<1>6. PICK rr : rr = RestOf(s, loc[w].recv, req[w].recv)
  OBVIOUS
<1>7. PICK next : next = s.next
  OBVIOUS
<1>8. /\ Null \in {loc[w].send, loc[w].recv} /\ Look(w, at)
      /\ req' = [req EXCEPT ![w].send = rs, ![w].recv = rr]
      /\ IF Null \notin {send, recv}
         THEN loc' = [loc EXCEPT ![w].send = send, ![w].recv = recv] /\ res' = res
         ELSE /\ loc' = [loc EXCEPT ![w].send = send, ![w].recv = recv, ![w].at = next]
              /\ IF next = Null THEN res' = [res EXCEPT ![w] = "false"] ELSE res' = res
      /\ op' = op /\ todo' = todo /\ known' = known
  <2>1. DOMAIN req = Workers
    BY <1>2 DEF Functions
  <2> QED  BY <1>2, <1>3, <1>4, <1>5, <1>6, <1>7, <2>1
         DEF ShortVisit, FoundIn, RestOf, Return, runVars
<1> HIDE DEF s
<1>9. loc[w] \in Locals /\ req[w] \in Requests
  BY <1>2 DEF TxType
<1>10. /\ loc[w].send \in Found /\ loc[w].recv \in Found /\ loc[w].prev \in Addresses \cup {Null}
       /\ loc[w].count \in Nat /\ loc[w].sum \in Int
       /\ req[w].send \in Nat /\ req[w].recv \in Nat /\ req[w].trigger \in Nat
  BY <1>9 DEF Locals, Requests
<1>11. /\ send = Null \/ IsPlace(m, send)
       /\ recv = Null \/ IsPlace(m, recv)
       /\ rs \in Nat /\ rr \in Nat /\ send \in Found /\ recv \in Found
  <2>1. Shaped(m)
    BY <1>2 DEF Sound
  <2>2. /\ loc[w].send = Null \/ IsPlace(m, loc[w].send)
        /\ loc[w].recv = Null \/ IsPlace(m, loc[w].recv)
    BY <1>2
  <2>3. s = m[at]
    BY DEF s
  <2> HIDE DEF m, at
  <2>4. send = Null \/ IsPlace(m, send)
    BY <1>2, <1>3, <1>10, <2>1, <2>2, <2>3, LookUp
  <2>5. recv = Null \/ IsPlace(m, recv)
    BY <1>2, <1>4, <1>10, <2>1, <2>2, <2>3, LookUp
  <2>6. rs \in Nat
    BY <1>2, <1>5, <1>10, <2>1, <2>2, <2>3, LookUp
  <2>7. rr \in Nat
    BY <1>2, <1>6, <1>10, <2>1, <2>2, <2>3, LookUp
  <2>8. send \in Found
    BY <1>2, <1>3, <1>10, <2>1, <2>3, FoundType
  <2>9. recv \in Found
    BY <1>2, <1>4, <1>10, <2>1, <2>3, FoundType
  <2> QED  BY <2>4, <2>5, <2>6, <2>7, <2>8, <2>9
<1>12. next \in Addresses \cup {Null} /\ (next # Null => next \in Allocated(m))
  <2>1. Listed(m)
    BY <1>2 DEF Sound, Shaped
  <2>2. next = m[at].next
    BY <1>7 DEF s
  <2>3. next \in Segs \cup {Null}
    BY <1>2, <1>7 DEF Segments
  <2>4. next # Null => next \in Allocated(m)
    <3> HIDE DEF m, at
    <3> QED  BY <1>2, <2>1, <2>2, NextListed
  <2> QED  BY <2>3, <2>4, Sorts
<1>13. req' = [req EXCEPT ![w] = req'[w]] /\ req'[w] \in Requests
  <2>1. req'[w] = [req[w] EXCEPT !.send = rs, !.recv = rr]
    BY <1>2, <1>8 DEF Functions
  <2>2. PICK o : o = req[w]
    OBVIOUS
  <2>3. req'[w] = [o EXCEPT !.send = rs, !.recv = rr] /\ o \in Requests
    BY <1>9, <2>1, <2>2
  <2>4. req'[w] \in Requests
    BY <1>11, <2>3 DEF Requests
  <2>5. req' = [req EXCEPT ![w] = req'[w]]
    BY <1>2, <1>8 DEF Functions
  <2> QED  BY <2>4, <2>5
<1>14. /\ loc' = [loc EXCEPT ![w] = loc'[w]] /\ loc'[w] \in Locals
       /\ loc'[w].send = send /\ loc'[w].recv = recv
       /\ loc'[w].at = IF Null \notin {send, recv} THEN at ELSE next
  <2>1. PICK o : o = loc[w]
    OBVIOUS
  <2>2. CASE Null \notin {send, recv}
    <3>1. loc' = [loc EXCEPT ![w].send = send, ![w].recv = recv]
      BY <1>8, <2>2
    <3>2. loc' = [loc EXCEPT ![w] = loc'[w]] /\ loc'[w] = [o EXCEPT !.send = send, !.recv = recv]
      BY <1>2, <2>1, <3>1 DEF Functions
    <3>3. loc'[w] \in Locals /\ loc'[w].send = send /\ loc'[w].recv = recv /\ loc'[w].at = o.at
      BY <1>9, <1>11, <2>1, <3>2 DEF Locals
    <3> QED  BY <2>1, <2>2, <3>2, <3>3
  <2>3. CASE Null \in {send, recv}
    <3>1. loc' = [loc EXCEPT ![w].send = send, ![w].recv = recv, ![w].at = next]
      BY <1>8, <2>3
    <3>2. loc' = [loc EXCEPT ![w] = loc'[w]] /\ loc'[w] = [o EXCEPT !.send = send, !.recv = recv, !.at = next]
      BY <1>2, <2>1, <3>1 DEF Functions
    <3>3. loc'[w] \in Locals /\ loc'[w].send = send /\ loc'[w].recv = recv /\ loc'[w].at = next
      BY <1>9, <1>11, <1>12, <2>1, <3>2 DEF Locals
    <3> QED  BY <2>3, <3>2, <3>3
  <2> QED  BY <2>2, <2>3
<1>15. /\ res' = [res EXCEPT ![w] = res'[w]] /\ res'[w] \in {"none", "false"}
       /\ res'[w] = "none" => loc'[w].at \in Allocated(m)
  BY <1>2, <1>8, <1>12, <1>14 DEF Functions
<1>16. /\ mem' = mem /\ mode' = mode /\ snap' = snap /\ view' = view
       /\ used' = [used EXCEPT ![w] = used'[w]] /\ used'[w] = used[w] \cup {at}
  BY <1>2, <1>8, Looking
<1>17. BodyOf(w)
  BY <1>2, <1>8, <1>13, <1>14, <1>15, <1>16, ZenonT(40) DEF BodyOf, StepOf, Functions
<1>18. InitTx(w)' /\ LongTx(w)' /\ AllocTx(w)' /\ ShortTx(w)' /\ CheckTx(w)'
  <2>1. op'[w] = "short" /\ snap'[w] = m /\ res'[w] # "true"
    BY <1>2, <1>8, <1>15, <1>16
  <2> HIDE DEF m
  <2> QED  BY <1>11, <1>14, <1>15, <2>1 DEF InitTx, LongTx, AllocTx, ShortTx, CheckTx
<1>19. /\ res'[w] \in Results(op[w]) /\ op[w] \in RunOps /\ op[w] # "decrease" /\ res'[w] # "true"
       /\ view'[w] = view[w] /\ known'[w] = known[w] /\ used'[w] \in SUBSET Addresses
  BY <1>2, <1>8, <1>15, <1>16 DEF Results, RunOps, TxType
<1> QED  BY <1>2, <1>13, <1>14, <1>17, <1>18, <1>19, BodyStep DEF TxType, RunType

LEMMA TransferKeeps ==
  ASSUME BankInvariant, NEW w \in Workers, Transfer(w)
  PROVE  BankInvariant'
<1> DEFINE m == snap[w]
           send == loc[w].send
           recv == loc[w].recv
           v == IF Balance(m, send) > 0 THEN Paid(Paid(m, send, -1), recv, 1) ELSE m
<1>1. In(w, "short") /\ Null \notin {send, recv}
  BY DEF Transfer
<1>2. /\ op[w] = "short" /\ mode[w] # "none" /\ res[w] = "none"
      /\ Functions /\ TxInv(w) /\ TxType(w) /\ RunType(w)
      /\ view[w] = m /\ m \in Memories /\ Sound(m)
      /\ \A p \in {send, recv} \ {Null} : IsPlace(m, p)
  BY <1>1, ShortStarted
<1>3. IsPlace(m, send) /\ IsPlace(m, recv)
  BY <1>1, <1>2
<1>4. Put(w, {send[1], recv[1]}, v) /\ Return(w, "true") /\ UNCHANGED <<runVars, req, loc>>
  <2>1. view' = [view EXCEPT ![w] = v]
    BY <1>2 DEF Transfer, Functions
  <2> QED  BY <2>1 DEF Transfer, Put
<1>5. v \in Memories /\ Sound(v)
  <2>1. CASE Balance(m, send) > 0
    <3> HIDE DEF m, send, recv
    <3> QED  BY <1>2, <1>3, <2>1, SoundPaid
  <2>2. CASE ~(Balance(m, send) > 0)
    BY <1>2, <2>2
  <2> QED  BY <2>1, <2>2
<1>6. Transferred(m, v, send, recv)
  BY <1>3 DEF Transferred
<1> HIDE DEF v
<1>7. /\ BodyOf(w) /\ view'[w] = v /\ used'[w] = used[w] \cup {send[1], recv[1]} /\ res'[w] = "true"
      /\ known'[w] = known[w] /\ req'[w] = req[w] /\ loc'[w] = loc[w]
  BY <1>2, <1>4, Putting
<1>8. mode'[w] = mode[w] /\ op'[w] = op[w] /\ snap'[w] = snap[w]
  BY <1>7 DEF BodyOf
<1>9. InitTx(w)' /\ LongTx(w)' /\ AllocTx(w)' /\ ShortTx(w)' /\ CheckTx(w)'
  BY <1>2, <1>6, <1>7, <1>8 DEF InitTx, LongTx, AllocTx, ShortTx, CheckTx
<1>10. Within(v, Counts)
  BY <1>5, ShapedWithin DEF Sound
<1>11. used'[w] \in SUBSET Addresses
  BY <1>2, <1>3, <1>7 DEF TxType, IsPlace, Allocated
<1>12. "true" \in Results(op[w]) /\ op[w] \in RunOps /\ op[w] \in ReadWrite /\ op[w] # "decrease"
  BY <1>2 DEF Results, RunOps, ReadWrite
<1> QED  BY <1>2, <1>5, <1>7, <1>9, <1>10, <1>11, <1>12, BodyStep DEF TxType, RunType

-----------------------------------------------------------------------------
(* The phases *)

LEMMA WorkerStep ==
  ASSUME BankInvariant, NEW w \in Workers, StepOf(w), Checking => Checking',
         mem' \in Memories, Within(mem', Counts'), TxType(w)', RunType(w)',
         op'[w] # "error", res'[w] = "false" => op'[w] = "short",
         PhaseInv', MemInv', TxInv(w)', \A u \in Workers \ {w} : CheckTx(u)'
  PROVE  BankInvariant'
<1>1. TypeOK'
  BY TypeStep DEF BankInvariant
<1>2. \A u \in Workers \ {w} : SameTx(u) /\ SameRun(u)
  BY Types, Others DEF BankInvariant
<1>3. NoFalseAlarm'
  BY <1>2 DEF BankInvariant, NoFalseAlarm, SameTx, SameRun
<1>4. \A u \in Workers \ {w} : TxInv(u)'
  BY <1>2, TxKept DEF BankInvariant
<1> QED  BY <1>1, <1>3, <1>4 DEF BankInvariant

(* Between init and check: init has left what run finds, and nobody counts. *)
LEMMA RunFacts ==
  ASSUME BankInvariant, NEW w \in Workers,
         op[w] \in RunOps \cup {"again"} \/ (op[w] = "idle" /\ Running)
  PROVE  ~Opening /\ ~Checking /\ Initialized /\ Sound(mem)
<1>1. ~Opening
  BY DEF BankInvariant, PhaseInv, RunOps, OpenOps, Running, Opening
<1>2. ~Checking
  <2>1. op[w] \in {"long", "last", "alloc", "short", "again", "idle"}
    BY DEF RunOps
  <2>2. ~CounterSet /\ ~CountDown /\ ~CountedDown
    BY <2>1 DEF CounterSet, CountDown, CountedDown
  <2> QED  BY <2>2 DEF BankInvariant, PhaseInv
<1>3. Initialized
  BY DEF Initialized, RunOps
<1> QED  BY <1>1, <1>2, <1>3 DEF BankInvariant, MemInv

(* Out of check nobody knows the counter. *)
LEMMA NoCount ==
  ASSUME NEW u \in Workers, op'[u] \notin CheckOps
  PROVE  CheckTx(u)'
  BY DEF CheckTx, CheckOps

LEMMA RunStep ==
  ASSUME BankInvariant, NEW w \in Workers, StepOf(w),
         op[w] \in RunOps \cup {"again"} \/ (op[w] = "idle" /\ Running),
         op'[w] \in RunOps \cup {"idle", "again", "done", "threw", "terminated"},
         op'[w] \in {"long", "alloc", "short", "again"} => todo'[w] > 0,
         mem' \in Memories, Sound(mem'), TxType(w)', RunType(w)',
         res'[w] = "false" => op'[w] = "short", TxInv(w)'
  PROVE  BankInvariant'
<1>1. ~Opening /\ ~Checking
  BY RunFacts
<1>2. \A u \in Workers \ {w} : SameTx(u) /\ SameRun(u)
  BY Types, Others DEF BankInvariant
<1>3. op'[w] \notin CheckOps \cup OpenOps \cup {"error"}
  BY DEF RunOps, CheckOps, OpenOps
<1>4. ~Opening' /\ ~Checking'
  BY <1>1, <1>2, <1>3 DEF Opening, Checking, SameRun
<1>5. PhaseInv'
  <2>1. \A u \in Workers : /\ op'[u] \in {"long", "alloc", "short", "again", "fetch", "decrease"} => todo'[u] > 0
                           /\ op'[u] = "sync3" => todo'[u] = 0
    BY <1>2, <1>3 DEF BankInvariant, PhaseInv, SameRun, CheckOps
  <2> QED  BY <1>4, <2>1 DEF PhaseInv
<1>6. MemInv'
  BY <1>4 DEF MemInv, Sound, Shaped
<1>7. \A u \in Workers : CheckTx(u)'
  BY <1>4, NoCount DEF Checking
<1>8. Within(mem', Counts')
  BY Sorts DEF Within, Sound, Shaped, Allocated, Counts
<1> QED  BY <1>1, <1>3, <1>5, <1>6, <1>7, <1>8, WorkerStep

LEMMA OpenFacts ==
  ASSUME BankInvariant, NEW w \in Workers, op[w] \in {"init", "init_check"}
  PROVE  /\ Opening /\ ~Checking /\ mem \in {Created, Opened}
         /\ op[w] = "init_check" => mem = Opened
<1>1. Opening
  BY DEF Opening, OpenOps
<1>2. ~Checking
  BY DEF BankInvariant, PhaseInv, CounterSet, CountDown, CountedDown
<1>3. op[w] = "init_check" => Initialized
  BY DEF Initialized
<1> QED  BY <1>1, <1>2, <1>3 DEF BankInvariant, MemInv

LEMMA OpenStep ==
  ASSUME BankInvariant, NEW w \in Workers, StepOf(w),
         op[w] \in {"init", "init_check"}, op'[w] \in {"init_check", "idle", "init_threw"},
         mem' \in {mem, Opened}, op'[w] \in {"init_check", "idle"} => mem' = Opened,
         TxType(w)', RunType(w)', res'[w] # "false", TxInv(w)'
  PROVE  BankInvariant'
<1>1. Opening /\ ~Checking /\ mem \in {Created, Opened}
  BY OpenFacts
<1>2. \A u \in Workers \ {w} : SameTx(u) /\ SameRun(u)
  BY Types, Others DEF BankInvariant
<1>3. \A u \in Workers : op[u] \in OpenOps \cup {"idle"}
  BY <1>1 DEF BankInvariant, PhaseInv
<1>4. \A u \in Workers : op'[u] \in OpenOps \cup {"idle"}
  BY <1>2, <1>3 DEF SameRun, OpenOps
<1>5. ~Checking'
  BY <1>4 DEF Checking, CheckOps, OpenOps
<1>6. PhaseInv'
  BY <1>4, <1>5 DEF PhaseInv, OpenOps
<1>7. Initialized' => mem' = Opened
  <2>1. CASE op'[w] \in {"init_check", "idle"}
    BY <2>1
  <2>2. CASE op'[w] = "init_threw"
    <3>1. Initialized' => Initialized
      BY <1>2, <2>2 DEF Initialized, SameRun
    <3>2. Initialized => mem = Opened
      BY <1>1 DEF BankInvariant, MemInv
    <3> QED  BY <3>1, <3>2
  <2> QED  BY <2>1, <2>2
<1>8. mem' \in Memories /\ Listed(mem')
  BY <1>1, OpenedSound
<1>9. MemInv'
  BY <1>1, <1>7, <1>8, OpenedSound DEF MemInv
<1>10. \A u \in Workers : CheckTx(u)'
  BY <1>5, NoCount DEF Checking
<1>11. Within(mem', Counts')
  <2>1. CASE mem' = Opened
    <3>1. Shaped(Opened)
      BY OpenedSound DEF Sound
    <3> QED  BY <2>1, <3>1, Sorts DEF Within, Shaped, Allocated, Counts
  <2>2. CASE mem' = mem
    <3>1. Within(mem, Counts)
      BY Types DEF BankInvariant
    <3>2. Counts \subseteq Counts'
      BY <1>1, CountsKept
    <3> QED  BY <2>2, <3>1, <3>2 DEF Within
  <2> QED  BY <2>1, <2>2
<1>12. op'[w] # "error"
  OBVIOUS
<1> QED  BY <1>1, <1>6, <1>8, <1>9, <1>10, <1>11, <1>12, WorkerStep

LEMMA CheckStep ==
  ASSUME BankInvariant, NEW w \in Workers, StepOf(w),
         op[w] \in CheckOps, op'[w] \in CheckOps,
         (CounterSet \/ CountDown \/ CountedDown)',
         op'[w] \in {"fetch", "decrease"} => todo'[w] > 0, op'[w] = "sync3" => todo'[w] = 0,
         mem' \in Memories, Listed(mem'), Within(mem', Counts),
         TxType(w)', RunType(w)', res'[w] # "false", TxInv(w)',
         \A u \in Workers \ {w} : CheckTx(u)'
  PROVE  BankInvariant'
<1>1. Checking /\ Checking'
  BY DEF Checking
<1>2. \A u \in Workers \ {w} : SameTx(u) /\ SameRun(u)
  BY Types, Others DEF BankInvariant
<1>3. ~Opening'
  <2>1. \A u \in Workers : op'[u] \in CheckOps
    BY DEF CounterSet, CountDown, CountedDown, CheckOps
  <2> QED  BY <2>1 DEF Opening, OpenOps, CheckOps
<1>4. PhaseInv'
  <2>1. \A u \in Workers : /\ op'[u] \in {"long", "alloc", "short", "again", "fetch", "decrease"} => todo'[u] > 0
                           /\ op'[u] = "sync3" => todo'[u] = 0
    BY <1>2 DEF BankInvariant, PhaseInv, SameRun, CheckOps
  <2> QED  BY <1>3, <2>1 DEF PhaseInv
<1>5. MemInv'
  BY <1>1, <1>3 DEF MemInv
<1>6. Within(mem', Counts')
  <2>1. Counts \subseteq Counts'
    BY <1>1, CountsKept
  <2> QED  BY <2>1 DEF Within
<1>7. op'[w] # "error"
  BY DEF CheckOps
<1> QED  BY <1>1, <1>4, <1>5, <1>6, <1>7, WorkerStep

-----------------------------------------------------------------------------
(* Steps outside the bodies *)

(* What a worker is without a transaction. *)
LEMMA NoTx ==
  ASSUME NEW w, mode[w] = "none", Outside(w)
  PROVE  TxInv(w)
  BY DEF TxInv, Outside, Inside, Snapshot, InitTx, LongTx, AllocTx, ShortTx, CheckTx

LEMMA NoTxNext ==
  ASSUME NEW w, mode'[w] = "none", Outside(w)'
  PROVE  TxInv(w)'
  BY DEF TxInv, Outside, Inside, Snapshot, InitTx, LongTx, AllocTx, ShortTx, CheckTx

LEMMA OutsideInTx ==
  ASSUME BankInvariant, NEW w \in Workers
  PROVE  /\ op[w] \notin InTx => mode[w] = "none"
         /\ mode[w] = "none" => Outside(w) /\ res[w] = "none"
  BY DEF BankInvariant, TxInv, Outside, Inside

LEMMA PickKeeps ==
  ASSUME BankInvariant, NEW w \in Workers, NEW o \in RunOps, NEW r \in Requests, Pick(w, o, r),
         op[w] = "again" \/ (op[w] = "idle" /\ Running),
         o \in {"long", "alloc", "short"} => todo[w] > 0
  PROVE  BankInvariant'
<1>1. Functions /\ mem \in Memories /\ TxType(w) /\ RunType(w)
  BY Types DEF BankInvariant
<1>2. /\ op' = [op EXCEPT ![w] = o] /\ req' = [req EXCEPT ![w] = r]
      /\ mem' = mem /\ mode' = mode /\ snap' = snap /\ view' = view /\ used' = used
      /\ todo' = todo /\ known' = known /\ loc' = loc /\ res' = res
  BY DEF Pick, memVars
<1>3. op'[w] = o /\ req'[w] = r
  BY <1>1, <1>2 DEF Functions
<1>4. StepOf(w)
  BY <1>1, <1>2, <1>3 DEF StepOf, Functions
<1>5. mode[w] = "none" /\ Outside(w) /\ res[w] = "none"
  BY OutsideInTx DEF InTx
<1>6. Sound(mem) /\ Counts \subseteq Counts'
  <2>1. ~Checking /\ Sound(mem)
    BY RunFacts
  <2> QED  BY <2>1, CountsKept
<1>7. RunType(w)'
  BY <1>1, <1>2, <1>3 DEF RunType, Ops, RunOps, InTx
<1>8. TxType(w)'
  <2>1. Within(snap[w], Counts') /\ Within(view[w], Counts')
    BY <1>1, <1>6, WithinMore DEF TxType
  <2> QED  BY <1>1, <1>2, <1>3, <2>1 DEF TxType
<1>9. TxInv(w)'
  <2>1. mode'[w] = "none" /\ Outside(w)'
    BY <1>2, <1>5 DEF Outside
  <2> QED  BY <2>1, NoTxNext
<1>10. todo'[w] > 0 \/ o = "last"
  BY <1>2 DEF RunOps
<1> QED  BY <1>1, <1>2, <1>3, <1>4, <1>5, <1>6, <1>7, <1>8, <1>9, <1>10, RunStep

LEMMA ChooseKeeps ==
  ASSUME BankInvariant, NEW w \in Workers, Choose(w)
  PROVE  BankInvariant'
<1>1. NoReq \in Requests
  BY DEF NoReq, Requests
<1>2. todo[w] \in Nat /\ (op[w] = "again" => todo[w] > 0)
  BY Types DEF BankInvariant, PhaseInv, RunType
<1>3. CASE PickLong(w)
  <2>1. "long" \in RunOps
    BY DEF RunOps
  <2> QED  BY <1>1, <1>3, <2>1, PickKeeps DEF PickLong
<1>4. CASE PickLast(w)
  <2>1. "last" \in RunOps /\ "last" \notin {"long", "alloc", "short"}
    BY DEF RunOps
  <2> QED  BY <1>1, <1>4, <2>1, PickKeeps DEF PickLast
<1>5. ASSUME NEW t \in Triggers, PickAlloc(w, t)
      PROVE  BankInvariant'
  <2>1. [NoReq EXCEPT !.trigger = t] \in Requests
    BY BankAssumption DEF NoReq, Requests
  <2>2. "alloc" \in RunOps
    BY DEF RunOps
  <2> QED  BY <1>5, <2>1, <2>2, PickKeeps DEF PickAlloc
<1>6. ASSUME NEW s \in 0 .. NbAccounts * (Cardinality(Segs) + 1), NEW r \in 0 .. NbAccounts * (Cardinality(Segs) + 1),
             PickShort(w, s, r)
      PROVE  BankInvariant'
  <2>1. s \in Nat /\ r \in Nat
    BY Sorts
  <2>2. [NoReq EXCEPT !.send = s, !.recv = r] \in Requests
    BY <2>1 DEF NoReq, Requests
  <2>3. "short" \in RunOps
    BY DEF RunOps
  <2>4. todo[w] > 0 /\ (op[w] = "again" \/ (op[w] = "idle" /\ Running))
    BY <1>2, <1>6 DEF PickShort
  <2> QED  BY <1>6, <2>2, <2>3, <2>4, PickKeeps DEF PickShort
<1> QED  BY <1>3, <1>4, <1>5, <1>6 DEF Choose

LEMMA NewLocType == NewLoc \in Locals /\ M!NoView \in Memories
  BY Sorts DEF NewLoc, Locals, Found, M!NoView, M!Words, Memories, Addresses

LEMMA TxBeginKeeps ==
  ASSUME BankInvariant, NEW w \in Workers, TxBegin(w)
  PROVE  BankInvariant'
<1> DEFINE m == IF op[w] \in ReadWrite THEN "rw" ELSE "ro"
<1>1. /\ Functions /\ mem \in Memories /\ Within(mem, Counts) /\ TxType(w) /\ RunType(w)
      /\ Listed(mem) /\ First \in Allocated(mem)
  <2>1. /\ Functions /\ mem \in Memories /\ Within(mem, Counts) /\ TxType(w) /\ RunType(w) /\ Listed(mem)
    BY Types DEF BankInvariant, MemInv
  <2> QED  BY <2>1, Lists
<1>2. op[w] \in InTx /\ mode[w] = "none" /\ res[w] = "none"
  BY OutsideInTx DEF TxBegin, M!Begin
<1>3. /\ mem' = mem /\ op' = op /\ todo' = todo /\ known' = known /\ req' = req /\ res' = res
      /\ used' = [used EXCEPT ![w] = {}] /\ mode' = [mode EXCEPT ![w] = m]
      /\ snap' = [snap EXCEPT ![w] = mem] /\ view' = [view EXCEPT ![w] = mem]
      /\ loc' = [loc EXCEPT ![w] = NewLoc]
  BY DEF TxBegin, M!Begin, runVars
<1>4. used'[w] = {} /\ mode'[w] = m /\ snap'[w] = mem /\ view'[w] = mem /\ loc'[w] = NewLoc /\ m \in {"ro", "rw"}
  BY <1>1, <1>3 DEF Functions
<1>5. StepOf(w)
  BY <1>1, <1>3, <1>4 DEF StepOf, Functions
<1>6. Checking' = Checking /\ Counts' = Counts
  BY <1>3 DEF Checking, Counts
<1>7. TxType(w)' /\ RunType(w)'
  BY <1>1, <1>3, <1>4, <1>6, NewLocType DEF TxType, RunType
<1>8. \A u \in Workers \ {w} : SameTx(u) /\ SameRun(u)
  BY <1>1, <1>5, Others
<1>9. \A u \in Workers \ {w} : CheckTx(u)'
  BY <1>3, <1>8 DEF BankInvariant, TxInv, SameTx, SameRun, CheckTx
<1>10. PhaseInv' /\ MemInv'
  <2>1. PhaseInv'
    BY <1>3, <1>6 DEF BankInvariant, PhaseInv, Opening, CounterSet, CountDown, CountedDown
  <2>2. MemInv'
    BY <1>3, <1>6 DEF BankInvariant, MemInv, Opening, Initialized
  <2> QED  BY <2>1, <2>2
<1>11. TxInv(w)'
  <2>1. op[w] \in RunOps => Sound(mem)
    BY RunFacts
  <2>2. op[w] = "init" => mem \in {Created, Opened}
    BY OpenFacts
  <2>3. op[w] = "init_check" => mem = Opened
    BY OpenFacts
  <2>4. Walk(mem, {}, NewLoc) /\ Money(mem, {}) = 0
    BY <1>1, WalkStart, MoneyNone
  <2>5. op[w] = "decrease" => mem[First].count <= known[w]
    BY Phases DEF CountDown
  <2>6. mem[First].count <= mem[First].count
    BY <1>1, Contents
  <2>7. NewLoc.at = First /\ NewLoc.prev = Null /\ NewLoc.sum = 0 /\ NewLoc.send = Null /\ NewLoc.recv = Null
    BY DEF NewLoc
  <2>8. Outside(w)' /\ Inside(w)' /\ Snapshot(w)'
    BY <1>1, <1>2, <1>3, <1>4, <2>1 DEF Outside, Inside, Snapshot, Results
  <2>9. InitTx(w)' /\ LongTx(w)' /\ AllocTx(w)'
    BY <1>2, <1>3, <1>4, <2>2, <2>3, <2>4, <2>7 DEF InitTx, LongTx, AllocTx
  <2>10. ShortTx(w)' /\ CheckTx(w)'
    BY <1>1, <1>2, <1>3, <1>4, <2>5, <2>6, <2>7 DEF ShortTx, CheckTx
  <2> QED  BY <2>8, <2>9, <2>10 DEF TxInv
<1>12. op'[w] # "error" /\ res'[w] # "false"
  BY <1>2, <1>3 DEF InTx
<1>13. mem' \in Memories /\ Within(mem', Counts')
  BY <1>1, <1>3, <1>6
<1> QED  BY <1>5, <1>6, <1>7, <1>9, <1>10, <1>11, <1>12, <1>13, WorkerStep

(* An exception in check: the others may wait for ever, the counter stays. *)
LEMMA CheckThrew ==
  ASSUME BankInvariant, NEW w \in Workers, op[w] \in InTx \cap CheckOps, StepOf(w),
         op'[w] = "check_threw", mem' = mem, todo' = todo, known' = known
  PROVE  (CounterSet \/ CountDown \/ CountedDown)'
<1>1. \A u \in Workers \ {w} : op'[u] = op[u]
  BY Types, Others DEF BankInvariant, SameRun
<1>2. CASE CounterSet
  <2>1. w = Uid0
    BY <1>2 DEF CounterSet, InTx
  <2> QED  BY <1>1, <1>2, <2>1 DEF CounterSet
<1>3. CASE CountDown
  BY <1>1, <1>3 DEF CountDown
<1>4. CASE CountedDown
  <2>1. w = Uid0
    BY <1>4 DEF CountedDown, InTx
  <2> QED  BY <1>1, <1>4, <2>1 DEF CountedDown
<1>5. CounterSet \/ CountDown \/ CountedDown
  BY Phases DEF BankInvariant, PhaseInv
<1> QED  BY <1>2, <1>3, <1>4, <1>5

LEMMA TxBeginFailsKeeps ==
  ASSUME BankInvariant, NEW w \in Workers, TxBeginFails(w)
  PROVE  BankInvariant'
<1> DEFINE o == CASE op[w] \in {"init", "init_check"} -> "init_threw"
                  [] op[w] \in CheckOps -> "check_threw"
                  [] OTHER -> "threw"
<1>1. /\ Functions /\ mem \in Memories /\ Within(mem, Counts) /\ TxType(w) /\ RunType(w) /\ Listed(mem)
  BY Types DEF BankInvariant, MemInv
<1>2. op[w] \in InTx /\ mode[w] = "none" /\ Outside(w) /\ res[w] = "none"
  BY OutsideInTx DEF TxBeginFails
<1>3. /\ op' = [op EXCEPT ![w] = o]
      /\ mem' = mem /\ mode' = mode /\ snap' = snap /\ view' = view /\ used' = used
      /\ todo' = todo /\ known' = known /\ req' = req /\ loc' = loc /\ res' = res
  BY <1>1 DEF TxBeginFails, memVars, Functions
<1>4. op'[w] = o
  BY <1>1, <1>3 DEF Functions
<1>5. StepOf(w)
  BY <1>1, <1>3, <1>4 DEF StepOf, Functions
<1>6. /\ op[w] \in {"init", "init_check"} => o = "init_threw"
      /\ op[w] \in CheckOps => o = "check_threw"
      /\ op[w] \in RunOps => o = "threw"
      /\ op[w] \in {"init", "init_check"} \/ op[w] \in InTx \cap CheckOps \/ op[w] \in RunOps
  BY <1>2 DEF CheckOps, RunOps, InTx
<1> HIDE DEF o
<1>7. o \in {"init_threw", "check_threw", "threw"}
  BY <1>6
<1>8. RunType(w)'
  BY <1>1, <1>3, <1>4, <1>7 DEF RunType, Ops, Stopped, Threw
<1>9. Checking => Checking'
  <2>1. Checking => op'[w] \in CheckOps \/ \E u \in Workers \ {w} : op[u] \in CheckOps
    BY <1>4, <1>6 DEF Checking, CheckOps
  <2>2. \A u \in Workers \ {w} : op'[u] = op[u]
    BY <1>1, <1>5, Others DEF SameRun
  <2> QED  BY <2>1, <2>2 DEF Checking
<1>10. TxType(w)'
  <2>1. Within(snap[w], Counts') /\ Within(view[w], Counts')
    BY <1>1, <1>9, CountsKept, WithinMore DEF TxType
  <2> QED  BY <1>1, <1>3, <2>1 DEF TxType
<1>11. TxInv(w)'
  <2>1. mode'[w] = "none" /\ Outside(w)'
    BY <1>2, <1>3 DEF Outside
  <2> QED  BY <2>1, NoTxNext
<1>12. res'[w] = "none"
  BY <1>2, <1>3
<1>13. CASE op[w] \in {"init", "init_check"}
  <2>1. op'[w] = "init_threw"
    BY <1>4, <1>6, <1>13
  <2>2. mem' \in {mem, Opened}
    BY <1>3
  <2> QED  BY <1>5, <1>8, <1>10, <1>11, <1>12, <1>13, <2>1, <2>2, OpenStep
<1>14. CASE op[w] \in RunOps
  <2>1. op'[w] = "threw"
    BY <1>4, <1>6, <1>14
  <2>2. mem' \in Memories /\ Sound(mem')
    BY <1>1, <1>3, <1>14, RunFacts
  <2> QED  BY <1>5, <1>8, <1>10, <1>11, <1>12, <1>14, <2>1, <2>2, RunStep
<1>15. CASE op[w] \in InTx \cap CheckOps
  <2>1. op'[w] = "check_threw" /\ op[w] \in CheckOps /\ op'[w] \in CheckOps
    BY <1>4, <1>6, <1>15 DEF CheckOps
  <2>2. (CounterSet \/ CountDown \/ CountedDown)'
    BY <1>3, <1>5, <1>15, <2>1, CheckThrew
  <2>3. \A u \in Workers \ {w} : CheckTx(u)'
    <3>1. \A u \in Workers \ {w} : SameTx(u) /\ SameRun(u)
      BY <1>1, <1>5, Others
    <3> QED  BY <1>3, <3>1 DEF BankInvariant, TxInv, SameTx, SameRun, CheckTx
  <2>4. mem' \in Memories /\ Listed(mem') /\ Within(mem', Counts)
    BY <1>1, <1>3
  <2> QED  BY <1>5, <1>8, <1>10, <1>11, <1>12, <2>1, <2>2, <2>3, <2>4, CheckStep
<1> QED  BY <1>6, <1>13, <1>14, <1>15

(* A worker leaves its transaction. *)
LEMMA Left ==
  ASSUME Functions, NEW w \in Workers, M!Leave(w), loc' = [loc EXCEPT ![w] = NewLoc],
         res' = [res EXCEPT ![w] = "none"]
  PROVE  /\ mode' = [mode EXCEPT ![w] = "none"] /\ snap' = [snap EXCEPT ![w] = M!NoView]
         /\ view' = [view EXCEPT ![w] = M!NoView] /\ used' = [used EXCEPT ![w] = {}]
         /\ mode'[w] = "none" /\ snap'[w] = M!NoView /\ view'[w] = M!NoView /\ used'[w] = {}
         /\ loc'[w] = NewLoc /\ res'[w] = "none"
         /\ TxInv(w)'
<1>1. /\ mode' = [mode EXCEPT ![w] = "none"] /\ snap' = [snap EXCEPT ![w] = M!NoView]
      /\ view' = [view EXCEPT ![w] = M!NoView] /\ used' = [used EXCEPT ![w] = {}]
  BY DEF M!Leave
<1>2. /\ mode'[w] = "none" /\ snap'[w] = M!NoView /\ view'[w] = M!NoView /\ used'[w] = {}
      /\ loc'[w] = NewLoc /\ res'[w] = "none"
  BY <1>1 DEF Functions
<1>3. Outside(w)'
  BY <1>2 DEF Outside
<1> QED  BY <1>1, <1>2, <1>3, NoTxNext

LEMMA LeftType ==
  ASSUME NEW w, mode'[w] = "none", snap'[w] = M!NoView, view'[w] = M!NoView, used'[w] = {},
         loc'[w] = NewLoc, res'[w] = "none", req'[w] \in Requests
  PROVE  TxType(w)'
<1>1. M!NoView \in Memories /\ NewLoc \in Locals
  BY NewLocType
<1>2. \A s \in Addresses : M!NoView[s] = Null
  BY DEF M!NoView, M!Words, Addresses
<1>3. Within(M!NoView, Counts')
  BY <1>2 DEF Within
<1> QED  BY <1>1, <1>3 DEF TxType, Answers

LEMMA TxRetryKeeps ==
  ASSUME BankInvariant, NEW w \in Workers, TxRetry(w)
  PROVE  BankInvariant'
<1> DEFINE o == IF res[w] = "nomem" THEN "terminated" ELSE op[w]
<1>1. /\ Functions /\ mem \in Memories /\ Within(mem, Counts) /\ TxType(w) /\ RunType(w) /\ Listed(mem) /\ TxInv(w)
  BY Types DEF BankInvariant, MemInv
<1>2. /\ M!Leave(w) /\ loc' = [loc EXCEPT ![w] = NewLoc] /\ res' = [res EXCEPT ![w] = "none"]
      /\ op' = [op EXCEPT ![w] = o] /\ mode[w] # "none"
      /\ mem' = mem /\ todo' = todo /\ known' = known /\ req' = req
  BY <1>1 DEF TxRetry, M!Abort, Functions
<1>3. /\ mode' = [mode EXCEPT ![w] = "none"] /\ snap' = [snap EXCEPT ![w] = M!NoView]
      /\ view' = [view EXCEPT ![w] = M!NoView] /\ used' = [used EXCEPT ![w] = {}]
      /\ mode'[w] = "none" /\ snap'[w] = M!NoView /\ view'[w] = M!NoView /\ used'[w] = {}
      /\ loc'[w] = NewLoc /\ res'[w] = "none"
      /\ TxInv(w)'
  BY <1>1, <1>2, Left
<1>4. op'[w] = o
  BY <1>1, <1>2 DEF Functions
<1>5. StepOf(w)
  BY <1>1, <1>2, <1>3, <1>4 DEF StepOf, Functions
<1>6. TxType(w)'
  <2>1. req'[w] \in Requests
    BY <1>1, <1>2 DEF TxType
  <2> QED  BY <1>3, <2>1, LeftType
<1>7. RunType(w)'
  BY <1>1, <1>2, <1>4 DEF RunType, Ops
<1>8. CASE res[w] = "nomem"
  <2>1. op[w] = "alloc"
    BY <1>1, <1>2, <1>8 DEF TxInv, Inside, Results
  <2>2. op[w] \in RunOps /\ op'[w] = "terminated"
    BY <1>4, <1>8, <2>1 DEF RunOps
  <2>3. mem' \in Memories /\ Sound(mem')
    BY <1>1, <1>2, <2>2, RunFacts
  <2> QED  BY <1>3, <1>5, <1>6, <1>7, <2>2, <2>3, RunStep
<1>9. CASE res[w] # "nomem"
  <2>1. op' = op
    BY <1>1, <1>2, <1>9 DEF Functions
  <2>2. Checking' = Checking /\ Counts' = Counts
    BY <2>1 DEF Checking, Counts
  <2>3. \A u \in Workers \ {w} : CheckTx(u)'
    <3>1. \A u \in Workers \ {w} : SameTx(u) /\ SameRun(u)
      BY <1>1, <1>5, Others
    <3> QED  BY <1>2, <3>1 DEF BankInvariant, TxInv, SameTx, SameRun, CheckTx
  <2>4. PhaseInv'
    BY <1>2, <2>1, <2>2 DEF BankInvariant, PhaseInv, Opening, CounterSet, CountDown, CountedDown
  <2>5. MemInv'
    BY <1>2, <2>1, <2>2 DEF BankInvariant, MemInv, Opening, Initialized
  <2>6. op'[w] # "error" /\ res'[w] # "false" /\ mem' \in Memories /\ Within(mem', Counts')
    BY <1>1, <1>2, <1>3, <2>1, <2>2 DEF BankInvariant, NoFalseAlarm
  <2> QED  BY <1>3, <1>5, <1>6, <1>7, <2>2, <2>3, <2>4, <2>5, <2>6, WorkerStep
<1> QED  BY <1>8, <1>9

-----------------------------------------------------------------------------
(* The end of a transaction *)

LEMMA Ending ==
  ASSUME BankInvariant, NEW w \in Workers, TxEnd(w)
  PROVE  /\ mode[w] # "none" /\ res[w] \in Results(op[w]) \ {"none"} /\ op[w] \in InTx
         /\ StepOf(w) /\ TxType(w)' /\ TxInv(w)' /\ res'[w] = "none" /\ known' = known
         /\ op'[w] = After(w) /\ todo'[w] = (IF Turn(w) THEN todo[w] - 1 ELSE todo[w])
         /\ mem' \in Memories
         /\ op[w] \notin ReadWrite => mem' = mem
         /\ op[w] \in ReadWrite => /\ \A s \in used[w] : snap[w][s] = mem[s]
                                   /\ mem' = Merge(mem, used[w], view[w])
         /\ ~(res[w] = "true" /\ op[w] \in ReadWrite) => mem' = mem
<1> DEFINE t == IF Turn(w) THEN todo[w] - 1 ELSE todo[w]
           a == After(w)
<1>1. /\ Functions /\ mem \in Memories /\ TxType(w) /\ TxInv(w)
  BY Types DEF BankInvariant
<1>2. /\ M!Leave(w) /\ loc' = [loc EXCEPT ![w] = NewLoc] /\ res' = [res EXCEPT ![w] = "none"]
      /\ op' = [op EXCEPT ![w] = a] /\ todo' = [todo EXCEPT ![w] = t] /\ req' = [req EXCEPT ![w] = NoReq]
      /\ known' = known /\ res[w] # "none"
      /\ \/ mode[w] = "ro" /\ mem' = mem
         \/ mode[w] = "rw" /\ M!Current(w) /\ mem' = M!Merged(w)
  BY <1>1 DEF TxEnd, M!Commit, Functions
<1> HIDE DEF t, a
<1>3. /\ mode' = [mode EXCEPT ![w] = "none"] /\ snap' = [snap EXCEPT ![w] = M!NoView]
      /\ view' = [view EXCEPT ![w] = M!NoView] /\ used' = [used EXCEPT ![w] = {}]
      /\ mode'[w] = "none" /\ snap'[w] = M!NoView /\ view'[w] = M!NoView /\ used'[w] = {}
      /\ loc'[w] = NewLoc /\ res'[w] = "none"
      /\ TxInv(w)'
  BY <1>1, <1>2, Left
<1>4. op'[w] = a /\ todo'[w] = t /\ req'[w] = NoReq
  BY <1>1, <1>2 DEF Functions
<1>5. StepOf(w)
  BY <1>1, <1>2, <1>3, <1>4 DEF StepOf, Functions
<1>6. TxType(w)'
  <2>1. req'[w] \in Requests
    BY <1>4 DEF NoReq, Requests
  <2> QED  BY <1>3, <2>1, LeftType
<1>7. /\ res[w] \in Results(op[w]) /\ op[w] \in InTx /\ mode[w] = IF op[w] \in ReadWrite THEN "rw" ELSE "ro"
      /\ ~(res[w] = "true" /\ op[w] \in ReadWrite) => view[w] = snap[w]
  BY <1>1, <1>2 DEF TxInv, Inside
<1>8. op[w] \notin ReadWrite => mem' = mem
  BY <1>2, <1>7
<1>9. op[w] \in ReadWrite => /\ \A s \in used[w] : snap[w][s] = mem[s]
                             /\ mem' = Merge(mem, used[w], view[w])
  BY <1>2, <1>7 DEF M!Current, M!Merged, M!Words, Merge, Addresses
<1>10. snap[w] \in Memories /\ view[w] \in Memories /\ used[w] \in SUBSET Addresses
  BY <1>1 DEF TxType
<1>11. ~(res[w] = "true" /\ op[w] \in ReadWrite) => mem' = mem
  <2>1. CASE op[w] \notin ReadWrite
    BY <1>8, <2>1
  <2>2. CASE op[w] \in ReadWrite /\ res[w] # "true"
    <3>1. view[w] = snap[w] /\ mem' = Merge(mem, used[w], snap[w]) /\ \A s \in used[w] : snap[w][s] = mem[s]
      BY <1>7, <1>9, <2>2
    <3> QED  BY <1>1, <1>10, <3>1, NoneMerged
  <2> QED  BY <2>1, <2>2
<1>12. mem' \in Memories
  BY <1>1, <1>8, <1>9, <1>10, MergeType
<1> QED  BY <1>2, <1>3, <1>4, <1>5, <1>6, <1>7, <1>8, <1>9, <1>11, <1>12 DEF t, a

LEMMA AfterInit ==
  ASSUME NEW w, op[w] \in {"init", "init_check"}, res[w] = "true"
  PROVE  /\ op[w] = "init" => After(w) = "init_check"
         /\ op[w] = "init_check" => After(w) = "idle"
         /\ ~Turn(w)
  BY DEF After, Turn

LEMMA AfterRun ==
  ASSUME NEW w, op[w] \in RunOps, res[w] \in Results(op[w]) \ {"none"}
  PROVE  /\ After(w) \in {"idle", "again", "done", "threw"}
         /\ After(w) = "again" => op[w] = "short" /\ ~Turn(w)
         /\ Turn(w) => op[w] \in {"long", "alloc", "short"}
  BY DEF After, Turn, RunOps, Results

LEMMA AfterCheck ==
  ASSUME NEW w, res[w] = "true"
  PROVE  /\ op[w] = "counter_init" => After(w) = "counter_check" /\ ~Turn(w)
         /\ op[w] = "counter_check" => After(w) = "sync2" /\ ~Turn(w)
         /\ op[w] = "fetch" => After(w) = "decrease" /\ ~Turn(w)
         /\ op[w] = "decrease" => After(w) = (IF todo[w] = 1 THEN "sync3" ELSE "fetch") /\ Turn(w)
         /\ op[w] = "zero" => After(w) = "over" /\ ~Turn(w)
  BY DEF After, Turn

LEMMA EndInit ==
  ASSUME BankInvariant, NEW w \in Workers, TxEnd(w), op[w] \in {"init", "init_check"}
  PROVE  BankInvariant'
<1>1. /\ mode[w] # "none" /\ res[w] \in Results(op[w]) \ {"none"}
      /\ StepOf(w) /\ TxType(w)' /\ TxInv(w)' /\ res'[w] = "none" /\ known' = known
      /\ op'[w] = After(w) /\ todo'[w] = (IF Turn(w) THEN todo[w] - 1 ELSE todo[w])
      /\ op[w] \notin ReadWrite => mem' = mem
      /\ op[w] \in ReadWrite => mem' = Merge(mem, used[w], view[w])
  BY Ending
<1>2. res[w] = "true"
  BY <1>1 DEF Results
<1>3. /\ TxInv(w) /\ RunType(w) /\ mem \in {Created, Opened}
      /\ op[w] = "init_check" => mem = Opened
  BY Types, OpenFacts DEF BankInvariant
<1>4. mem' = Opened
  <2>1. CASE op[w] = "init"
    <3>1. view[w] = Opened /\ used[w] = {First} /\ mem' = Merge(mem, used[w], view[w])
      BY <1>1, <1>2, <1>3, <2>1 DEF TxInv, InitTx, ReadWrite
    <3> QED  BY <1>3, <3>1, Sorts DEF Merge, Created, Opened, Only
  <2>2. CASE op[w] = "init_check"
    BY <1>1, <1>3, <2>2 DEF ReadWrite
  <2> QED  BY <2>1, <2>2
<1>5. op'[w] \in {"init_check", "idle"} /\ todo'[w] = todo[w]
  BY <1>1, <1>2, AfterInit
<1>6. RunType(w)'
  BY <1>1, <1>3, <1>5 DEF RunType, Ops, InTx
<1> QED  BY <1>1, <1>4, <1>5, <1>6, OpenStep

LEMMA EndRun ==
  ASSUME BankInvariant, NEW w \in Workers, TxEnd(w), op[w] \in RunOps
  PROVE  BankInvariant'
<1>1. /\ mode[w] # "none" /\ res[w] \in Results(op[w]) \ {"none"}
      /\ StepOf(w) /\ TxType(w)' /\ TxInv(w)' /\ res'[w] = "none" /\ known' = known
      /\ op'[w] = After(w) /\ todo'[w] = (IF Turn(w) THEN todo[w] - 1 ELSE todo[w])
      /\ mem' \in Memories
      /\ op[w] \in ReadWrite => /\ \A s \in used[w] : snap[w][s] = mem[s]
                                /\ mem' = Merge(mem, used[w], view[w])
      /\ ~(res[w] = "true" /\ op[w] \in ReadWrite) => mem' = mem
  BY Ending
<1>2. TxInv(w) /\ TxType(w) /\ RunType(w) /\ mem \in Memories /\ Sound(mem) /\ Sound(snap[w])
  BY <1>1, Types, RunFacts DEF BankInvariant, TxInv, Snapshot
<1>3. snap[w] \in Memories /\ view[w] \in Memories /\ used[w] \in SUBSET Addresses
  BY <1>2 DEF TxType
<1>4. Sound(mem')
  <2>1. CASE ~(res[w] = "true" /\ op[w] \in ReadWrite)
    BY <1>1, <1>2, <2>1
  <2>2. CASE res[w] = "true" /\ op[w] = "alloc"
    <3>1. /\ Sound(view[w]) /\ Allocated(snap[w]) \subseteq used[w]
          /\ \A s \in Addresses \ used[w] : view[w][s] = snap[w][s]
      BY <1>1, <1>2, <2>2 DEF TxInv, AllocTx
    <3>2. mem' = Merge(mem, used[w], view[w]) /\ \A s \in used[w] : snap[w][s] = mem[s]
      BY <1>1, <2>2 DEF ReadWrite
    <3>3. Listed(mem) /\ Listed(snap[w])
      BY <1>2 DEF Sound, Shaped
    <3>4. Merge(mem, used[w], view[w]) = view[w]
      BY <1>2, <1>3, <3>1, <3>2, <3>3, AllMerged
    <3> QED  BY <3>1, <3>2, <3>4
  <2>3. CASE res[w] = "true" /\ op[w] = "short"
    <3>1. Transferred(snap[w], view[w], loc[w].send, loc[w].recv) /\ loc[w].send[1] \in used[w] /\ loc[w].recv[1] \in used[w]
      BY <1>1, <1>2, <2>3 DEF TxInv, ShortTx
    <3>2. mem' = Merge(mem, used[w], view[w]) /\ \A s \in used[w] : snap[w][s] = mem[s]
      BY <1>1, <2>3 DEF ReadWrite
    <3> QED  BY <1>2, <1>3, <3>1, <3>2, TransferMerged
  <2> QED  BY <2>1, <2>2, <2>3 DEF RunOps, ReadWrite
<1>5. /\ After(w) \in {"idle", "again", "done", "threw"}
      /\ After(w) = "again" => op[w] = "short" /\ ~Turn(w)
      /\ Turn(w) => op[w] \in {"long", "alloc", "short"}
  BY <1>1, AfterRun
<1>6. todo[w] \in Nat /\ (op[w] \in {"long", "alloc", "short"} => todo[w] > 0)
  BY <1>2 DEF BankInvariant, PhaseInv, RunType
<1>7. todo'[w] \in Nat /\ (op'[w] = "again" => todo'[w] > 0)
  BY <1>1, <1>5, <1>6
<1>8. RunType(w)'
  BY <1>1, <1>2, <1>5, <1>7 DEF RunType, Ops, Stopped, Threw
<1> QED  BY <1>1, <1>4, <1>5, <1>7, <1>8, RunStep

(* What the commit of a transaction that writes the counter leaves. *)
LEMMA CounterMerged ==
  ASSUME NEW m \in Memories, NEW old \in Memories, old[First] = m[First], NEW n,
         NEW v, v = [old EXCEPT ![First].count = n]
  PROVE  Merge(m, {First}, v) = [m EXCEPT ![First].count = n]
  BY Sorts DEF Merge, Memories

LEMMA EndCheckFacts ==
  ASSUME BankInvariant, NEW w \in Workers, TxEnd(w), op[w] \in CheckOps
  PROVE  /\ res[w] = "true" /\ op[w] \in {"counter_init", "counter_check", "fetch", "decrease", "zero"}
         /\ StepOf(w) /\ TxType(w)' /\ TxInv(w)' /\ res'[w] = "none" /\ known' = known
         /\ op'[w] = After(w) /\ todo'[w] = (IF Turn(w) THEN todo[w] - 1 ELSE todo[w])
         /\ op[w] \notin {"counter_init", "decrease"} => mem' = mem
         /\ op[w] = "counter_init" => mem' = [mem EXCEPT ![First].count = InitCounter]
         /\ op[w] = "decrease" => mem' = [mem EXCEPT ![First].count = mem[First].count - 1]
<1>1. /\ mode[w] # "none" /\ res[w] \in Results(op[w]) \ {"none"} /\ op[w] \in InTx
      /\ StepOf(w) /\ TxType(w)' /\ TxInv(w)' /\ res'[w] = "none" /\ known' = known
      /\ op'[w] = After(w) /\ todo'[w] = (IF Turn(w) THEN todo[w] - 1 ELSE todo[w])
      /\ op[w] \notin ReadWrite => mem' = mem
      /\ op[w] \in ReadWrite => /\ \A s \in used[w] : snap[w][s] = mem[s]
                                /\ mem' = Merge(mem, used[w], view[w])
  BY Ending
<1>2. res[w] = "true" /\ op[w] \in {"counter_init", "counter_check", "fetch", "decrease", "zero"}
  BY <1>1 DEF Results, CheckOps, InTx
<1>3. TxInv(w) /\ TxType(w) /\ mem \in Memories /\ Listed(mem) /\ First \in Allocated(mem)
  <2>1. TxInv(w) /\ TxType(w) /\ mem \in Memories /\ Listed(mem)
    BY Types DEF BankInvariant, MemInv
  <2> QED  BY <2>1, Lists
<1>4. ASSUME op[w] \in {"counter_init", "decrease"}
      PROVE  /\ op[w] = "counter_init" => mem' = [mem EXCEPT ![First].count = InitCounter]
             /\ op[w] = "decrease" => mem' = [mem EXCEPT ![First].count = mem[First].count - 1]
  <2>1. /\ used[w] = {First}
        /\ view[w] = [snap[w] EXCEPT ![First].count = IF op[w] = "decrease" THEN @ - 1 ELSE InitCounter]
    BY <1>1, <1>2, <1>3, <1>4 DEF TxInv, CheckTx
  <2>2. mem' = Merge(mem, {First}, view[w]) /\ snap[w][First] = mem[First]
    BY <1>1, <1>4, <2>1 DEF ReadWrite
  <2>3. snap[w] \in Memories
    BY <1>3 DEF TxType
  <2>4. PICK n : n = IF op[w] = "decrease" THEN mem[First].count - 1 ELSE InitCounter
    OBVIOUS
  <2>5. view[w] = [snap[w] EXCEPT ![First].count = n]
    BY <2>1, <2>2, <2>3, <2>4, Sorts DEF Memories
  <2>6. mem' = [mem EXCEPT ![First].count = n]
    BY <1>3, <2>2, <2>3, <2>5, CounterMerged, SMTT(30)
  <2> QED  BY <1>4, <2>4, <2>6
<1>5. op[w] \notin {"counter_init", "decrease"} => mem' = mem
  BY <1>1, <1>2 DEF ReadWrite
<1> QED  BY <1>1, <1>2, <1>4, <1>5

LEMMA EndCounterInit ==
  ASSUME BankInvariant, NEW w \in Workers, TxEnd(w), op[w] = "counter_init"
  PROVE  BankInvariant'
<1>1. /\ res[w] = "true" /\ op[w] \in CheckOps
      /\ StepOf(w) /\ TxType(w)' /\ TxInv(w)' /\ res'[w] = "none" /\ known' = known
      /\ op'[w] = After(w) /\ todo'[w] = (IF Turn(w) THEN todo[w] - 1 ELSE todo[w])
      /\ mem' = [mem EXCEPT ![First].count = InitCounter]
  BY EndCheckFacts DEF CheckOps
<1>2. op'[w] = "counter_check" /\ todo'[w] = todo[w]
  BY <1>1, AfterCheck
<1>3. Functions /\ RunType(w) /\ mem \in Memories /\ Within(mem, Counts) /\ Listed(mem) /\ First \in Allocated(mem)
  <2>1. Functions /\ RunType(w) /\ mem \in Memories /\ Within(mem, Counts) /\ Listed(mem)
    BY Types DEF BankInvariant, MemInv
  <2> QED  BY <2>1, Lists
<1>4. CounterSet /\ w = Uid0
  BY Phases
<1>5. mem' \in Memories /\ Listed(mem') /\ Within(mem', Counts) /\ mem'[First].count = InitCounter
  <2>1. InitCounter \in Nat /\ InitCounter \in Counts
    <3>1. Checking
      BY <1>1, Phases
    <3> QED  BY <3>1, InitCounterType
  <2> QED  BY <1>1, <1>3, <2>1, CounterPut
<1>6. \A u \in Workers \ {w} : SameTx(u) /\ SameRun(u)
  BY <1>1, <1>3, Others
<1>7. CounterSet'
  BY <1>2, <1>4, <1>5, <1>6 DEF CounterSet, SameRun
<1>8. \A u \in Workers \ {w} : CheckTx(u)'
  BY <1>4, <1>6 DEF CounterSet, CheckTx, SameRun
<1>9. RunType(w)' /\ op'[w] \in CheckOps
  BY <1>1, <1>2, <1>3 DEF RunType, Ops, CheckOps
<1> QED  BY <1>1, <1>2, <1>5, <1>7, <1>8, <1>9, CheckStep

LEMMA EndCounterRead ==
  ASSUME BankInvariant, NEW w \in Workers, TxEnd(w), op[w] \in {"counter_check", "fetch", "zero"}
  PROVE  BankInvariant'
<1>1. /\ res[w] = "true" /\ op[w] \in CheckOps
      /\ StepOf(w) /\ TxType(w)' /\ TxInv(w)' /\ res'[w] = "none" /\ known' = known
      /\ op'[w] = After(w) /\ todo'[w] = (IF Turn(w) THEN todo[w] - 1 ELSE todo[w])
      /\ mem' = mem
  BY EndCheckFacts DEF CheckOps
<1>2. /\ op[w] = "counter_check" => op'[w] = "sync2"
      /\ op[w] = "fetch" => op'[w] = "decrease"
      /\ op[w] = "zero" => op'[w] = "over"
      /\ todo'[w] = todo[w]
  BY <1>1, AfterCheck
<1>3. Functions /\ TxInv(w) /\ RunType(w) /\ mem \in Memories /\ Within(mem, Counts) /\ Listed(mem) /\ First \in Allocated(mem)
  <2>1. Functions /\ TxInv(w) /\ RunType(w) /\ mem \in Memories /\ Within(mem, Counts) /\ Listed(mem)
    BY Types DEF BankInvariant, MemInv
  <2> QED  BY <2>1, Lists
<1>4. \A u \in Workers \ {w} : SameTx(u) /\ SameRun(u)
  BY <1>1, <1>3, Others
<1>5. todo' = todo
  BY <1>1, <1>2, <1>3 DEF StepOf, Functions
<1>6. (CounterSet \/ CountDown \/ CountedDown)'
  <2>1. CASE op[w] = "counter_check"
    <3>1. CounterSet /\ w = Uid0
      BY <2>1, Phases
    <3>2. CounterSet'
      BY <1>1, <1>2, <1>4, <2>1, <3>1 DEF CounterSet, SameRun
    <3> QED  BY <3>2
  <2>2. CASE op[w] = "fetch"
    <3>1. CountDown
      BY <2>2, Phases
    <3>2. mem[First].count <= known[w]
      <4>1. mode[w] # "none"
        BY Ending
      <4> QED  BY <1>1, <1>3, <2>2, <4>1 DEF TxInv, CheckTx
    <3>3. CountDown'
      BY <1>1, <1>2, <1>4, <1>5, <2>2, <3>1, <3>2 DEF CountDown, SameRun
    <3> QED  BY <3>3
  <2>3. CASE op[w] = "zero"
    <3>1. CountedDown /\ w = Uid0
      BY <2>3, Phases
    <3>2. CountedDown'
      BY <1>1, <1>2, <1>4, <2>3, <3>1 DEF CountedDown, SameRun
    <3> QED  BY <3>2
  <2> QED  BY <2>1, <2>2, <2>3
<1>7. \A u \in Workers \ {w} : CheckTx(u)'
  BY <1>1, <1>4, SMTT(30) DEF BankInvariant, TxInv, SameTx, SameRun, CheckTx
<1>8. RunType(w)' /\ op'[w] \in CheckOps
  BY <1>1, <1>2, <1>3 DEF RunType, Ops, CheckOps, InTx
<1>9. op'[w] \in {"fetch", "decrease"} => todo'[w] > 0
  BY <1>2 DEF BankInvariant, PhaseInv
<1>10. op'[w] # "sync3"
  BY <1>2
<1> QED  BY <1>1, <1>3, <1>6, <1>7, <1>8, <1>9, <1>10, CheckStep

LEMMA EndDecrease ==
  ASSUME BankInvariant, NEW w \in Workers, TxEnd(w), op[w] = "decrease"
  PROVE  BankInvariant'
<1> DEFINE n == mem[First].count
<1>1. /\ res[w] = "true" /\ op[w] \in CheckOps
      /\ StepOf(w) /\ TxType(w)' /\ TxInv(w)' /\ res'[w] = "none" /\ known' = known
      /\ op'[w] = After(w) /\ todo'[w] = (IF Turn(w) THEN todo[w] - 1 ELSE todo[w])
      /\ mem' = [mem EXCEPT ![First].count = n - 1]
  BY EndCheckFacts DEF CheckOps
<1>2. op'[w] = (IF todo[w] = 1 THEN "sync3" ELSE "fetch") /\ todo'[w] = todo[w] - 1
  BY <1>1, AfterCheck
<1>3. Functions /\ RunType(w) /\ mem \in Memories /\ Within(mem, Counts) /\ Listed(mem) /\ First \in Allocated(mem)
  <2>1. Functions /\ RunType(w) /\ mem \in Memories /\ Within(mem, Counts) /\ Listed(mem)
    BY Types DEF BankInvariant, MemInv
  <2> QED  BY <2>1, Lists
<1>4. CountDown
  BY Phases
<1>5. /\ todo[w] \in Nat \ {0} /\ todo \in [Workers -> Nat] /\ n = SumFunctionOnSet(todo, Workers)
      /\ n \in 1 .. InitCounter
  BY TurnsLeft
<1>6. mem' \in Memories /\ Listed(mem') /\ Within(mem', Counts) /\ mem'[First].count = n - 1
  <2>1. n - 1 \in Nat /\ n - 1 \in 0 .. InitCounter
    BY <1>5, InitCounterType
  <2>2. n - 1 \in Counts
    <3>1. Checking
      BY <1>1, Phases
    <3> QED  BY <2>1, <3>1, InitCounterType
  <2> HIDE DEF n
  <2> QED  BY <1>1, <1>3, <2>1, <2>2, CounterPut
<1>7. \A u \in Workers \ {w} : SameTx(u) /\ SameRun(u)
  BY <1>1, <1>3, Others
<1>8. /\ todo' = [todo EXCEPT ![w] = todo[w] - 1] /\ todo' \in [Workers -> Nat]
  BY <1>1, <1>2, <1>5 DEF StepOf
<1>9. SumFunctionOnSet(todo', Workers) = n - 1
  <2>1. PICK t : t = todo'
    OBVIOUS
  <2>2. \A u \in Workers : todo[u] \in Int /\ t[u] \in Int
    BY <1>5, <1>8, <2>1
  <2>3. \A u \in Workers \ {w} : t[u] = todo[u]
    BY <1>5, <1>8, <2>1
  <2>4. SumFunctionOnSet(t, Workers) = SumFunctionOnSet(todo, Workers) + t[w] - todo[w]
    BY <2>2, <2>3, Sorts, SumChange
  <2> QED  BY <1>2, <1>5, <2>1, <2>4, InitCounterType
<1>10. CountDown'
  <2>1. mem'[First].count = SumFunction(todo')
    BY <1>6, <1>8, <1>9 DEF SumFunction
  <2>2. mem'[First].count <= InitCounter
    BY <1>5, <1>6, InitCounterType
  <2>3. \A u \in Workers : op'[u] \in {"fetch", "decrease", "sync3", "check_threw"}
    BY <1>2, <1>4, <1>7 DEF CountDown, SameRun
  <2>4. ASSUME NEW u \in Workers, op'[u] = "decrease" PROVE mem'[First].count <= known'[u]
    <3>1. u # w
      BY <1>2, <2>4
    <3>2. op[u] = "decrease" /\ known'[u] = known[u]
      BY <1>7, <2>4, <3>1 DEF SameRun
    <3>3. n <= known[u] /\ known[u] \in Nat
      BY <1>4, <3>2, Types DEF CountDown, BankInvariant, RunType
    <3> QED  BY <1>5, <1>6, <3>2, <3>3, InitCounterType
  <2> QED  BY <2>1, <2>2, <2>3, <2>4 DEF CountDown
<1>11. ASSUME NEW u \in Workers \ {w} PROVE CheckTx(u)'
  <2>1. TxInv(u) /\ TxType(u) /\ SameTx(u) /\ SameRun(u)
    BY <1>7, Types DEF BankInvariant
  <2>2. op[u] \notin {"counter_check", "zero", "counter_init"}
    BY <1>4 DEF CountDown
  <2>3. ASSUME mode[u] # "none", op[u] \in {"fetch", "decrease"}
        PROVE  mem'[First].count <= snap[u][First].count
    <3>1. n <= snap[u][First].count
      BY <2>1, <2>3 DEF TxInv, CheckTx
    <3>2. snap[u][First].count \in Nat
      <4>1. snap[u] \in Memories /\ Listed(snap[u])
        BY <2>1, <2>3 DEF TxType, TxInv, Snapshot
      <4> QED  BY <4>1, Lists, Contents
    <3> QED  BY <1>5, <1>6, <3>1, <3>2, InitCounterType
  <2> HIDE DEF n
  <2> QED  BY <2>1, <2>2, <2>3 DEF TxInv, SameTx, SameRun, CheckTx
<1>12. RunType(w)' /\ op'[w] \in CheckOps
  <2>1. todo'[w] \in Nat
    BY <1>2, <1>5
  <2> QED  BY <1>1, <1>2, <1>3, <2>1 DEF RunType, Ops, CheckOps, InTx
<1>13. (op'[w] \in {"fetch", "decrease"} => todo'[w] > 0) /\ (op'[w] = "sync3" => todo'[w] = 0)
  BY <1>2, <1>5
<1> QED  BY <1>1, <1>6, <1>10, <1>11, <1>12, <1>13, CheckStep

LEMMA TxEndKeeps ==
  ASSUME BankInvariant, NEW w \in Workers, TxEnd(w)
  PROVE  BankInvariant'
<1>1. op[w] \in InTx
  BY Ending
<1>2. \/ op[w] \in {"init", "init_check"} \/ op[w] \in RunOps \/ op[w] = "counter_init"
      \/ op[w] \in {"counter_check", "fetch", "zero"} \/ op[w] = "decrease"
  BY <1>1 DEF InTx, RunOps
<1> QED  BY <1>2, EndInit, EndRun, EndCounterInit, EndCounterRead, EndDecrease

-----------------------------------------------------------------------------
(* The barriers of check *)

LEMMA SyncStep ==
  ASSUME BankInvariant, UNCHANGED <<memVars, known, req, loc, res>>,
         \A u \in Workers : op[u] \notin InTx,
         op' \in [Workers -> CheckOps], todo' \in [Workers -> Nat],
         (CounterSet \/ CountDown \/ CountedDown)',
         \A u \in Workers : /\ op'[u] \in {"fetch", "decrease"} => todo'[u] > 0
                            /\ op'[u] = "sync3" => todo'[u] = 0
  PROVE  BankInvariant'
<1>1. /\ Functions /\ mem \in Memories /\ Within(mem, Counts)
      /\ \A u \in Workers : TxType(u) /\ RunType(u)
  BY Types DEF BankInvariant
<1>2. /\ mem' = mem /\ mode' = mode /\ snap' = snap /\ view' = view /\ used' = used
      /\ known' = known /\ req' = req /\ loc' = loc /\ res' = res
  BY DEF memVars
<1>3. Checking' /\ ~Opening'
  BY Sorts DEF Checking, Opening, OpenOps, CheckOps
<1>4. Counts \subseteq Counts'
  BY <1>3, CountsKept
<1>5. TypeOK'
  <2>1. Functions'
    BY <1>1, <1>2 DEF Functions
  <2>2. Within(mem', Counts')
    BY <1>1, <1>2, <1>4, WithinMore
  <2>3. ASSUME NEW u \in Workers PROVE TxType(u)' /\ RunType(u)'
    <3>1. Within(snap[u], Counts') /\ Within(view[u], Counts')
      BY <1>1, <1>4, WithinMore DEF TxType
    <3>2. TxType(u)'
      BY <1>1, <1>2, <3>1 DEF TxType
    <3>3. RunType(u)'
      BY <1>1, <1>2 DEF RunType, Ops
    <3> QED  BY <3>2, <3>3
  <2> QED  BY <1>1, <1>2, <2>1, <2>2, <2>3, TypesNext
<1>6. ASSUME NEW u \in Workers PROVE TxInv(u)' /\ res'[u] = "none"
  <2>1. mode[u] = "none" /\ Outside(u) /\ res[u] = "none"
    BY OutsideInTx
  <2>2. mode'[u] = "none" /\ Outside(u)'
    BY <1>2, <2>1 DEF Outside
  <2> QED  BY <1>2, <2>1, <2>2, NoTxNext
<1>7. NoFalseAlarm'
  BY <1>6 DEF NoFalseAlarm, CheckOps
<1>8. PhaseInv'
  BY <1>3 DEF PhaseInv, CheckOps
<1>9. MemInv'
  BY <1>2, <1>3 DEF BankInvariant, MemInv
<1> QED  BY <1>5, <1>6, <1>7, <1>8, <1>9 DEF BankInvariant

LEMMA CheckStartKeeps ==
  ASSUME BankInvariant, CheckStart
  PROVE  BankInvariant'
<1> DEFINE next == [w \in Workers |-> IF w = Uid0 THEN "counter_init" ELSE "sync2"]
<1>1. /\ \A u \in Workers : op[u] = "done"
      /\ op' = next /\ todo' = todo /\ UNCHANGED <<memVars, known, req, loc, res>>
  BY DEF CheckStart, CheckSync, BankInvariant, NoFalseAlarm
<1>2. op' \in [Workers -> CheckOps]
  BY <1>1 DEF CheckOps
<1>3. todo' \in [Workers -> Nat]
  BY <1>1 DEF BankInvariant, TypeOK
<1>4. CounterSet'
  BY <1>1, Sorts DEF CounterSet
<1>5. \A u \in Workers : op[u] \notin InTx /\ op'[u] \notin {"fetch", "decrease", "sync3"}
  BY <1>1 DEF InTx
<1> QED  BY <1>1, <1>2, <1>3, <1>4, <1>5, SyncStep

LEMMA CheckLoopKeeps ==
  ASSUME BankInvariant, CheckLoop
  PROVE  BankInvariant'
<1>1. /\ \A u \in Workers : op[u] = "sync2"
      /\ op' = [w \in Workers |-> "fetch"] /\ todo' = [w \in Workers |-> NbCheckTx]
      /\ UNCHANGED <<memVars, known, req, loc, res>>
  BY DEF CheckLoop, CheckSync, BankInvariant, NoFalseAlarm
<1>2. op' \in [Workers -> CheckOps]
  BY <1>1 DEF CheckOps
<1>3. todo' \in [Workers -> Nat] /\ NbCheckTx \in Nat \ {0}
  BY <1>1, BankAssumption
<1>4. mem[First].count = InitCounter
  <2>1. Checking
    BY <1>1, Sorts DEF Checking, CheckOps
  <2>2. CounterSet
    BY <1>1, <2>1, Sorts DEF BankInvariant, PhaseInv, CountDown, CountedDown
  <2> QED  BY <1>1, <2>2, Sorts DEF CounterSet
<1>5. SumFunction(todo') = InitCounter
  <2>1. PICK t : t = todo'
    OBVIOUS
  <2>2. SumFunctionOnSet(t, Workers) = NbCheckTx * Cardinality(Workers)
    BY <1>1, <1>3, <2>1, Sorts, SumConstant
  <2>3. DOMAIN todo' = Workers
    BY <1>3
  <2> QED  BY <2>1, <2>2, <2>3 DEF SumFunction, InitCounter
<1>6. CountDown'
  <2>1. mem' = mem
    BY <1>1 DEF memVars
  <2> QED  BY <1>1, <1>4, <1>5, <2>1, InitCounterType DEF CountDown
<1>7. \A u \in Workers : op[u] \notin InTx /\ op'[u] = "fetch" /\ todo'[u] > 0
  BY <1>1, <1>3 DEF InTx
<1> QED  BY <1>1, <1>2, <1>3, <1>6, <1>7, SyncStep

LEMMA CheckEndKeeps ==
  ASSUME BankInvariant, CheckEnd
  PROVE  BankInvariant'
<1>1. /\ \A u \in Workers : op[u] = "sync3"
      /\ op' = [w \in Workers |-> IF w = Uid0 THEN "zero" ELSE "over"] /\ todo' = todo
      /\ UNCHANGED <<memVars, known, req, loc, res>>
  BY DEF CheckEnd, CheckSync, BankInvariant, NoFalseAlarm
<1>2. op' \in [Workers -> CheckOps]
  BY <1>1 DEF CheckOps
<1>3. todo \in [Workers -> Nat]
  BY DEF BankInvariant, TypeOK
<1>4. \A u \in Workers : todo[u] = 0
  BY <1>1 DEF BankInvariant, PhaseInv
<1>5. mem[First].count = 0
  <2>1. CountDown
    BY <1>1, Sorts, Phases
  <2>2. SumFunctionOnSet(todo, Workers) = 0 * Cardinality(Workers)
    BY <1>4, Sorts, SumConstant
  <2>3. Cardinality(Workers) \in Nat
    BY Sorts, FS_CardinalityType
  <2> QED  BY <1>3, <2>1, <2>2, <2>3 DEF CountDown, SumFunction
<1>6. CountedDown'
  <2>1. mem' = mem
    BY <1>1 DEF memVars
  <2> QED  BY <1>1, <1>5, <2>1, Sorts DEF CountedDown
<1>7. \A u \in Workers : op[u] \notin InTx /\ op'[u] \notin {"fetch", "decrease", "sync3"}
  BY <1>1 DEF InTx
<1> QED  BY <1>1, <1>2, <1>3, <1>6, <1>7, SyncStep

-----------------------------------------------------------------------------
(* The invariant *)

LEMMA BankInit ==
  ASSUME Init
  PROVE  BankInvariant
<1>1. /\ mem = Created
      /\ mode = [w \in Workers |-> "none"] /\ snap = [w \in Workers |-> M!NoView]
      /\ view = [w \in Workers |-> M!NoView] /\ used = [w \in Workers |-> {}]
      /\ op = [w \in Workers |-> "init"] /\ todo = [w \in Workers |-> NbTx]
      /\ known = [w \in Workers |-> NbAccounts] /\ req = [w \in Workers |-> NoReq]
      /\ loc = [w \in Workers |-> NewLoc] /\ res = [w \in Workers |-> "none"]
  BY DEF Init, M!Init, M!Words, Created, Only, Addresses
<1>2. Opening /\ ~Checking /\ ~Initialized
  BY <1>1, Sorts DEF Opening, OpenOps, Checking, CheckOps, Initialized
<1>3. ASSUME NEW w \in Workers PROVE TxInv(w)
  <2>1. mode[w] = "none" /\ Outside(w)
    BY <1>1 DEF Outside
  <2> QED  BY <2>1, NoTx
<1>4. MemInv
  BY <1>1, <1>2, OpenedSound DEF MemInv
<1>5. PhaseInv
  BY <1>1, <1>2 DEF PhaseInv, OpenOps
<1>6. NoFalseAlarm
  BY <1>1 DEF NoFalseAlarm
<1>7. TypeOK
  <2>1. Functions
    BY <1>1 DEF Functions
  <2>2. 0 \in Counts
    BY Sorts DEF Counts
  <2>3. Within(mem, Counts) /\ mem \in Memories
    BY <1>1, <2>2, OpenedSound DEF Within, Created, Only
  <2>4. ASSUME NEW w \in Workers PROVE TxType(w) /\ RunType(w)
    <3>1. M!NoView \in Memories /\ NewLoc \in Locals /\ NoReq \in Requests
      BY NewLocType DEF NoReq, Requests
    <3>2. Within(M!NoView, Counts)
      BY DEF Within, M!NoView, M!Words, Addresses
    <3>3. NbTx \in Nat /\ NbAccounts \in Nat
      BY BankAssumption
    <3>4. TxType(w)
      BY <1>1, <3>1, <3>2 DEF TxType, Answers
    <3>5. RunType(w)
      BY <1>1, <3>3 DEF RunType, Ops, InTx
    <3> QED  BY <3>4, <3>5
  <2> QED  BY <2>1, <2>3, <2>4, Types
<1> QED  BY <1>3, <1>4, <1>5, <1>6, <1>7 DEF BankInvariant

LEMMA BodyKeeps ==
  ASSUME BankInvariant, NEW w \in Workers, Body(w)
  PROVE  BankInvariant'
  BY InitStep, InitCheckStep, LongStepKeeps, AllocVisitKeeps, RemoveAccountKeeps, RemoveSegmentKeeps,
     AddAccountKeeps, AddSegmentKeeps, AddSegmentNoMemKeeps, ShortVisitKeeps, TransferKeeps,
     CounterInitStep, FetchStep, DecreaseStep, CounterTestStep DEF Body

(* A step that changes nothing. *)
LEMMA StutterKeeps ==
  ASSUME BankInvariant, UNCHANGED vars
  PROVE  BankInvariant'
<1>1. /\ mem' = mem /\ mode' = mode /\ snap' = snap /\ view' = view /\ used' = used
      /\ op' = op /\ todo' = todo /\ known' = known /\ req' = req /\ loc' = loc /\ res' = res
  BY DEF vars, memVars, runVars
<1>2. TypeOK'
  BY <1>1 DEF BankInvariant, TypeOK, Counts, Checking
<1>3. NoFalseAlarm' /\ PhaseInv' /\ MemInv'
  BY <1>1 DEF BankInvariant, NoFalseAlarm, PhaseInv, MemInv, Opening, Checking, Initialized,
              CounterSet, CountDown, CountedDown
<1>4. ASSUME NEW u \in Workers PROVE TxInv(u)'
  <2>1. TxInv(u) /\ SameTx(u) /\ SameRun(u)
    BY <1>1 DEF BankInvariant, SameTx, SameRun
  <2>2. CheckTx(u)'
    BY <1>1, <2>1 DEF TxInv, CheckTx
  <2> QED  BY <2>1, <2>2, TxKept
<1> QED  BY <1>2, <1>3, <1>4 DEF BankInvariant

LEMMA BankStep ==
  ASSUME BankInvariant, [Next]_vars
  PROVE  BankInvariant'
<1>1. ASSUME NEW w \in Workers, Worker(w)
      PROVE  BankInvariant'
  BY <1>1, ChooseKeeps, TxBeginKeeps, TxBeginFailsKeeps, BodyKeeps, TxEndKeeps, TxRetryKeeps DEF Worker
<1>2. CASE CheckStart
  BY <1>2, CheckStartKeeps
<1>3. CASE CheckLoop
  BY <1>3, CheckLoopKeeps
<1>4. CASE CheckEnd
  BY <1>4, CheckEndKeeps
<1>5. CASE Ended
  BY <1>5, StutterKeeps DEF Ended
<1>6. CASE UNCHANGED vars
  BY <1>6, StutterKeeps
<1> QED  BY <1>1, <1>2, <1>3, <1>4, <1>5, <1>6 DEF Next

(* What the workers know, what their transactions have seen and where they  *)
(* are in run and in check, at every moment.                                *)
THEOREM BankInvariantHolds == Spec => []BankInvariant
<1>1. Init => BankInvariant
  BY BankInit
<1>2. BankInvariant /\ [Next]_vars => BankInvariant'
  BY BankStep
<1> QED  BY <1>1, <1>2, PTL DEF Spec

(* Every variable of the bank keeps its type. *)
THEOREM BankTypes == Spec => []TypeOK
<1>1. BankInvariant => TypeOK
  BY DEF BankInvariant
<1> QED  BY <1>1, BankInvariantHolds, PTL

(* No check of the workload fails on a memory that keeps its promises.      *)
THEOREM BankNoFalseAlarm == Spec => []NoFalseAlarm
<1>1. BankInvariant => NoFalseAlarm
  BY DEF BankInvariant
<1> QED  BY <1>1, BankInvariantHolds, PTL

(* The money is what the accounts were opened with. *)
THEOREM BankMoneyConserved == Spec => []MoneyConserved
<1>1. BankInvariant => MoneyConserved
  <2> SUFFICES ASSUME BankInvariant, Initialized, ~Checking
               PROVE  /\ Money(mem, List(mem)) = InitBalance * Number(mem, List(mem))
                      /\ \A s \in List(mem) : ~Indebted(mem[s])
    BY DEF MoneyConserved
  <2>1. mem \in Memories /\ Listed(mem) /\ Sound(mem)
    BY Types DEF BankInvariant, MemInv
  <2>2. List(mem) = Allocated(mem)
    BY <2>1, ListWhole
  <2> QED  BY <2>1, <2>2 DEF Sound, Shaped
<1> QED  BY <1>1, BankInvariantHolds, PTL

(* The list is what is allocated, and only its last segment has room. *)
THEOREM BankListShape == Spec => []ListShape
<1>1. BankInvariant => ListShape
  <2> SUFFICES ASSUME BankInvariant PROVE ListShape
    OBVIOUS
  <2>1. mem \in Memories /\ Listed(mem) /\ (Initialized /\ ~Checking => Sound(mem))
    BY Types DEF BankInvariant, MemInv
  <2>2. List(mem) = Allocated(mem)
    BY <2>1, ListWhole
  <2>3. ASSUME Sound(mem), NEW s \in Allocated(mem)
        PROVE  mem[s].count = NbAccounts \/ (mem[s].next = Null /\ mem[s].count > 0)
    <3>1. mem[s].count \in 1 .. NbAccounts /\ (mem[s].next # Null => mem[s].count = NbAccounts)
      BY <2>3 DEF Sound, Shaped
    <3> QED  BY <3>1, Sorts
  <2> QED  BY <2>1, <2>2, <2>3 DEF ListShape, Allocated
<1> QED  BY <1>1, BankInvariantHolds, PTL

=============================================================================
