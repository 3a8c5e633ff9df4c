------------------------------ MODULE SyncProofs ------------------------------
(***************************************************************************)
(* The steps of the programs of sync-examples keep the invariant of        *)
(* SyncInv.tla.  So the programs that are called correct are, for any      *)
(* number of threads and rounds and any size of the buffer, and in none of *)
(* them do two threads access the same variable or slot at once.           *)
(***************************************************************************)
EXTENDS SyncInv, FiniteSetTheorems, TLAPS

-----------------------------------------------------------------------------
(* Numbers                                                                 *)

(* Data less than BUFFER_SIZE rounds apart are in different slots. *)
LEMMA SlotsApart ==
  ASSUME NEW m \in Int, NEW n \in Int, m < n, n < m + BUFFER_SIZE
  PROVE  m % BUFFER_SIZE # n % BUFFER_SIZE
<1> DEFINE b == BUFFER_SIZE
           q(i) == i \div b
           d == q(n) - q(m)
<1>1. b \in Nat \ {0}
  BY BufferAssumption
<1> HIDE DEF b
<1>2. \A i \in {m, n} : q(i) \in Int /\ i = (b * q(i)) + (i % b) /\ i % b \in 0 .. b - 1
  BY <1>1
<1> HIDE DEF q
<1> SUFFICES ASSUME m % b = n % b PROVE FALSE
  BY DEF b
<1>3. b * q(m) \in Int /\ b * q(n) \in Int /\ (b * q(n)) - (b * q(m)) = n - m
  <2>1. \A i, j \in Int : i * j \in Int
    OBVIOUS
  <2> QED  BY <1>1, <1>2, <2>1
<1>4. b * d = (b * q(n)) - (b * q(m)) /\ d \in Int
  <2>1. \A i, j, k \in Int : i * (j - k) = (i * j) - (i * k) /\ j - k \in Int
    OBVIOUS
  <2> QED  BY <1>1, <1>2, <2>1
<1>5. 0 < b * d /\ b * d < b
  BY <1>1, <1>3, <1>4 DEF b
<1> HIDE DEF d
<1> QED  BY <1>1, <1>4, <1>5

LEMMA Numbers ==
  /\ RUNS \in Nat \ {0} /\ THREADS \in Nat \ {0, 1} /\ BUFFER_SIZE \in Nat \ {0}
  /\ Producer \in Tids /\ Consumer \in Tids /\ Producer # Consumer
  /\ \A t \in Tids : t # 0
  /\ RUNS * THREADS \in Nat
  BY SyncAssumption, BufferAssumption DEF Producer, Consumer, Tids

(* The rounds made are a finite number, and all of them are counted when   *)
(* every thread is through.                                                *)
LEMMA CountIncrements ==
  ASSUME NEW S \in SUBSET (Tids \X Rounds)
  PROVE  /\ IsFiniteSet(S) /\ Cardinality(S) \in 0 .. RUNS * THREADS
         /\ \A x \in Tids \X Rounds :
              x \notin S => Cardinality(S \cup {x}) = Cardinality(S) + 1
         /\ Cardinality(Tids \X Rounds) = RUNS * THREADS
<1>1. /\ IsFiniteSet(Tids) /\ Cardinality(Tids) = THREADS
      /\ IsFiniteSet(Rounds) /\ Cardinality(Rounds) = RUNS
  BY Numbers, FS_Interval DEF Tids, Rounds
<1>2. IsFiniteSet(Tids \X Rounds) /\ Cardinality(Tids \X Rounds) = RUNS * THREADS
  <2>1. Cardinality(Tids \X Rounds) = THREADS * RUNS /\ IsFiniteSet(Tids \X Rounds)
    BY <1>1, FS_Product
  <2> QED  BY <2>1, Numbers
<1>3. IsFiniteSet(S) /\ Cardinality(S) <= RUNS * THREADS /\ Cardinality(S) \in Nat
  BY <1>2, FS_Subset, FS_CardinalityType
<1> QED  BY <1>2, <1>3, FS_AddElement, Numbers

LEMMA CountThreads ==
  ASSUME NEW S \in SUBSET Tids
  PROVE  /\ Cardinality(S) \in 0 .. THREADS
         /\ \A t \in Tids : t \notin S => Cardinality(S \cup {t}) = Cardinality(S) + 1
<1>1. IsFiniteSet(Tids) /\ Cardinality(Tids) = THREADS
  BY Numbers, FS_Interval DEF Tids
<1>2. IsFiniteSet(S) /\ Cardinality(S) <= THREADS /\ Cardinality(S) \in Nat
  BY <1>1, FS_Subset, FS_CardinalityType
<1> QED  BY <1>2, FS_AddElement, Numbers

LEMMA TeamSize ==
  ASSUME program \in Programs
  PROVE  /\ Team \subseteq Tids
         /\ Cardinality(Team) = IF program \in ProCons THEN 2 ELSE THREADS
         /\ Cardinality(Team) \in 1 .. THREADS
         /\ \A t \in Tids : t \in Team <=> t <= Cardinality(Team)
<1>1. CASE program \in ProCons
  <2>1. Team = 1 .. 2
    BY <1>1, Numbers DEF Team, Producer, Consumer
  <2>2. Cardinality({1} \cup {2}) = Cardinality({1}) + 1 /\ Cardinality({1}) = 1
    <3>1. IsFiniteSet({1}) /\ Cardinality({1}) = 1
      BY FS_Singleton
    <3>2. 2 \notin {1}
      OBVIOUS
    <3> QED  BY <3>1, <3>2, FS_AddElement
  <2>3. Cardinality(Team) = 2 /\ Team = {1} \cup {2}
    BY <2>2, <1>1 DEF Team, Producer, Consumer
  <2> QED  BY <1>1, <2>1, <2>3, Numbers DEF Tids
<1>2. CASE program \notin ProCons
  <2>1. Team = Tids /\ Cardinality(Tids) = THREADS
    BY <1>2, Numbers, FS_Interval DEF Team, Tids
  <2> QED  BY <1>2, <2>1, Numbers DEF Tids
<1> QED  BY <1>1, <1>2

-----------------------------------------------------------------------------
(* The threads                                                             *)

(* What a step of t does to where t is, *)
Walks(t) ==
  /\ UNCHANGED <<program, created, verdict>>
  /\ pc[t] \in Steps
  /\ (\E l \in Steps : Goto(t, l)) \/ NextRound(t)

(* and to the lock. *)
Locks(t) ==
  /\ owner' \in {0} \cup Tids /\ sleeping' \subseteq Tids
  /\ program \in Locked =>
       \/ owner' = owner /\ (pc'[t] \in Inside <=> pc[t] \in Inside)
       \/ owner = 0 /\ owner' = t /\ pc'[t] \in Inside
       \/ owner = t /\ owner' = 0 /\ pc'[t] \notin Inside

LEMMA TopIsStep ==
  ASSUME program \in Programs
  PROVE  Top \in Steps \ {"count", "claim", "write", "release", "wake", "half2", "publish"}
         /\ (program \in Locked => Top \notin Inside)
  BY DEF Programs, Counters, Elections, ProCons, Top, Steps, Locked, Inside

LEMMA CounterWalks ==
  ASSUME ThreadsTypeOK, NEW t \in Tids, Counter1(t) \/ Counter2(t) \/ Counter3(t) \/ Counter4(t)
  PROVE  Walks(t) /\ Locks(t)
<1> USE DEF ThreadsTypeOK, Walks, Locks, Runs, Goto, Steps, Locked, LockUntouched
<1>1. CASE Counter1(t) \/ Counter3(t)
  BY <1>1 DEF Counter1, Counter3
<1>2. CASE Counter2(t)
  BY <1>2, TopIsStep DEF Counter2, LockAcquire, LockRelease, Inside, NextRound
<1>3. CASE Counter4(t)
  BY <1>3 DEF Counter4
<1> QED  BY <1>1, <1>2, <1>3

LEMMA ElectionWalks ==
  ASSUME ThreadsTypeOK, NEW t \in Tids, Election1(t) \/ Election2(t) \/ Election3(t) \/ Election4(t)
  PROVE  Walks(t) /\ Locks(t)
<1> USE DEF ThreadsTypeOK, Walks, Locks, Runs, Goto, Steps, Locked, LockUntouched
<1>1. CASE Election1(t) \/ Election3(t)
  BY <1>1 DEF Election1, Election3
<1>2. CASE Election2(t)
  BY <1>2, TopIsStep DEF Election2, LockAcquire, LockRelease, Inside, NextRound
<1>3. CASE Election4(t)
  BY <1>3 DEF Election4
<1> QED  BY <1>1, <1>2, <1>3

LEMMA ProConWalks ==
  ASSUME ThreadsTypeOK, NEW t \in Tids, ProduceOrConsume(t)
  PROVE  Walks(t) /\ Locks(t)
<1> USE DEF ThreadsTypeOK, Walks, Locks, Runs, Goto, Steps, Locked, LockUntouched
<1>1. CASE ProCon1(t)
  BY <1>1 DEF ProCon1
<1>2. CASE ProCon2(t)
  BY <1>2, TopIsStep DEF ProCon2, Work, LockAcquire, LockRelease, Inside, NextRound
<1>3. CASE ProCon3(t)
  BY <1>3 DEF ProCon3
<1>4. CASE ProCon4(t)
  BY <1>4, TopIsStep
     DEF ProCon4, Work, LockAcquire, LockRelease, LockWait, LockWakeUp, Inside, NextRound
<1> QED  BY <1>1, <1>2, <1>3, <1>4 DEF ProduceOrConsume

(* So a step of a thread is legal for it, *)
LEMMA ThreadWalks ==
  ASSUME ThreadsTypeOK, NEW t \in Tids, Thread(t)
  PROVE  Walks(t) /\ Locks(t)
  BY CounterWalks, ElectionWalks, ProConWalks DEF Thread, CountOrElect

(* and a thread in a round is in one of the RUNS. *)
LEMMA InRound ==
  ASSUME ThreadsTypeOK, Lives, NEW t \in Tids, pc[t] \in Steps
  PROVE  r[t] \in Rounds /\ r[t] \in 0 .. RUNS - 1 /\ pc[t] \notin {"unborn", "exit"} /\ t \in Team
<1>1. pc[t] \notin {"unborn", "exit"}
  BY DEF ThreadsTypeOK, Programs, Counters, Elections, ProCons, Steps
<1>2. r[t] \in 0 .. RUNS /\ r[t] # RUNS /\ ~(created < t)
  BY <1>1 DEF ThreadsTypeOK, Lives
<1> QED  BY <1>1, <1>2, Numbers, TeamSize DEF Rounds, Lives, ThreadsTypeOK, Tids

LEMMA ThreadsStep ==
  ASSUME ThreadsTypeOK, Lives, OneInside, Verdict, NEW t \in Tids, Walks(t), Locks(t)
  PROVE  ThreadsTypeOK' /\ Lives' /\ OneInside' /\ Verdict'
<1>1. /\ program' = program /\ created' = created /\ verdict' = verdict
      /\ Steps' = Steps /\ Team' = Team /\ Top \in Steps
  BY TopIsStep DEF Walks, Steps, Team, ThreadsTypeOK
<1>2. r[t] \in 0 .. RUNS - 1 /\ pc[t] \notin {"unborn", "exit"}
  BY InRound DEF Walks
<1>3. Steps \subseteq {"acquire", "read", "write", "release", "update", "test",
                       "claim", "count", "poll", "half1", "half2", "publish", "asleep", "wake"}
  BY DEF Steps, ThreadsTypeOK, Programs, Counters, Elections, ProCons
<1>4. /\ \A u \in Tids \ {t} : pc'[u] = pc[u] /\ r'[u] = r[u]
      /\ pc'[t] \in Steps \cup {"exit"} /\ r'[t] \in 0 .. RUNS
      /\ pc'[t] = "exit" <=> r'[t] = RUNS
  <2>1. CASE \E l \in Steps : Goto(t, l)
    BY <1>2, <1>3, <2>1 DEF Goto, ThreadsTypeOK
  <2>2. CASE NextRound(t)
    BY <1>1, <1>2, <1>3, <2>2, Numbers DEF NextRound, ThreadsTypeOK
  <2> QED  BY <2>1, <2>2 DEF Walks
<1>5. ThreadsTypeOK'
  <2>1. pc' = [pc EXCEPT ![t] = pc'[t]] /\ r' = [r EXCEPT ![t] = r'[t]]
    <3>1. CASE \E l \in Steps : Goto(t, l)
      BY <3>1 DEF Goto, ThreadsTypeOK
    <3>2. CASE NextRound(t)
      BY <3>2 DEF NextRound, ThreadsTypeOK
    <3> QED  BY <3>1, <3>2 DEF Walks
  <2>2. r' \in [Tids -> 0 .. RUNS]
    BY <1>4, <2>1 DEF ThreadsTypeOK
  <2>3. pc'[t] \in {"acquire", "read", "write", "release", "update", "test", "claim", "count",
                    "poll", "half1", "half2", "publish", "asleep", "wake", "exit"}
    BY <1>3, <1>4
  <2> QED  BY <1>1, <2>1, <2>2, <2>3 DEF ThreadsTypeOK, Locks
<1>6. Lives'
  <2>1. ~(created < t)
    BY <1>2 DEF Lives
  <2> QED  BY <1>1, <1>2, <1>3, <1>4, <2>1 DEF Lives
<1>7. OneInside'
  BY <1>1, <1>4, Numbers DEF OneInside, Locks
<1> QED  BY <1>1, <1>5, <1>6, <1>7 DEF Verdict

-----------------------------------------------------------------------------
(* The counters                                                            *)

LEMMA IncrementsTyped ==
  /\ Increments \in SUBSET (Tids \X Rounds)
  /\ Increments' \in SUBSET (Tids \X Rounds)
  BY DEF Increments

(* A step that leaves t as far in its round makes the same increments, *)
LEMMA NoIncrement ==
  ASSUME ThreadsTypeOK, NEW t \in Tids, NEW l \in Steps, Goto(t, l),
         (l = "release") <=> (pc[t] = "release")
  PROVE  Increments' = Increments
<1>1. r' = r /\ \A u \in Tids : pc'[u] = "release" <=> pc[u] = "release"
  BY DEF Goto, ThreadsTypeOK
<1> QED  BY <1>1 DEF Increments

(* one that ends the increment, or the round, makes one more, *)
LEMMA OneIncrement ==
  ASSUME ThreadsTypeOK, Lives, NEW t \in Tids, pc[t] \in Steps \ {"release"},
         Goto(t, "release") \/ NextRound(t)
  PROVE  Cardinality(Increments') = Cardinality(Increments) + 1
<1>1. r[t] \in Rounds /\ Top # "release"
  BY InRound, TopIsStep DEF ThreadsTypeOK
<1>2. /\ \A u \in Tids \ {t} : pc'[u] = pc[u] /\ r'[u] = r[u]
      /\ \/ pc'[t] = "release" /\ r'[t] = r[t]
         \/ pc'[t] # "release" /\ r'[t] = r[t] + 1
  BY <1>1 DEF Goto, NextRound, ThreadsTypeOK
<1>3. \A n \in Rounds : r[t] \in Int /\ n \in Int /\ (n < r[t] + 1 <=> n < r[t] \/ n = r[t])
  BY <1>1, Numbers DEF Rounds
<1>4. <<t, r[t]>> \in Tids \X Rounds /\ <<t, r[t]>> \notin Increments
  BY <1>1, <1>3 DEF Increments
<1>5. Increments' = Increments \cup {<<t, r[t]>>}
  <2>1. ASSUME NEW x \in Tids \X Rounds
        PROVE  x \in Increments' <=> x \in Increments \/ x = <<t, r[t]>>
    <3>1. PICK u \in Tids, n \in Rounds : x = <<u, n>>
      OBVIOUS
    <3>2. CASE u = t
      BY <1>2, <1>3, <3>1, <3>2 DEF Increments
    <3>3. CASE u # t
      BY <1>2, <3>1, <3>3 DEF Increments
    <3> QED  BY <3>2, <3>3
  <2> QED  BY <1>4, <2>1, IncrementsTyped
<1> QED  BY <1>4, <1>5, IncrementsTyped, CountIncrements

(* and the release makes none. *)
LEMMA ReleaseIncrement ==
  ASSUME ThreadsTypeOK, Lives, NEW t \in Tids, pc[t] = "release", pc[t] \in Steps, NextRound(t)
  PROVE  Increments' = Increments
<1>1. r[t] \in Rounds /\ Top # "release"
  BY InRound, TopIsStep DEF ThreadsTypeOK
<1>2. /\ \A u \in Tids \ {t} : pc'[u] = pc[u] /\ r'[u] = r[u]
      /\ pc'[t] # "release" /\ r'[t] = r[t] + 1
  BY <1>1 DEF NextRound, ThreadsTypeOK
<1>3. \A n \in Rounds : r[t] \in Int /\ n \in Int /\ (n < r[t] + 1 <=> n < r[t] \/ n = r[t])
  BY <1>1, Numbers DEF Rounds
<1>4. ASSUME NEW x \in Tids \X Rounds
      PROVE  x \in Increments' <=> x \in Increments
  <2>1. PICK u \in Tids, n \in Rounds : x = <<u, n>>
    OBVIOUS
  <2>2. CASE u = t
    BY <1>2, <1>3, <2>1, <2>2 DEF Increments
  <2>3. CASE u # t
    BY <1>2, <2>1, <2>3 DEF Increments
  <2> QED  BY <2>2, <2>3
<1> QED  BY <1>4, IncrementsTyped

(* The threads of the two programs without a lock keep below the number of *)
(* increments, and those of counter2 write what they have read.            *)
LEMMA CounterStep ==
  ASSUME IInv, NEW t \in Tids, Counter1(t) \/ Counter2(t) \/ Counter3(t) \/ Counter4(t)
  PROVE  CountingTypeOK' /\ CounterInv'
<1> DEFINE N == Cardinality(Increments)
<1>1. /\ N \in 0 .. RUNS * THREADS /\ N' \in 0 .. RUNS * THREADS
      /\ RUNS * THREADS \in Nat
  BY IncrementsTyped, CountIncrements, Numbers
<1>2. ThreadsTypeOK /\ Lives /\ CountingTypeOK /\ Walks(t) /\ program' = program
  BY CounterWalks DEF IInv, TypeOK, Walks
<1>3. CASE program \in {"counter1", "counter3"}
  <2> SUFFICES CountingTypeOK' /\ counter' <= N' /\ \A u \in Tids : pc'[u] = "write" => local'[u] <= N'
    BY <1>2, <1>3 DEF CounterInv
  <2>1. counter <= N /\ \A u \in Tids : pc[u] = "write" => local[u] <= N
    BY <1>3 DEF IInv, CounterInv
  <2>2. CASE pc[t] = "read"
    <3>1. ReadCounter(t) /\ Goto(t, "write") /\ "write" \in Steps
      BY <1>3, <2>2 DEF Counter1, Counter2, Counter3, Counter4, Runs, Steps
    <3>2. N' = N
      BY <1>2, <2>2, <3>1, NoIncrement
    <3> HIDE DEF N
    <3> QED  BY <1>1, <1>2, <2>1, <2>2, <3>1, <3>2
             DEF ReadCounter, Goto, ThreadsTypeOK, CountingTypeOK
  <2>3. CASE pc[t] # "read"
    <3>1. pc[t] = "write" /\ WriteCounter(t) /\ NextRound(t)
      BY <1>3, <2>3 DEF Counter1, Counter2, Counter3, Counter4, Runs
    <3>2. N' = N + 1
      BY <1>2, <3>1, OneIncrement DEF Walks
    <3>3. Top # "write"
      BY <1>2, TopIsStep DEF ThreadsTypeOK
    <3> HIDE DEF N
    <3>4. local \in [Tids -> 0 .. RUNS * THREADS] /\ counter \in 0 .. RUNS * THREADS
      BY <1>2 DEF CountingTypeOK
    <3>5. /\ counter' = local[t] + 1 /\ local[t] <= N
          /\ local' \in [Tids -> 0 .. RUNS * THREADS] /\ local'[t] = 0
          /\ \A u \in Tids \ {t} : local'[u] = local[u]
      BY <1>1, <2>1, <3>1, <3>4 DEF WriteCounter
    <3>6. counter' <= N' /\ counter' \in 0 .. RUNS * THREADS
      BY <1>1, <3>2, <3>4, <3>5
    <3>7. ASSUME NEW u \in Tids, pc'[u] = "write" PROVE local'[u] <= N'
      <4>1. u # t /\ pc[u] = "write"
        BY <1>2, <3>1, <3>3, <3>7 DEF NextRound, ThreadsTypeOK
      <4> QED  BY <1>1, <2>1, <3>2, <3>4, <3>5, <4>1
    <3> QED  BY <1>2, <3>1, <3>5, <3>6, <3>7 DEF CountingTypeOK, WriteCounter
  <2> QED  BY <2>2, <2>3
<1>4. CASE program = "counter2"
  <2> SUFFICES CountingTypeOK' /\ counter' = N' /\ \A u \in Tids : pc'[u] = "write" => local'[u] = counter'
    BY <1>2, <1>4 DEF CounterInv
  <2>1. counter = N /\ \A u \in Tids : pc[u] = "write" => local[u] = counter
    BY <1>4 DEF IInv, CounterInv
  <2>2. Counter2(t)
    BY <1>4 DEF Counter1, Counter3, Counter4, Runs
  <2>3. CASE pc[t] \in {"acquire", "read"}
    <3>1. PICK l \in {"read", "write"} : Goto(t, l) /\ l \in Steps
                 /\ IF l = "write" THEN ReadCounter(t) ELSE UNCHANGED countingVars
      BY <1>4, <2>2, <2>3 DEF Counter2, Runs, Steps
    <3>2. N' = N
      BY <1>2, <2>3, <3>1, NoIncrement
    <3> HIDE DEF N
    <3> QED  BY <1>1, <1>2, <2>1, <2>3, <3>1, <3>2
             DEF ReadCounter, countingVars, Goto, ThreadsTypeOK, CountingTypeOK
  <2>4. CASE pc[t] = "write"
    <3>1. WriteCounter(t) /\ Goto(t, "release")
      BY <1>4, <2>2, <2>4 DEF Counter2, Runs
    <3>2. N' = N + 1
      BY <1>2, <2>4, <3>1, OneIncrement DEF Walks
    <3>3. \A u \in Tids \ {t} : pc[u] # "write"
      BY <1>4, <2>4 DEF IInv, OneInside, Locked, Inside
    <3> HIDE DEF N
    <3>4. counter' = counter + 1 /\ counter' = N' /\ counter' \in 0 .. RUNS * THREADS
      BY <1>1, <1>2, <2>1, <2>4, <3>1, <3>2 DEF WriteCounter, CountingTypeOK
    <3> QED  BY <1>1, <1>2, <3>1, <3>3, <3>4 DEF WriteCounter, Goto, ThreadsTypeOK, CountingTypeOK
  <2>5. CASE pc[t] = "release"
    <3>1. NextRound(t) /\ UNCHANGED countingVars
      BY <1>4, <2>2, <2>5 DEF Counter2, Runs
    <3>2. N' = N
      BY <1>2, <2>5, <3>1, ReleaseIncrement DEF Walks
    <3>3. Top # "write"
      BY <1>2, TopIsStep DEF ThreadsTypeOK
    <3> HIDE DEF N
    <3> QED  BY <1>2, <2>1, <3>1, <3>2, <3>3
             DEF countingVars, NextRound, ThreadsTypeOK, CountingTypeOK
  <2> QED  BY <2>2, <2>3, <2>4, <2>5 DEF Counter2, Runs
<1>5. CASE program = "counter4"
  <2> SUFFICES CountingTypeOK' /\ counter' = N'
    BY <1>2, <1>5 DEF CounterInv
  <2>1. counter = N
    BY <1>5 DEF IInv, CounterInv
  <2>2. Counter4(t)
    BY <1>5 DEF Counter1, Counter2, Counter3, Runs
  <2>3. N' = N + 1
    BY <1>2, <2>2, OneIncrement DEF Walks, Counter4, Runs
  <2> HIDE DEF N
  <2> QED  BY <1>1, <1>2, <2>1, <2>2, <2>3 DEF Counter4, CountingTypeOK
<1> QED  BY <1>3, <1>4, <1>5 DEF Counter1, Counter2, Counter3, Counter4, Runs

-----------------------------------------------------------------------------
(* The elections                                                           *)

(* Only who is through a round has passed it. *)
LEMMA PassedStep ==
  ASSUME ThreadsTypeOK, Lives, NEW t \in Tids, pc[t] \in Steps
  PROVE  /\ \A l : Goto(t, l) => \A n \in Rounds : Passed(n)' = Passed(n)
         /\ NextRound(t) => \A n \in Rounds :
              /\ n # r[t] => Passed(n)' = Passed(n)
              /\ n = r[t] => Passed(n)' = Passed(n) \cup {t} /\ t \notin Passed(n)
<1>1. ASSUME NEW l, Goto(t, l), NEW n \in Rounds
      PROVE  Passed(n)' = Passed(n)
  BY <1>1 DEF Goto, Passed
<1>2. ASSUME NextRound(t), NEW n \in Rounds
      PROVE  /\ n # r[t] => Passed(n)' = Passed(n)
             /\ n = r[t] => Passed(n)' = Passed(n) \cup {t} /\ t \notin Passed(n)
  <2>1. r[t] \in Int /\ n \in Int
    BY Numbers DEF ThreadsTypeOK, Rounds
  <2>2. r'[t] = r[t] + 1 /\ \A u \in Tids \ {t} : r'[u] = r[u]
    BY <1>2 DEF NextRound, ThreadsTypeOK
  <2> QED  BY <2>1, <2>2 DEF Passed
<1> QED  BY <1>1, <1>2

LEMMA LeaderTypes ==
  ASSUME ThreadsTypeOK, CountingTypeOK, NEW t \in Tids, r[t] \in Rounds
  PROVE  /\ Claim(t) => /\ leader' \in [Rounds -> {0} \cup Tids] /\ leader'[r[t]] = t
                        /\ \A n \in Rounds \ {r[t]} : leader'[n] = leader[n]
                        /\ nb_leaders' = nb_leaders /\ UNCHANGED <<counter, local>>
         /\ CountLeader(t) => /\ leader' = leader /\ UNCHANGED <<counter, local>>
                              /\ nb_leaders'[r[t]] = nb_leaders[r[t]] + 1
                              /\ nb_leaders' = [nb_leaders EXCEPT ![r[t]] = nb_leaders[r[t]] + 1]
                              /\ \A n \in Rounds \ {r[t]} : nb_leaders'[n] = nb_leaders[n]
  BY DEF Claim, CountLeader, CountingTypeOK

(* Without the test and the claim in one step, a thread counts itself once *)
(* in a round all the same.                                                *)
LEMMA OpenElectionStep ==
  ASSUME IInv, NEW t \in Tids, Election1(t) \/ Election3(t)
  PROVE  CountingTypeOK' /\ LeaderInv'
<1>1. /\ ThreadsTypeOK /\ Lives /\ CountingTypeOK /\ Walks(t) /\ program' = program
      /\ program \in {"election1", "election3"} /\ pc[t] \in Steps /\ r[t] \in Rounds
  BY ElectionWalks, InRound DEF IInv, TypeOK, Walks, Election1, Election3, Runs
<1> SUFFICES CountingTypeOK' /\ \A n \in Rounds : nb_leaders'[n] <= Cardinality(Passed(n)')
  BY <1>1 DEF LeaderInv
<1>2. \A n \in Rounds : nb_leaders[n] <= Cardinality(Passed(n)) /\ nb_leaders[n] \in 0 .. THREADS
  BY <1>1 DEF IInv, LeaderInv, CountingTypeOK
<1>3. \A n \in Rounds : /\ Passed(n) \in SUBSET Tids /\ Passed(n)' \in SUBSET Tids
                        /\ Cardinality(Passed(n)) \in 0 .. THREADS
                        /\ Cardinality(Passed(n)') \in 0 .. THREADS
                        /\ Cardinality(Passed(n)) <= Cardinality(Passed(n)')
                        /\ n = r[t] /\ NextRound(t) =>
                             Cardinality(Passed(n)') = Cardinality(Passed(n)) + 1
  <2>1. ASSUME NEW n \in Rounds
        PROVE  Passed(n) \in SUBSET Tids /\ Passed(n)' \in SUBSET Tids
    BY DEF Passed
  <2>2. ASSUME NEW n \in Rounds
        PROVE  Passed(n)' = Passed(n) \/ (Passed(n)' = Passed(n) \cup {t} /\ t \notin Passed(n))
    BY <1>1, PassedStep DEF Walks
  <2>3. ASSUME NEW n \in Rounds, n = r[t], NextRound(t)
        PROVE  Passed(n)' = Passed(n) \cup {t} /\ t \notin Passed(n)
    BY <1>1, <2>3, PassedStep
  <2>4. \A S \in SUBSET Tids : /\ Cardinality(S) \in 0 .. THREADS
                               /\ t \notin S => Cardinality(S \cup {t}) = Cardinality(S) + 1
    BY CountThreads
  <2>5. ASSUME NEW n \in Rounds
        PROVE  Cardinality(Passed(n)) <= Cardinality(Passed(n)')
    <3>1. CASE Passed(n)' = Passed(n)
      <4>1. Cardinality(Passed(n)) \in 0 .. THREADS /\ Cardinality(Passed(n)') = Cardinality(Passed(n))
        BY <2>1, <2>4, <3>1
      <4> QED  BY <4>1, Numbers
    <3>2. CASE Passed(n)' = Passed(n) \cup {t} /\ t \notin Passed(n)
      BY <2>1, <2>4, <3>2, Numbers
    <3> QED  BY <2>2, <3>1, <3>2
  <2> QED  BY <2>1, <2>3, <2>4, <2>5
<1>4. CASE UNCHANGED countingVars
  BY <1>1, <1>2, <1>3, <1>4, Numbers DEF countingVars, CountingTypeOK
<1>5. CASE Claim(t)
  BY <1>1, <1>2, <1>3, <1>5, LeaderTypes, Numbers DEF CountingTypeOK
<1>6. CASE CountLeader(t) /\ NextRound(t)
  <2>1. \A n \in Rounds : nb_leaders'[n] <= Cardinality(Passed(n)')
    BY <1>1, <1>2, <1>3, <1>6, LeaderTypes, Numbers
  <2>2. nb_leaders[r[t]] + 1 \in 0 .. THREADS
    BY <1>1, <1>2, <1>3, <1>6, Numbers
  <2> QED  BY <1>1, <1>6, <2>1, <2>2, LeaderTypes DEF CountingTypeOK
<1> QED  BY <1>4, <1>5, <1>6 DEF Election1, Election3, NoLeader, HasLeader

(* In the two that are correct the claim finds no leader, and nobody else  *)
(* is counting himself.                                                    *)
LEMMA GuardedElectionStep ==
  ASSUME IInv, NEW t \in Tids, Election2(t) \/ Election4(t)
  PROVE  CountingTypeOK' /\ LeaderInv'
<1>1. /\ ThreadsTypeOK /\ Lives /\ CountingTypeOK /\ Walks(t) /\ program' = program
      /\ program \in {"election2", "election4"} /\ pc[t] \in Steps /\ r[t] \in Rounds
      /\ Top \notin {"claim", "count", "release"}
  BY ElectionWalks, InRound, TopIsStep
     DEF IInv, TypeOK, ThreadsTypeOK, Walks, Election2, Election4, Runs
<1> DEFINE Counted(n) == nb_leaders[n] = IF leader[n] = 0 \/ Uncounted(n) THEN 0 ELSE 1
           Entered(n) == Passed(n) # {} => leader[n] # 0
           OwnRound(u) == /\ pc[u] = "claim" => leader[r[u]] = 0
                          /\ pc[u] = "count" => leader[r[u]] = u
                          /\ pc[u] = "release" => leader[r[u]] # 0
<1>2. (\A n \in Rounds : Counted(n) /\ Entered(n)) /\ \A u \in Tids : OwnRound(u)
  BY <1>1 DEF IInv, LeaderInv
<1> SUFFICES CountingTypeOK' /\ (\A n \in Rounds : Counted(n)' /\ Entered(n)') /\ \A u \in Tids : OwnRound(u)'
  BY <1>1 DEF LeaderInv
<1>3. /\ leader \in [Rounds -> {0} \cup Tids] /\ nb_leaders \in [Rounds -> 0 .. THREADS]
      /\ pc = [u \in Tids |-> pc[u]] /\ r \in [Tids -> Int] /\ Rounds \subseteq Int
  BY <1>1, Numbers DEF CountingTypeOK, ThreadsTypeOK, Rounds
<1>4. \A u \in Tids : pc[u] \in {"claim", "count", "release"} => r[u] \in Rounds
  <2>1. ASSUME NEW u \in Tids, pc[u] \in {"claim", "count", "release"}
        PROVE  r[u] \in Rounds
    <3>1. pc[u] \in Steps
      BY <1>1, <2>1 DEF Lives
    <3> QED  BY <1>1, <3>1, InRound
  <2> QED  BY <2>1
<1>5. CASE Goto(t, "test") /\ UNCHANGED countingVars /\ pc[t] = "acquire"
  <2>1. /\ \A n \in Rounds : Passed(n)' = Passed(n) /\ (Uncounted(n)' <=> Uncounted(n))
        /\ UNCHANGED <<leader, nb_leaders, r>>
    BY <1>1, <1>3, <1>5 DEF Goto, Passed, Uncounted, countingVars
  <2>2. \A u \in Tids : OwnRound(u)'
    BY <1>2, <1>3, <1>5, <2>1 DEF Goto
  <2>3. CountingTypeOK'
    BY <1>1, <1>5 DEF CountingTypeOK, countingVars
  <2> QED  BY <1>2, <2>1, <2>2, <2>3
<1>6. CASE Goto(t, "claim") /\ NoLeader(t) /\ pc[t] = "test"
  <2>1. /\ \A n \in Rounds : Passed(n)' = Passed(n) /\ (Uncounted(n)' <=> Uncounted(n))
        /\ UNCHANGED <<leader, nb_leaders, r>>
    BY <1>1, <1>3, <1>6 DEF Goto, Passed, Uncounted, countingVars, NoLeader
  <2>2. \A u \in Tids : OwnRound(u)'
    BY <1>2, <1>3, <1>6, <2>1 DEF Goto, NoLeader
  <2>3. CountingTypeOK'
    BY <1>1, <1>6 DEF CountingTypeOK, countingVars, NoLeader
  <2> QED  BY <1>2, <2>1, <2>2, <2>3
<1>7. CASE Goto(t, "release") /\ HasLeader(t) /\ pc[t] = "test"
  <2>1. /\ \A n \in Rounds : Passed(n)' = Passed(n) /\ (Uncounted(n)' <=> Uncounted(n))
        /\ UNCHANGED <<leader, nb_leaders, r>>
    BY <1>1, <1>3, <1>7 DEF Goto, Passed, Uncounted, countingVars, HasLeader
  <2>2. \A u \in Tids : OwnRound(u)'
    BY <1>2, <1>3, <1>7, <2>1 DEF Goto, HasLeader
  <2>3. CountingTypeOK'
    BY <1>1, <1>7 DEF CountingTypeOK, countingVars, HasLeader
  <2> QED  BY <1>2, <2>1, <2>2, <2>3
<1>8. CASE Goto(t, "count") /\ Claim(t) /\ pc[t] \in {"claim", "update"} /\ leader[r[t]] = 0
           /\ (\A u \in Tids : pc[u] = "claim" => u = t)
  <2>1. /\ r' = r /\ pc'[t] = "count" /\ \A u \in Tids \ {t} : pc'[u] = pc[u]
        /\ nb_leaders' = nb_leaders /\ leader'[r[t]] = t /\ t # 0
        /\ \A n \in Rounds \ {r[t]} : leader'[n] = leader[n]
        /\ \A n \in Rounds : Passed(n)' = Passed(n)
    BY <1>1, <1>3, <1>8, LeaderTypes, Numbers DEF Goto, Passed
  <2>2. \A n \in Rounds \ {r[t]} : Uncounted(n)' <=> Uncounted(n)
    BY <2>1 DEF Uncounted
  <2>3. Uncounted(r[t])'
    BY <2>1 DEF Uncounted
  <2>4. \A n \in Rounds : Counted(n)' /\ Entered(n)'
    BY <1>1, <1>2, <1>8, <2>1, <2>2, <2>3
  <2>5. ASSUME NEW u \in Tids
        PROVE  OwnRound(u)'
    <3>1. CASE u = t
      BY <2>1, <3>1
    <3>2. CASE u # t /\ r[u] = r[t]
      BY <1>1, <1>2, <1>8, <2>1, <3>2, Numbers
    <3>3. CASE u # t /\ r[u] # r[t]
      BY <1>2, <1>4, <2>1, <3>3
    <3> QED  BY <3>1, <3>2, <3>3
  <2>6. CountingTypeOK'
    BY <1>1, <1>8, LeaderTypes DEF CountingTypeOK
  <2> QED  BY <2>4, <2>5, <2>6
<1>9. CASE CountLeader(t) /\ pc[t] = "count" /\ (Goto(t, "release") \/ NextRound(t))
  <2>1. /\ leader[r[t]] = t /\ t # 0 /\ leader' = leader /\ nb_leaders'[r[t]] = nb_leaders[r[t]] + 1
        /\ \A n \in Rounds \ {r[t]} : nb_leaders'[n] = nb_leaders[n]
    BY <1>1, <1>2, <1>9, LeaderTypes, Numbers
  <2>2. /\ pc'[t] # "count" /\ pc'[t] # "claim" /\ (pc'[t] = "release" => r'[t] = r[t])
        /\ \A u \in Tids \ {t} : pc'[u] = pc[u] /\ r'[u] = r[u]
    BY <1>1, <1>3, <1>9 DEF Goto, NextRound
  <2>3. \A n \in Rounds : n = r[t] => Uncounted(n) /\ ~Uncounted(n)'
    BY <1>9, <2>1, <2>2 DEF Uncounted
  <2>4. \A n \in Rounds \ {r[t]} : Uncounted(n)' <=> Uncounted(n)
    BY <2>1, <2>2 DEF Uncounted
  <2>5. \A n \in Rounds \ {r[t]} : Passed(n)' = Passed(n)
    BY <1>1, <1>9, PassedStep
  <2>6. \A n \in Rounds : Counted(n)' /\ Entered(n)'
    <3>1. ASSUME NEW n \in Rounds, n = r[t] PROVE Counted(n)' /\ Entered(n)'
      BY <1>1, <1>2, <2>1, <2>3, <3>1
    <3>2. ASSUME NEW n \in Rounds, n # r[t] PROVE Counted(n)' /\ Entered(n)'
      BY <1>1, <1>2, <2>1, <2>4, <2>5, <3>2
    <3> QED  BY <3>1, <3>2
  <2>7. \A u \in Tids : OwnRound(u)'
    BY <1>2, <2>1, <2>2
  <2>8. nb_leaders[r[t]] + 1 \in 0 .. THREADS
    BY <1>1, <1>2, <2>3, Numbers
  <2>9. CountingTypeOK'
    BY <1>1, <1>9, <2>8, LeaderTypes DEF CountingTypeOK
  <2> QED  BY <2>6, <2>7, <2>9
<1>10. CASE NextRound(t) /\ UNCHANGED countingVars /\ leader[r[t]] # 0 /\ pc[t] # "count"
  <2>1. /\ pc'[t] \notin {"claim", "count", "release"} /\ UNCHANGED <<leader, nb_leaders>>
        /\ \A u \in Tids \ {t} : pc'[u] = pc[u] /\ r'[u] = r[u]
    BY <1>1, <1>3, <1>10 DEF NextRound, countingVars
  <2>2. \A n \in Rounds : Uncounted(n)' <=> Uncounted(n)
    BY <1>10, <2>1 DEF Uncounted
  <2>3. \A n \in Rounds \ {r[t]} : Passed(n)' = Passed(n)
    BY <1>1, <1>10, PassedStep
  <2>4. \A n \in Rounds : Counted(n)' /\ Entered(n)'
    BY <1>1, <1>2, <1>10, <2>1, <2>2, <2>3
  <2>5. \A u \in Tids : OwnRound(u)'
    BY <1>2, <2>1
  <2>6. CountingTypeOK'
    BY <1>1, <1>10 DEF CountingTypeOK, countingVars
  <2> QED  BY <2>4, <2>5, <2>6
<1>11. CASE Election2(t)
  <2>1. \A u \in Tids : pc[t] = "claim" /\ pc[u] = "claim" => u = t
    BY <1>11 DEF IInv, OneInside, Locked, Inside, Election2, Runs
  <2>2. (pc[t] = "claim" => leader[r[t]] = 0) /\ (pc[t] = "release" => leader[r[t]] # 0)
    BY <1>2
  <2> QED  BY <1>5, <1>6, <1>7, <1>8, <1>9, <1>10, <1>11, <2>1, <2>2 DEF Election2, Runs
<1>12. CASE Election4(t)
  <2>1. \A u \in Tids : pc[u] # "claim"
    BY <1>1, <1>12 DEF Election4, Runs, Lives, Steps
  <2> QED  BY <1>8, <1>9, <1>10, <1>12, <2>1 DEF Election4, Runs, HasLeader
<1> QED  BY <1>11, <1>12

-----------------------------------------------------------------------------
(* The producer and the consumer                                           *)

Timed == {"procon2", "procon3", "procon4"}

LEMMA BothHalves ==
  ASSUME NEW S, NEW f \in [Halves -> S], NEW d, \A h \in Halves : f[h] = d
  PROVE  f = Both(d)
  BY DEF Both

LEMMA SlotTyped ==
  ASSUME NEW n \in Rounds
  PROVE  n % BUFFER_SIZE \in Slots /\ n \in Int /\ Datum(n) = n + 1 /\ Datum(n) \in 0 .. RUNS
<1>1. n \in Nat /\ n + 1 \in 0 .. RUNS /\ BUFFER_SIZE \in Nat \ {0}
  BY Numbers DEF Rounds
<1>2. n % BUFFER_SIZE \in 0 .. BUFFER_SIZE - 1
  BY <1>1
<1> QED  BY <1>1, <1>2 DEF Slots, Datum

(* The producer copies a half into its slot and leaves the others alone, *)
LEMMA CopyInStep ==
  ASSUME BufferTypeOK, r[Producer] \in Rounds, NEW h \in Halves, CopyIn(h)
  PROVE  LET p == r[Producer]
             i == p % BUFFER_SIZE
         IN  /\ BufferTypeOK' /\ UNCHANGED <<produced_until, consumed_until, consumed>>
             /\ produced'[p] = Datum(p) /\ \A n \in Rounds \ {p} : produced'[n] = produced[n]
             /\ \A j \in Slots \ {i} : buffer'[j] = buffer[j]
             /\ buffer'[i][h] = Datum(p) /\ \A g \in Halves \ {h} : buffer'[i][g] = buffer[i][g]
<1> DEFINE p == r[Producer]
           i == p % BUFFER_SIZE
           d == Datum(p)
<1>1. i \in Slots /\ d \in 0 .. RUNS /\ p \in Rounds
  BY SlotTyped
<1>2. /\ produced' = [produced EXCEPT ![p] = d]
      /\ buffer' = [buffer EXCEPT ![i] = [buffer[i] EXCEPT ![h] = d]]
      /\ UNCHANGED <<produced_until, consumed_until, consumed>>
  BY DEF CopyIn, Slot
<1> HIDE DEF p, i, d
<1>3. [buffer[i] EXCEPT ![h] = d] \in [Halves -> 0 .. RUNS]
  BY <1>1 DEF BufferTypeOK
<1>4. BufferTypeOK'
  BY <1>1, <1>2, <1>3 DEF BufferTypeOK
<1>5. /\ produced'[p] = d /\ \A n \in Rounds \ {p} : produced'[n] = produced[n]
      /\ \A j \in Slots \ {i} : buffer'[j] = buffer[j]
      /\ buffer'[i][h] = d /\ \A g \in Halves \ {h} : buffer'[i][g] = buffer[i][g]
  BY <1>1, <1>2 DEF BufferTypeOK
<1> QED  BY <1>2, <1>4, <1>5 DEF p, i, d

(* and the consumer a half of its slot into its round. *)
LEMMA CopyOutStep ==
  ASSUME BufferTypeOK, r[Consumer] \in Rounds, NEW h \in Halves, CopyOut(h)
  PROVE  LET c == r[Consumer]
             i == c % BUFFER_SIZE
         IN  /\ BufferTypeOK' /\ UNCHANGED <<produced_until, consumed_until, produced, buffer>>
             /\ \A n \in Rounds \ {c} : consumed'[n] = consumed[n]
             /\ consumed'[c][h] = buffer[i][h]
             /\ \A g \in Halves \ {h} : consumed'[c][g] = consumed[c][g]
<1> DEFINE c == r[Consumer]
           i == c % BUFFER_SIZE
<1>1. i \in Slots /\ c \in Rounds
  BY SlotTyped
<1>2. /\ consumed' = [consumed EXCEPT ![c] = [consumed[c] EXCEPT ![h] = buffer[i][h]]]
      /\ UNCHANGED <<produced_until, consumed_until, produced, buffer>>
  BY DEF CopyOut, Slot
<1> HIDE DEF c, i
<1>3. [consumed[c] EXCEPT ![h] = buffer[i][h]] \in [Halves -> 0 .. RUNS]
  BY <1>1 DEF BufferTypeOK
<1>4. BufferTypeOK'
  BY <1>1, <1>2, <1>3 DEF BufferTypeOK
<1>5. /\ \A n \in Rounds \ {c} : consumed'[n] = consumed[n]
      /\ consumed'[c][h] = buffer[i][h]
      /\ \A g \in Halves \ {h} : consumed'[c][g] = consumed[c][g]
  BY <1>1, <1>2 DEF BufferTypeOK
<1> QED  BY <1>2, <1>4, <1>5 DEF c, i

LEMMA CopyTyped ==
  ASSUME BufferTypeOK, NEW t \in {Producer, Consumer}, r[t] \in Rounds, NEW h \in Halves, Copy(t, h)
  PROVE  BufferTypeOK' /\ UNCHANGED <<produced_until, consumed_until>>
<1>1. CASE t = Producer
  BY <1>1, CopyInStep DEF Copy
<1>2. CASE t = Consumer
  BY <1>2, CopyOutStep, Numbers DEF Copy
<1> QED  BY <1>1, <1>2

(* The steps of a round, in order. *)
Prepares(t) ==
  /\ pc[t] \in {"acquire", "poll", "asleep"}
  /\ \E l \in {"acquire", "poll", "asleep"} : Goto(t, l)
  /\ UNCHANGED bufferVars

Starts(t) == pc[t] = "poll" /\ MayGo(t) /\ Goto(t, "half1") /\ UNCHANGED bufferVars

CopiesOne(t) == pc[t] = "half1" /\ Copy(t, "half1") /\ Goto(t, "half2")

CopiesOther(t) == pc[t] = "half2" /\ Copy(t, "half2") /\ Goto(t, "publish")

Publishes(t) == pc[t] = "publish" /\ Publish(t) /\ (Goto(t, "release") \/ NextRound(t))

Finishes(t) ==
  /\ pc[t] \in {"release", "wake"}
  /\ Goto(t, "wake") \/ NextRound(t)
  /\ UNCHANGED bufferVars

LEMMA RoundSteps ==
  ASSUME ThreadsTypeOK, Lives, NEW t \in Tids, ProCon2(t) \/ ProCon3(t) \/ ProCon4(t)
  PROVE  /\ program \in Timed /\ program' = program /\ t \in {Producer, Consumer} /\ r[t] \in Rounds
         /\ \/ Prepares(t) \/ Starts(t) \/ CopiesOne(t) \/ CopiesOther(t)
            \/ Publishes(t) \/ Finishes(t)
<1>1. program \in Timed /\ program' = program /\ pc[t] \in Steps
  BY ProConWalks DEF ProCon2, ProCon3, ProCon4, Work, Runs, Timed, ProduceOrConsume, Walks
<1>2. t \in {Producer, Consumer} /\ r[t] \in Rounds
  BY <1>1, InRound DEF Timed, Team, ProCons
<1> USE DEF Prepares, Starts, CopiesOne, CopiesOther, Publishes, Finishes, Runs
<1>3. CASE ProCon2(t)
  BY <1>1, <1>2, <1>3 DEF ProCon2, Work
<1>4. CASE ProCon3(t)
  BY <1>1, <1>2, <1>4 DEF ProCon3
<1>5. CASE ProCon4(t)
  BY <1>1, <1>2, <1>5 DEF ProCon4, Work
<1> QED  BY <1>3, <1>4, <1>5

(* Where the thread is after the step; the other one is where it was. *)
LEMMA RoundMoves ==
  ASSUME ThreadsTypeOK, program \in Timed, NEW t \in {Producer, Consumer}
  PROVE  /\ \A l : Goto(t, l) =>
              /\ pc'[t] = l /\ r'[t] = r[t]
              /\ \A u \in {Producer, Consumer} \ {t} : pc'[u] = pc[u] /\ r'[u] = r[u]
         /\ NextRound(t) =>
              /\ pc'[t] \in {"acquire", "poll", "exit"} /\ r'[t] = r[t] + 1
              /\ \A u \in {Producer, Consumer} \ {t} : pc'[u] = pc[u] /\ r'[u] = r[u]
  BY Numbers DEF Goto, NextRound, Top, Timed, ThreadsTypeOK

(* A step keeps the counts, and who may go. *)
LEMMA CountsStep ==
  ASSUME IInv, NEW t \in Tids, ProCon2(t) \/ ProCon3(t) \/ ProCon4(t)
  PROVE  CountsInv' /\ BufferTypeOK'
<1> DEFINE P == Producer
           C == Consumer
<1>1. /\ ThreadsTypeOK /\ Lives /\ BufferTypeOK /\ CountsInv
      /\ program \in Timed /\ t \in {P, C} /\ r[t] \in Rounds /\ r[t] \in 0 .. RUNS - 1
      /\ r[P] \in 0 .. RUNS /\ r[C] \in 0 .. RUNS /\ P \in Tids /\ C \in Tids /\ P # C
  BY RoundSteps, Numbers DEF IInv, TypeOK, BufferInv, Timed, ThreadsTypeOK, Rounds
<1>2. /\ produced_until = Done(P) /\ consumed_until = Done(C)
      /\ consumed_until <= produced_until /\ produced_until <= consumed_until + BUFFER_SIZE
      /\ Going(P) => consumed_until + BUFFER_SIZE > r[P]
      /\ Going(C) => produced_until > r[C]
      /\ produced_until \in 0 .. RUNS /\ consumed_until \in 0 .. RUNS
  BY <1>1 DEF CountsInv, MayGo, BufferTypeOK
<1> SUFFICES /\ BufferTypeOK'
             /\ produced_until' = Done(P)' /\ consumed_until' = Done(C)'
             /\ consumed_until' <= produced_until' /\ produced_until' <= consumed_until' + BUFFER_SIZE
             /\ Going(P)' => consumed_until' + BUFFER_SIZE > r'[P]
             /\ Going(C)' => produced_until' > r'[C]
  BY <1>1 DEF CountsInv, MayGo
<1>3. ASSUME UNCHANGED <<produced_until, consumed_until>>, BufferTypeOK',
             Done(t)' = Done(t), Going(t)' => Going(t) \/ MayGo(t), r'[t] = r[t] \/ ~Going(t)',
             \A u \in {P, C} \ {t} : pc'[u] = pc[u] /\ r'[u] = r[u]
      PROVE  /\ BufferTypeOK'
             /\ produced_until' = Done(P)' /\ consumed_until' = Done(C)'
             /\ consumed_until' <= produced_until' /\ produced_until' <= consumed_until' + BUFFER_SIZE
             /\ Going(P)' => consumed_until' + BUFFER_SIZE > r'[P]
             /\ Going(C)' => produced_until' > r'[C]
  <2>1. \A u \in {P, C} : Done(u)' = Done(u) /\ (Going(u)' => r'[u] = r[u] /\ (Going(u) \/ MayGo(u)))
    BY <1>3 DEF Done, Going
  <2>2. (MayGo(P) <=> consumed_until + BUFFER_SIZE > r[P]) /\ (MayGo(C) <=> produced_until > r[C])
    BY <1>1 DEF MayGo
  <2> QED  BY <1>1, <1>2, <1>3, <2>1, <2>2
<1>4. ASSUME UNCHANGED bufferVars PROVE BufferTypeOK' /\ UNCHANGED <<produced_until, consumed_until>>
  BY <1>1, <1>4 DEF bufferVars, BufferTypeOK
<1>5. CASE Prepares(t)
  <2>1. PICK l \in {"acquire", "poll", "asleep"} : Goto(t, l)
    BY <1>5 DEF Prepares
  <2>2. /\ pc'[t] = l /\ r'[t] = r[t] /\ \A u \in {P, C} \ {t} : pc'[u] = pc[u] /\ r'[u] = r[u]
    BY <1>1, <2>1, RoundMoves
  <2> QED  BY <1>3, <1>4, <1>5, <2>2 DEF Prepares, Done, Going
<1>6. CASE Starts(t)
  <2>1. pc'[t] = "half1" /\ r'[t] = r[t] /\ \A u \in {P, C} \ {t} : pc'[u] = pc[u] /\ r'[u] = r[u]
    BY <1>1, <1>6, RoundMoves DEF Starts
  <2> QED  BY <1>3, <1>4, <1>6, <2>1 DEF Starts, Done, Going
<1>7. CASE CopiesOne(t) \/ CopiesOther(t)
  <2>1. PICK l \in {"half2", "publish"} : Goto(t, l)
    BY <1>7 DEF CopiesOne, CopiesOther
  <2>2. pc'[t] = l /\ r'[t] = r[t] /\ \A u \in {P, C} \ {t} : pc'[u] = pc[u] /\ r'[u] = r[u]
    BY <1>1, <2>1, RoundMoves
  <2>3. BufferTypeOK' /\ UNCHANGED <<produced_until, consumed_until>>
    BY <1>1, <1>7, CopyTyped DEF CopiesOne, CopiesOther, Halves
  <2> QED  BY <1>3, <1>7, <2>2, <2>3 DEF CopiesOne, CopiesOther, Done, Going
<1>8. CASE Publishes(t)
  <2>1. /\ \/ pc'[t] = "release" /\ r'[t] = r[t]
           \/ pc'[t] \in {"acquire", "poll", "exit"} /\ r'[t] = r[t] + 1
        /\ \A u \in {P, C} \ {t} : pc'[u] = pc[u] /\ r'[u] = r[u]
    <3>1. CASE Goto(t, "release")
      BY <1>1, <3>1, RoundMoves
    <3>2. CASE NextRound(t)
      BY <1>1, <3>2, RoundMoves
    <3> QED  BY <1>8, <3>1, <3>2 DEF Publishes
  <2>2. Done(t) = r[t] /\ Done(t)' = r[t] + 1 /\ Going(t) /\ ~Going(t)'
    BY <1>8, <2>1 DEF Publishes, Done, Going
  <2>3. /\ produced_until' = IF t = P THEN produced_until + 1 ELSE produced_until
        /\ consumed_until' = IF t = C THEN consumed_until + 1 ELSE consumed_until
        /\ UNCHANGED <<buffer, produced, consumed>>
    BY <1>8 DEF Publishes, Publish
  <2>4. \A u \in {P, C} \ {t} : Done(u)' = Done(u) /\ (Going(u)' <=> Going(u)) /\ r'[u] = r[u]
    BY <2>1 DEF Done, Going
  <2>5. /\ produced_until' \in 0 .. RUNS /\ consumed_until' \in 0 .. RUNS
    BY <1>1, <1>2, <2>2, <2>3, Numbers
  <2>6. BufferTypeOK'
    BY <1>1, <2>3, <2>5 DEF BufferTypeOK
  <2>7. CASE t = P
    BY <1>1, <1>2, <2>2, <2>3, <2>4, <2>6, <2>7, Numbers
  <2>8. CASE t = C
    BY <1>1, <1>2, <2>2, <2>3, <2>4, <2>6, <2>8, Numbers
  <2> QED  BY <1>1, <2>7, <2>8
<1>9. CASE Finishes(t)
  <2>1. /\ \/ pc'[t] = "wake" /\ r'[t] = r[t]
           \/ pc'[t] \in {"acquire", "poll", "exit"} /\ r'[t] = r[t] + 1
        /\ \A u \in {P, C} \ {t} : pc'[u] = pc[u] /\ r'[u] = r[u]
    <3>1. CASE Goto(t, "wake")
      BY <1>1, <3>1, RoundMoves
    <3>2. CASE NextRound(t)
      BY <1>1, <3>2, RoundMoves
    <3> QED  BY <1>9, <3>1, <3>2 DEF Finishes
  <2> QED  BY <1>3, <1>4, <1>9, <2>1 DEF Finishes, Done, Going
<1> QED  BY <1>1, <1>5, <1>6, <1>7, <1>8, <1>9, RoundSteps

(* The invariant with the rounds of the two threads in their places. *)
LEMMA DataParts ==
  ASSUME IInv, program \in Timed
  PROVE  /\ ThreadsTypeOK /\ Lives /\ BufferTypeOK /\ CountsInv /\ DataInv
         /\ produced_until \in Int /\ consumed_until \in Int
         /\ r[Producer] \in Int /\ r[Consumer] \in Int
         /\ Going(Producer) =>
              /\ produced_until = r[Producer] /\ r[Producer] < consumed_until + BUFFER_SIZE
              /\ \A n \in Rounds : consumed_until <= n /\ n < produced_until =>
                   n % BUFFER_SIZE # r[Producer] % BUFFER_SIZE
         /\ Going(Consumer) =>
              /\ consumed_until = r[Consumer] /\ r[Consumer] < produced_until
              /\ \A n \in Rounds : n = r[Consumer] => buffer[n % BUFFER_SIZE] = Both(Datum(n))
<1>1. /\ ThreadsTypeOK /\ Lives /\ BufferTypeOK /\ CountsInv /\ DataInv
      /\ produced_until \in Int /\ consumed_until \in Int
      /\ r[Producer] \in Int /\ r[Consumer] \in Int
  BY Numbers DEF IInv, TypeOK, BufferInv, Timed, BufferTypeOK, ThreadsTypeOK
<1>2. Going(Producer) => produced_until = r[Producer] /\ r[Producer] < consumed_until + BUFFER_SIZE
  BY <1>1, Numbers DEF CountsInv, Done, Going, MayGo
<1>3. Going(Consumer) => consumed_until = r[Consumer] /\ r[Consumer] < produced_until
  BY <1>1, Numbers DEF CountsInv, Done, Going, MayGo
<1>4. ASSUME Going(Producer), NEW n \in Rounds, consumed_until <= n, n < produced_until
      PROVE  n % BUFFER_SIZE # r[Producer] % BUFFER_SIZE
  <2>1. n \in Int /\ r[Producer] < n + BUFFER_SIZE
    BY <1>1, <1>2, <1>4, SlotTyped, Numbers
  <2> QED  BY <1>1, <1>2, <1>4, <2>1, SlotsApart
<1>5. ASSUME Going(Consumer), NEW n \in Rounds, n = r[Consumer]
      PROVE  buffer[n % BUFFER_SIZE] = Both(Datum(n))
  BY <1>1, <1>3, <1>5, SlotTyped DEF DataInv
<1> QED  BY <1>1, <1>2, <1>3, <1>4, <1>5

(* What arrives in the buffer stays there until it has been consumed. *)
LEMMA DataStep ==
  ASSUME IInv, NEW t \in Tids, ProCon2(t) \/ ProCon3(t) \/ ProCon4(t)
  PROVE  DataInv'
<1> DEFINE P == Producer
           C == Consumer
           Here(u, l) == pc[u] = l
<1>1. /\ program \in Timed /\ t \in {P, C} /\ r[t] \in Rounds /\ P # C
      /\ Prepares(t) \/ Starts(t) \/ CopiesOne(t) \/ CopiesOther(t) \/ Publishes(t) \/ Finishes(t)
  BY RoundSteps, Numbers DEF IInv, TypeOK
<1>2. /\ ThreadsTypeOK /\ Lives /\ BufferTypeOK /\ CountsInv /\ DataInv
      /\ produced_until \in Int /\ consumed_until \in Int /\ Rounds \subseteq Int
  BY <1>1, DataParts, SlotTyped
<1>3. \A u \in {P, C} : pc[u] \in {"half1", "half2", "publish"} => r[u] \in Rounds
  <2>1. ASSUME NEW u \in {P, C}, pc[u] \in {"half1", "half2", "publish"} PROVE r[u] \in Rounds
    <3>1. u \in Tids /\ pc[u] \in Steps
      BY <1>2, <2>1, Numbers DEF Lives
    <3> QED  BY <1>2, <3>1, InRound
  <2> QED  BY <2>1
<1>4. \A n \in Rounds : n % BUFFER_SIZE \in Slots
  BY SlotTyped
<1>5. CASE /\ UNCHANGED bufferVars /\ pc'[t] \notin {"half2", "publish"}
           /\ \A u \in {P, C} \ {t} : pc'[u] = pc[u] /\ r'[u] = r[u]
  BY <1>1, <1>2, <1>5 DEF DataInv, bufferVars, Slot
<1>6. CASE Prepares(t)
  <2>1. PICK l \in {"acquire", "poll", "asleep"} : Goto(t, l)
    BY <1>6 DEF Prepares
  <2>2. /\ pc'[t] = l /\ \A u \in {P, C} \ {t} : pc'[u] = pc[u] /\ r'[u] = r[u]
    BY <1>1, <1>2, <2>1, RoundMoves
  <2> QED  BY <1>5, <1>6, <2>2 DEF Prepares
<1>7. CASE Starts(t)
  <2>1. pc'[t] = "half1" /\ \A u \in {P, C} \ {t} : pc'[u] = pc[u] /\ r'[u] = r[u]
    BY <1>1, <1>2, <1>7, RoundMoves DEF Starts
  <2> QED  BY <1>5, <1>7, <2>1 DEF Starts
<1>8. CASE Finishes(t)
  <2>1. CASE Goto(t, "wake")
    BY <1>1, <1>2, <1>5, <1>8, <2>1, RoundMoves DEF Finishes
  <2>2. CASE NextRound(t)
    BY <1>1, <1>2, <1>5, <1>8, <2>2, RoundMoves DEF Finishes
  <2> QED  BY <1>8, <2>1, <2>2 DEF Finishes
<1>9. ASSUME NEW h \in {"half1", "half2"}, Copy(t, h), pc[t] = h,
             Goto(t, IF h = "half1" THEN "half2" ELSE "publish")
      PROVE  DataInv'
  <2>1. /\ pc'[t] = IF h = "half1" THEN "half2" ELSE "publish"
        /\ r' = r /\ \A u \in {P, C} \ {t} : pc'[u] = pc[u]
    <3>1. PICK l \in {"half2", "publish"} :
            Goto(t, l) /\ l = IF h = "half1" THEN "half2" ELSE "publish"
      BY <1>9
    <3> QED  BY <1>1, <1>2, <3>1, RoundMoves DEF Goto
  <2>2. h \in Halves /\ Going(t) /\ Halves = {"half1", "half2"}
    BY <1>9 DEF Halves, Going
  <2>3. CASE t = P
    <3> DEFINE p == r[P]
               i == p % BUFFER_SIZE
    <3>1. /\ BufferTypeOK' /\ UNCHANGED <<produced_until, consumed_until, consumed>>
          /\ produced'[p] = Datum(p) /\ \A n \in Rounds \ {p} : produced'[n] = produced[n]
          /\ \A j \in Slots \ {i} : buffer'[j] = buffer[j]
          /\ buffer'[i][h] = Datum(p) /\ \A g \in Halves \ {h} : buffer'[i][g] = buffer[i][g]
      BY <1>1, <1>2, <1>9, <2>2, <2>3, CopyInStep DEF Copy
    <3>2. /\ produced_until = p /\ p \in Rounds /\ i \in Slots
          /\ \A n \in Rounds : consumed_until <= n /\ n < produced_until => n % BUFFER_SIZE # i
      BY <1>1, <1>4, <2>2, <2>3, DataParts
    <3> HIDE DEF p, i
    <3>3. \A n \in Rounds :
            /\ n < produced_until => produced'[n] = Datum(n)
            /\ n < consumed_until => consumed'[n] = Both(Datum(n))
            /\ consumed_until <= n /\ n < produced_until =>
                 buffer'[n % BUFFER_SIZE] = Both(Datum(n))
      BY <1>2, <1>4, <3>1, <3>2 DEF DataInv
    <3>4. pc'[P] = "publish" => buffer'[i] = Both(Datum(p))
      <4>1. ASSUME pc'[P] = "publish" PROVE \A g \in Halves : buffer'[i][g] = Datum(p)
        <5>1. h = "half2" /\ buffer[i]["half1"] = Datum(p)
          BY <1>2, <1>9, <2>1, <2>3, <4>1 DEF DataInv, Slot, p, i
        <5> QED  BY <2>2, <3>1, <5>1
      <4>2. buffer'[i] \in [Halves -> 0 .. RUNS]
        BY <3>1, <3>2 DEF BufferTypeOK
      <4> QED  BY <4>1, <4>2, BothHalves
    <3>5. pc'[P] = "half2" => buffer'[i]["half1"] = Datum(p)
      BY <1>9, <2>1, <2>3, <3>1
    <3>6. /\ pc'[C] = "half2" => consumed'[r[C]]["half1"] = Datum(r[C])
          /\ pc'[C] = "publish" => consumed'[r[C]] = Both(Datum(r[C]))
      BY <1>1, <1>2, <2>1, <2>3, <3>1 DEF DataInv
    <3> QED  BY <2>1, <3>1, <3>3, <3>4, <3>5, <3>6 DEF DataInv, Slot, p, i
  <2>4. CASE t = C
    <3> DEFINE c == r[C]
               i == c % BUFFER_SIZE
    <3>1. /\ BufferTypeOK' /\ UNCHANGED <<produced_until, consumed_until, produced, buffer>>
          /\ \A n \in Rounds \ {c} : consumed'[n] = consumed[n]
          /\ consumed'[c][h] = buffer[i][h]
          /\ \A g \in Halves \ {h} : consumed'[c][g] = consumed[c][g]
      BY <1>1, <1>2, <1>9, <2>2, <2>4, CopyOutStep DEF Copy
    <3>2. consumed_until = c /\ c \in Rounds /\ i \in Slots /\ buffer[i] = Both(Datum(c))
      BY <1>1, <1>4, <2>2, <2>4, DataParts
    <3>3. consumed'[c][h] = Datum(c)
      BY <2>2, <3>1, <3>2 DEF Both
    <3> HIDE DEF c, i
    <3>4. \A n \in Rounds :
            /\ n < produced_until => produced'[n] = Datum(n)
            /\ n < consumed_until => consumed'[n] = Both(Datum(n))
            /\ consumed_until <= n /\ n < produced_until =>
                 buffer'[n % BUFFER_SIZE] = Both(Datum(n))
      BY <1>2, <3>1, <3>2 DEF DataInv
    <3>5. pc'[C] = "publish" => consumed'[c] = Both(Datum(c))
      <4>1. ASSUME pc'[C] = "publish" PROVE \A g \in Halves : consumed'[c][g] = Datum(c)
        <5>1. h = "half2" /\ consumed[c]["half1"] = Datum(c)
          BY <1>2, <1>9, <2>1, <2>4, <4>1 DEF DataInv, c
        <5> QED  BY <2>2, <3>1, <3>3, <5>1
      <4>2. consumed'[c] \in [Halves -> 0 .. RUNS]
        BY <3>1, <3>2 DEF BufferTypeOK
      <4> QED  BY <4>1, <4>2, BothHalves
    <3>6. pc'[C] = "half2" => consumed'[c]["half1"] = Datum(c)
      BY <1>9, <2>1, <2>4, <3>3
    <3>7. /\ pc'[P] = "half2" => buffer'[Slot(P)]["half1"] = Datum(r[P])
          /\ pc'[P] = "publish" =>
               buffer'[Slot(P)] = Both(Datum(r[P])) /\ produced'[r[P]] = Datum(r[P])
      BY <1>1, <1>2, <2>1, <2>4, <3>1 DEF DataInv
    <3> QED  BY <2>1, <3>1, <3>4, <3>5, <3>6, <3>7 DEF DataInv, Slot, c
  <2> QED  BY <1>1, <2>3, <2>4
<1>10. CASE CopiesOne(t) \/ CopiesOther(t)
  BY <1>9, <1>10 DEF CopiesOne, CopiesOther
<1>11. CASE Publishes(t)
  <2>1. /\ pc'[t] \notin {"half2", "publish"}
        /\ \A u \in {P, C} \ {t} : pc'[u] = pc[u] /\ r'[u] = r[u]
    <3>1. CASE Goto(t, "release")
      BY <1>1, <1>2, <3>1, RoundMoves
    <3>2. CASE NextRound(t)
      BY <1>1, <1>2, <3>2, RoundMoves
    <3> QED  BY <1>11, <3>1, <3>2 DEF Publishes
  <2>2. /\ produced_until' = IF t = P THEN produced_until + 1 ELSE produced_until
        /\ consumed_until' = IF t = C THEN consumed_until + 1 ELSE consumed_until
        /\ UNCHANGED <<buffer, produced, consumed>> /\ pc[t] = "publish" /\ Going(t)
    BY <1>11 DEF Publishes, Publish, Going
  <2>3. ASSUME NEW n \in Rounds
        PROVE  /\ n < produced_until' => produced[n] = Datum(n)
               /\ n < consumed_until' => consumed[n] = Both(Datum(n))
               /\ consumed_until' <= n /\ n < produced_until' => buffer[n % BUFFER_SIZE] = Both(Datum(n))
    <3>1. /\ n < produced_until => produced[n] = Datum(n)
          /\ n < consumed_until => consumed[n] = Both(Datum(n))
          /\ consumed_until <= n /\ n < produced_until => buffer[n % BUFFER_SIZE] = Both(Datum(n))
          /\ n \in Int
      BY <1>2 DEF DataInv
    <3>2. CASE t = P
      <4>1. produced_until = r[P] /\ consumed_until' = consumed_until
        BY <1>1, <2>2, <3>2, DataParts
      <4>2. n = r[P] => produced[n] = Datum(n) /\ buffer[n % BUFFER_SIZE] = Both(Datum(n))
        BY <1>2, <2>2, <3>2 DEF DataInv, Slot
      <4> QED  BY <1>2, <2>2, <3>1, <3>2, <4>1, <4>2
    <3>3. CASE t = C
      <4>1. consumed_until = r[C] /\ produced_until' = produced_until
        BY <1>1, <2>2, <3>3, DataParts
      <4>2. n = r[C] => consumed[n] = Both(Datum(n))
        BY <1>2, <2>2, <3>3 DEF DataInv
      <4> QED  BY <1>1, <1>2, <2>2, <3>1, <3>3, <4>1, <4>2
    <3> QED  BY <1>1, <3>2, <3>3
  <2>4. \A u \in {P, C} \ {t} :
          (pc'[u] = pc[u] /\ Slot(u)' = Slot(u) /\ r'[u] = r[u]) \/ pc'[u] \notin {"half2", "publish"}
    BY <2>1 DEF Slot
  <2> QED  BY <1>1, <1>2, <2>1, <2>2, <2>3, <2>4 DEF DataInv
<1> QED  BY <1>1, <1>6, <1>7, <1>8, <1>10, <1>11

LEMMA ProConStep ==
  ASSUME IInv, NEW t \in Tids, ProduceOrConsume(t)
  PROVE  BufferTypeOK' /\ BufferInv'
<1>1. CASE ProCon1(t)
  <2>1. /\ program' = program /\ program = "procon1" /\ t \in {Producer, Consumer} /\ r[t] \in Rounds
        /\ BufferTypeOK
        /\ \E h \in Halves : Copy(t, h)
    <3>1. /\ program' = program /\ program = "procon1" /\ pc[t] \in Steps
          /\ \E h \in Halves : Copy(t, h)
      BY <1>1 DEF ProCon1, Runs, Steps, Halves
    <3>2. r[t] \in Rounds /\ t \in Team
      BY <3>1, InRound DEF IInv, TypeOK
    <3> QED  BY <3>1, <3>2 DEF Team, ProCons, IInv, TypeOK
  <2> QED  BY <2>1, CopyTyped DEF IInv, BufferInv
<1>2. CASE ProCon2(t) \/ ProCon3(t) \/ ProCon4(t)
  <2>1. program \in Timed /\ program' = program
    BY <1>2, RoundSteps DEF IInv, TypeOK
  <2> QED  BY <1>2, <2>1, CountsStep, DataStep DEF BufferInv, Timed
<1> QED  BY <1>1, <1>2 DEF ProduceOrConsume

-----------------------------------------------------------------------------
(* main, and the invariant                                                 *)

LEMMA InvInit ==
  ASSUME Init
  PROVE  IInv
<1> USE DEF Init, ThreadsInit, CountingInit, BufferInit
<1>1. /\ program \in Programs /\ Cardinality(Team) \in 1 .. THREADS
      /\ 0 \in 0 .. RUNS * THREADS
  BY TeamSize, Numbers
<1>2. ThreadsTypeOK
  BY <1>1, Numbers DEF ThreadsTypeOK
<1>3. CountingTypeOK
  BY <1>1, Numbers DEF CountingTypeOK
<1>4. BufferTypeOK
  BY Numbers DEF BufferTypeOK, Both
<1>5. Lives
  BY <1>1, Numbers DEF Lives, Tids
<1>6. OneInside /\ Verdict
  BY Numbers DEF OneInside, Inside, Verdict
<1>7. CounterInv
  <2>1. Increments = {}
    BY Numbers DEF Increments, Rounds
  <2> QED  BY <2>1, FS_EmptySet DEF CounterInv
<1>8. LeaderInv
  <2>1. \A n \in Rounds : Passed(n) = {} /\ ~Uncounted(n)
    BY Numbers DEF Passed, Uncounted, Rounds
  <2>2. Cardinality({}) = 0
    BY FS_EmptySet
  <2> QED  BY <2>1, <2>2 DEF LeaderInv
<1>9. BufferInv
  <2>1. \A n \in Rounds : ~(n < 0)
    BY Numbers DEF Rounds
  <2> QED  BY <2>1, Numbers DEF BufferInv, CountsInv, DataInv, Done, Going, Producer, Consumer, Tids
<1> QED  BY <1>2, <1>3, <1>4, <1>5, <1>6, <1>7, <1>8, <1>9 DEF IInv, TypeOK

(* A thread that begins is at the top of a round and has done nothing yet. *)
LEMMA CreateStep ==
  ASSUME IInv, Create, UNCHANGED <<countingVars, bufferVars>>
  PROVE  IInv'
<1> DEFINE t == created + 1
<1>1. /\ TypeOK /\ ThreadsTypeOK /\ Lives /\ OneInside
      /\ UNCHANGED <<program, verdict, r, owner, sleeping>> /\ created' = created + 1
      /\ pc' = [pc EXCEPT ![t] = Top] /\ created < Cardinality(Team)
  BY DEF IInv, TypeOK, Create
<1>2. /\ t \in Tids /\ created \in Int /\ t <= Cardinality(Team) /\ Cardinality(Team) \in 1 .. THREADS
      /\ Team' = Team /\ Steps' = Steps /\ Tids \subseteq Int
  <2>1. created \in Nat /\ Cardinality(Team) \in 1 .. THREADS /\ THREADS \in Nat
    BY <1>1, TeamSize, Numbers DEF ThreadsTypeOK
  <2>2. Team' = Team /\ Steps' = Steps
    BY <1>1 DEF Team, Steps
  <2> QED  BY <1>1, <2>1, <2>2 DEF Tids
<1>3. pc[t] = "unborn" /\ r[t] = 0
  BY <1>1, <1>2 DEF Lives
<1>4. /\ Top \in Steps \ {"count", "claim", "write", "release", "wake", "half2", "publish"}
      /\ (program \in Locked => Top \notin Inside)
      /\ Top \notin {"unborn", "exit", "half1"} \/ program \notin Timed
      /\ Top \in {"acquire", "read", "update", "test", "poll", "half1"}
  BY <1>1, TopIsStep DEF ThreadsTypeOK, Top, Timed, Programs, Counters, Elections, ProCons
<1> HIDE DEF t
<1>5. /\ \A u \in Tids \ {t} : pc'[u] = pc[u]
      /\ pc'[t] = Top
  BY <1>1, <1>2 DEF ThreadsTypeOK
<1>6. TypeOK'
  BY <1>1, <1>2, <1>4
     DEF TypeOK, ThreadsTypeOK, CountingTypeOK, BufferTypeOK, countingVars, bufferVars, Tids, t
<1>7. Lives'
  <2>1. created' <= Cardinality(Team)'
    BY <1>1, <1>2 DEF t
  <2>2. ASSUME NEW u \in Tids, u # t PROVE created' < u <=> created < u
    BY <1>1, <1>2, <2>2 DEF t
  <2>3. ~(created' < t) /\ 0 # RUNS
    BY <1>1, <1>2, Numbers DEF t
  <2> QED  BY <1>1, <1>2, <1>3, <1>4, <1>5, <2>1, <2>2, <2>3 DEF Lives
<1>8. OneInside' /\ Verdict'
  BY <1>1, <1>2, <1>3, <1>4, <1>5 DEF OneInside, IInv, Verdict, Inside
<1>9. CounterInv'
  <2>1. Increments' = Increments
    BY <1>1, <1>3, <1>4, <1>5 DEF Increments
  <2> QED  BY <1>1, <1>4, <1>5, <2>1 DEF IInv, CounterInv, countingVars
<1>10. LeaderInv'
  <2>1. \A n \in Rounds : Passed(n)' = Passed(n) /\ (Uncounted(n)' <=> Uncounted(n))
    BY <1>1, <1>3, <1>4, <1>5 DEF Passed, Uncounted, countingVars
  <2> QED  BY <1>1, <1>4, <1>5, <2>1 DEF IInv, LeaderInv, countingVars
<1>11. BufferInv'
  <2>1. ASSUME program \in Timed PROVE CountsInv' /\ DataInv'
    <3>1. CountsInv /\ DataInv
      BY <2>1 DEF IInv, BufferInv, Timed
    <3>2. \A u \in {Producer, Consumer} : Done(u)' = Done(u) /\ (Going(u)' <=> Going(u))
      BY <1>1, <1>3, <1>4, <1>5, <2>1, Numbers DEF Done, Going
    <3>3. CountsInv'
      BY <1>1, <3>1, <3>2 DEF CountsInv, MayGo, bufferVars
    <3>4. \A u \in {Producer, Consumer} : \A l \in {"half2", "publish"} : pc'[u] = l => pc[u] = l
      BY <1>3, <1>4, <1>5, Numbers
    <3>5. DataInv'
      BY <1>1, <3>1, <3>4 DEF DataInv, Slot, bufferVars
    <3> QED  BY <3>3, <3>5
  <2> QED  BY <1>1, <2>1 DEF IInv, BufferInv, Timed, bufferVars
<1> QED  BY <1>6, <1>7, <1>8, <1>9, <1>10, <1>11 DEF IInv

(* When all threads have exited, the correct programs have made all their  *)
(* increments, elected a leader in every round, and consumed every datum.  *)
LEMMA AllExited ==
  ASSUME IInv, program \in Correct, created = Cardinality(Team), \A t \in Team : pc[t] = "exit"
  PROVE  LooksCorrect
<1>1. /\ ThreadsTypeOK /\ Lives /\ Team \subseteq Tids
      /\ \A t \in Team : r[t] = RUNS
      /\ program \in {"counter2", "counter4", "election2", "election4"} => Team = Tids
      /\ program \in {"procon2", "procon3", "procon4"} => Team = {Producer, Consumer}
  BY TeamSize, Numbers DEF IInv, TypeOK, ThreadsTypeOK, Lives, Team, ProCons
<1>2. CASE program \in {"counter2", "counter4"}
  <2>1. \A t \in Tids, n \in Rounds : n < r[t]
    BY <1>1, <1>2, Numbers DEF Rounds
  <2>2. Increments = Tids \X Rounds
    BY <2>1 DEF Increments
  <2>3. Cardinality(Tids \X Rounds) = RUNS * THREADS
    BY CountIncrements
  <2> QED  BY <1>2, <2>2, <2>3
           DEF IInv, CounterInv, LooksCorrect, CountedUp, Counters, Elections, ProCons
<1>3. CASE program \in {"election2", "election4"}
  <2>1. \A t \in Tids : r[t] = RUNS /\ pc[t] = "exit"
    BY <1>1, <1>3
  <2>2. \A n \in Rounds : Producer \in Passed(n) /\ ~Uncounted(n)
    BY <2>1, Numbers DEF Passed, Uncounted, Rounds
  <2>3. \A n \in Rounds : nb_leaders[n] = 1
    BY <1>3, <2>2 DEF IInv, LeaderInv
  <2> QED  BY <1>3, <2>3 DEF LooksCorrect, OneLeaderEach, Counters, Elections, ProCons
<1>4. CASE program \in {"procon2", "procon3", "procon4"}
  <2>1. produced_until = RUNS /\ consumed_until = RUNS
    BY <1>1, <1>4 DEF IInv, BufferInv, CountsInv, Done
  <2>2. \A n \in Rounds : n < RUNS
    BY Numbers DEF Rounds
  <2>3. \A n \in Rounds : produced[n] = Datum(n) /\ consumed[n] = Both(Datum(n))
    BY <1>4, <2>1, <2>2 DEF IInv, BufferInv, DataInv
  <2> QED  BY <1>4, <2>3 DEF LooksCorrect, AllSame, Counters, Elections, ProCons
<1> QED  BY <1>2, <1>3, <1>4 DEF Correct

LEMMA InvNext ==
  ASSUME IInv, [Next]_vars
  PROVE  IInv'
<1>1. CASE Create /\ UNCHANGED <<countingVars, bufferVars>>
  BY <1>1, CreateStep
<1>2. CASE UNCHANGED <<program, created, pc, r, countingVars, bufferVars>>
           /\ Verdict' /\ OneInside' /\ ThreadsTypeOK'
  <2>1. TypeOK' /\ Lives'
    BY <1>2 DEF IInv, TypeOK, CountingTypeOK, BufferTypeOK, countingVars, bufferVars,
                Lives, Team, Steps
  <2>2. CounterInv' /\ LeaderInv'
    BY <1>2 DEF IInv, CounterInv, LeaderInv, Increments, Passed, Uncounted, countingVars
  <2>3. BufferInv'
    BY <1>2 DEF IInv, BufferInv, CountsInv, DataInv, Done, Going, MayGo, Slot, bufferVars
  <2> QED  BY <1>2, <2>1, <2>2, <2>3 DEF IInv
<1>3. CASE JoinAndCheck(LooksCorrect) /\ UNCHANGED <<countingVars, bufferVars>>
  <2>1. UNCHANGED <<program, created, pc, r, owner, sleeping>>
    BY <1>3 DEF JoinAndCheck
  <2>2. Verdict'
    BY <1>3, <2>1, AllExited DEF JoinAndCheck, Verdict, Correct
  <2>3. OneInside' /\ ThreadsTypeOK'
    BY <1>3, <2>1 DEF IInv, TypeOK, ThreadsTypeOK, OneInside, JoinAndCheck
  <2> QED  BY <1>2, <1>3, <2>1, <2>2, <2>3
<1>4. ASSUME NEW t \in Tids, WakesAlone(t) PROVE IInv'
  <2>1. UNCHANGED <<program, created, pc, r, verdict, owner>> /\ sleeping' \subseteq sleeping
    BY <1>4 DEF WakesAlone, SpuriousWakeUp
  <2>2. Verdict' /\ OneInside' /\ ThreadsTypeOK'
    BY <2>1 DEF IInv, TypeOK, ThreadsTypeOK, OneInside, Verdict
  <2> QED  BY <1>2, <1>4, <2>1, <2>2 DEF WakesAlone
<1>5. CASE UNCHANGED vars
  <2>1. Verdict' /\ OneInside' /\ ThreadsTypeOK'
    BY <1>5 DEF vars, threadVars, IInv, TypeOK, ThreadsTypeOK, OneInside, Verdict
  <2> QED  BY <1>2, <1>5, <2>1 DEF vars, threadVars
<1>6. ASSUME NEW t \in Tids, Thread(t) PROVE IInv'
  <2>1. /\ Walks(t) /\ Locks(t) /\ program' = program
        /\ ThreadsTypeOK' /\ Lives' /\ OneInside' /\ Verdict'
    BY <1>6, ThreadWalks, ThreadsStep DEF IInv, TypeOK, Walks
  <2>2. CASE (Counter1(t) \/ Counter2(t) \/ Counter3(t) \/ Counter4(t)) /\ UNCHANGED bufferVars
    <3>1. program \in Counters
      BY <2>2 DEF Counter1, Counter2, Counter3, Counter4, Runs, Counters
    <3>2. CountingTypeOK' /\ CounterInv'
      BY <2>2, CounterStep
    <3>3. LeaderInv'
      BY <2>1, <3>1 DEF LeaderInv, Counters
    <3>4. BufferTypeOK' /\ BufferInv'
      BY <2>1, <2>2, <3>1 DEF IInv, TypeOK, BufferTypeOK, BufferInv, bufferVars, Counters
    <3> QED  BY <2>1, <3>2, <3>3, <3>4 DEF IInv, TypeOK
  <2>3. CASE (Election1(t) \/ Election2(t) \/ Election3(t) \/ Election4(t)) /\ UNCHANGED bufferVars
    <3>1. program \in Elections
      BY <2>3 DEF Election1, Election2, Election3, Election4, Runs, Elections
    <3>2. CountingTypeOK' /\ LeaderInv'
      BY <2>3, OpenElectionStep, GuardedElectionStep
    <3>3. CounterInv'
      BY <2>1, <3>1 DEF CounterInv, Elections
    <3>4. BufferTypeOK' /\ BufferInv'
      BY <2>1, <2>3, <3>1 DEF IInv, TypeOK, BufferTypeOK, BufferInv, bufferVars, Elections
    <3> QED  BY <2>1, <3>2, <3>3, <3>4 DEF IInv, TypeOK
  <2>4. CASE ProduceOrConsume(t) /\ UNCHANGED countingVars
    <3>1. program \in ProCons
      BY <2>4 DEF ProduceOrConsume, ProCon1, ProCon2, ProCon3, ProCon4, Work, Runs, ProCons
    <3>2. BufferTypeOK' /\ BufferInv'
      BY <2>4, ProConStep
    <3>3. CounterInv' /\ LeaderInv'
      BY <2>1, <3>1 DEF CounterInv, LeaderInv, ProCons
    <3>4. CountingTypeOK'
      BY <2>4 DEF IInv, TypeOK, CountingTypeOK, countingVars
    <3> QED  BY <2>1, <3>2, <3>3, <3>4 DEF IInv, TypeOK
  <2> QED  BY <1>6, <2>2, <2>3, <2>4 DEF Thread, CountOrElect
<1> QED  BY <1>1, <1>3, <1>4, <1>5, <1>6 DEF Next, Main, Ended

(* Every reachable state of each of the twelve programs has the invariant. *)
THEOREM SyncInvariant == Spec => []IInv
<1>1. Init => IInv
  BY InvInit
<1>2. IInv /\ [Next]_vars => IInv'
  BY InvNext
<1> QED  BY <1>1, <1>2, PTL DEF Spec

(* Every variable keeps its type: in particular counter, which counter1    *)
(* and counter3 write from a stale copy, never exceeds RUNS * THREADS.     *)
THEOREM TypesKept == Spec => []TypeOK
<1>1. IInv => TypeOK
  BY DEF IInv
<1> QED  BY <1>1, SyncInvariant, PTL

(* The seven programs that their comments call correct never find their    *)
(* own check failed, whatever the interleaving of their threads.           *)
THEOREM CorrectAsCommented == Spec => []CommentedCorrect
<1>1. IInv => CommentedCorrect
  BY DEF IInv, Verdict, CommentedCorrect
<1> QED  BY <1>1, SyncInvariant, PTL

(* What keeps two threads from accessing one variable without atomic type, *)
(* one of them to write it: the lock, or the atomic counts, which keep the *)
(* two ends of the buffer apart, or that nothing shared is plain.          *)
LEMMA Apart ==
  ASSUME IInv, program \in Correct, NEW t \in Team, NEW u \in Team, t # u
  PROVE  (CountingWrites(t) \cup BufferWrites(t)) \cap
           (CountingWrites(u) \cup BufferWrites(u) \cup CountingReads(u) \cup BufferReads(u)) = {}
<1>1. /\ ThreadsTypeOK /\ Lives /\ OneInside /\ t \in Tids /\ u \in Tids
      /\ pc[t] \in {"unborn", "exit"} \cup Steps /\ pc[u] \in {"unborn", "exit"} \cup Steps
  BY TeamSize DEF IInv, TypeOK, ThreadsTypeOK, Lives
<1> USE DEF CountingWrites, BufferWrites, CountingReads, BufferReads, Halves
<1>2. CASE program \in {"counter4", "election4"}
  <2>1. \A v \in {t, u} : CountingWrites(v) = {} /\ BufferWrites(v) = {}
    BY <1>1, <1>2 DEF Steps
  <2> QED  BY <2>1
<1>3. CASE program \in Locked
  <2>1. ~(pc[t] \in Inside /\ pc[u] \in Inside)
    BY <1>1, <1>3 DEF OneInside
  <2>2. \A v \in {t, u} : pc[v] \notin Inside =>
          /\ CountingWrites(v) = {} /\ BufferWrites(v) = {}
          /\ CountingReads(v) = {} /\ BufferReads(v) = {}
    BY DEF Inside
  <2> QED  BY <2>1, <2>2
<1>4. CASE program = "procon3"
  <2>1. \A v \in {t, u} : CountingWrites(v) = {} /\ CountingReads(v) = {}
    BY <1>4
  <2>2. {t, u} = {Producer, Consumer}
    BY <1>4 DEF Team, ProCons
  <2>3. ~(pc[Producer] \in Halves /\ pc[Consumer] \in Halves /\ Slot(Producer) = Slot(Consumer))
    <3>1. SUFFICES ASSUME pc[Producer] \in Halves, pc[Consumer] \in Halves
                   PROVE  Slot(Producer) # Slot(Consumer)
      OBVIOUS
    <3>2. Going(Producer) /\ Going(Consumer) /\ program \in Timed
      BY <1>4, <3>1 DEF Going, Timed
    <3>3. /\ r[Consumer] \in Int /\ r[Producer] \in Int
          /\ r[Consumer] < r[Producer] /\ r[Producer] < r[Consumer] + BUFFER_SIZE
      BY <3>2, DataParts
    <3> QED  BY <3>3, SlotsApart DEF Slot
  <2>4. /\ BufferWrites(Producer) = IF pc[Producer] \in Halves THEN {<<"buffer", Slot(Producer)>>} ELSE {}
        /\ BufferReads(Consumer) = IF pc[Consumer] \in Halves THEN {<<"buffer", Slot(Consumer)>>} ELSE {}
        /\ BufferWrites(Consumer) = {} /\ BufferReads(Producer) = {}
    BY <1>4, Numbers
  <2>5. BufferWrites(Producer) \cap BufferReads(Consumer) = {}
    BY <2>3, <2>4
  <2> QED  BY <2>1, <2>2, <2>4, <2>5
<1> QED  BY <1>2, <1>3, <1>4 DEF Correct, Locked

(* In the programs called correct no two threads are ever about to access  *)
(* one plain variable or slot, one of them to write it.                    *)
THEOREM NoneAtOnceInCorrect == Spec => []NoSimultaneousAccess
<1>1. IInv => NoSimultaneousAccess
  BY Apart DEF NoSimultaneousAccess
<1> QED  BY <1>1, SyncInvariant, PTL

=============================================================================
