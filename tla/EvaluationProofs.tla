--------------------------- MODULE EvaluationProofs ---------------------------
(***************************************************************************)
(* The steps of Evaluation.tla keep the invariant of EvaluationInv.tla:    *)
(* those of the barrier, then those of a measurement, then those of main.  *)
(* So every reachable state has it, for any number of workers, rounds and  *)
(* libraries, and whatever fails, throws or hangs.                         *)
(***************************************************************************)
EXTENDS EvaluationInv, FiniteSetTheorems, TLAPS

(* Counting workers. *)
LEMMA Count ==
  ASSUME NEW S \in SUBSET Workers
  PROVE  /\ Cardinality(S) \in Nat /\ Cardinal \in Nat \ {0} /\ Cardinality(S) <= Cardinal
         /\ Cardinality(S) = Cardinal <=> S = Workers
         /\ Cardinality(S) = 0 <=> S = {}
         /\ \A w \in Workers :
              /\ w \notin S => Cardinality(S \cup {w}) = Cardinality(S) + 1
              /\ w \in S => Cardinality(S \ {w}) = Cardinality(S) - 1
<1>1. IsFiniteSet(Workers) /\ IsFiniteSet(S) /\ IsFiniteSet({})
  BY WorkersAssumption, FS_Subset, FS_EmptySet
<1>2. /\ Cardinality(S) \in Nat /\ Cardinality(Workers) \in Nat
      /\ Cardinality(S) <= Cardinality(Workers)
      /\ Cardinality(S) = Cardinality(Workers) => S = Workers
  BY <1>1, FS_Subset, FS_CardinalityType
<1>3. Cardinality(S) = 0 <=> S = {}
  BY <1>1, FS_EmptySet
<1>4. Cardinality(Workers) # 0
  BY <1>1, WorkersAssumption, FS_EmptySet
<1>5. ASSUME NEW w \in Workers
      PROVE  /\ w \notin S => Cardinality(S \cup {w}) = Cardinality(S) + 1
             /\ w \in S => Cardinality(S \ {w}) = Cardinality(S) - 1
  BY <1>1, FS_AddElement, FS_RemoveElement
<1> QED  BY <1>2, <1>3, <1>4, <1>5 DEF Cardinal

-----------------------------------------------------------------------------
(* The barrier                                                             *)

LEMMA BarrierStart ==
  ASSUME BarrierInit
  PROVE  BarrierInv
<1>1. Inside = {}
  BY DEF BarrierInit, Inside
<1>2. 0 \in 0 .. Cardinal /\ Cardinality(Inside) = 0
  BY <1>1, Count
<1> QED  BY <1>1, <1>2, WorkersAssumption DEF BarrierInit, BarrierInv, BarrierTypeOK, Halves, Turns

(* A thread comes out of sync(). *)
GetOut(w) == at[w] = "done" /\ Move(w, "out") /\ UNCHANGED <<step, mode, entered, left>>

LEMMA EnterStep ==
  ASSUME BarrierInv, NEW w \in Workers, Enter(w)
  PROVE  BarrierInv'
<1> USE DEF BarrierInv, BarrierTypeOK, Halves, Move
<1>1. /\ mode = "enter" /\ mode' = "enter" /\ at[w] = "out" /\ w \notin Inside /\ left' = left
      /\ Inside \in SUBSET Workers /\ step = Cardinality(Inside)
      /\ \A u \in Workers : at[u] # "open"
  BY DEF Enter, Inside
<1>2. /\ Inside' = Inside \cup {w} /\ \A u \in Workers \ {w} : at'[u] = at[u]
      /\ at'[w] = IF step + 1 = Cardinal THEN "open" ELSE "wait"
      /\ at' \in [Workers -> {"out", "wait", "open", "leave", "drain", "close", "done"}]
  BY DEF Enter, Inside
<1>3. /\ step' = Cardinality(Inside') /\ step' \in 0 .. Cardinal
      /\ step + 1 = Cardinal <=> Inside' = Workers
  <2>1. step + 1 = Cardinality(Inside \cup {w}) /\ Inside \cup {w} \in SUBSET Workers
    BY <1>1, Count
  <2>2. \A S \in SUBSET Workers :
          Cardinality(S) \in 0 .. Cardinal /\ (Cardinality(S) = Cardinal <=> S = Workers)
    BY Count
  <2>3. step' = Cardinality(Inside') /\ Inside' \in SUBSET Workers
    BY <1>2, <2>1 DEF Enter
  <2>4. step' \in 0 .. Cardinal /\ (step' = Cardinal <=> Inside' = Workers)
    BY <2>2, <2>3
  <2> QED  BY <2>3, <2>4 DEF Enter
<1>4. Halves'
  <2>1. at'[w] = "open" => \A u \in Workers \ {w} : at'[u] = "wait"
    BY <1>1, <1>2, <1>3 DEF Inside
  <2> QED  BY <1>1, <1>2, <1>3, <2>1
<1>5. /\ entered' \in [Workers -> Nat] /\ entered'[w] = entered[w] + 1
      /\ \A u \in Workers \ {w} : entered'[u] = entered[u]
  BY DEF Enter
<1>6. Turns'
  BY <1>1, <1>2, <1>5 DEF Turns
<1> QED  BY <1>1, <1>2, <1>3, <1>4, <1>5, <1>6

LEMMA LetThroughStep ==
  ASSUME BarrierInv, NEW w \in Workers, SetLeave(w) \/ SeeLeave(w)
  PROVE  BarrierInv'
<1> USE DEF BarrierInv, BarrierTypeOK, Halves, Move, SetLeave, SeeLeave, LetThrough
<1>1. /\ at[w] \in {"wait", "open"} /\ mode' = "leave" /\ step' = step /\ entered' = entered
      /\ at[w] = "open" => mode = "enter" /\ \A u \in Workers \ {w} : at[u] = "wait"
      /\ at[w] = "wait" => mode = "leave"
  OBVIOUS
<1>2. /\ at'[w] = "leave" /\ \A u \in Workers \ {w} : at'[u] = at[u]
      /\ at' \in [Workers -> {"out", "wait", "open", "leave", "drain", "close", "done"}]
  OBVIOUS
<1>3. Inside' = Inside /\ w \in Inside
  BY <1>1, <1>2 DEF Inside
<1>4. Halves'
  <2>1. \A u \in Workers : at'[u] \in {"wait", "leave", "drain", "close"} /\ at'[u] # "open"
    BY <1>1, <1>2
  <2>2. \A u \in Workers : at'[u] # "close"
    BY <1>1, <1>2
  <2> QED  BY <1>1, <1>3, <2>1, <2>2
<1>5. /\ left' \in [Workers -> Nat] /\ left'[w] = left[w] + 1
      /\ \A u \in Workers \ {w} : left'[u] = left[u]
  OBVIOUS
<1>6. Turns'
  <2>1. \A u \in Workers : entered'[u] = left'[u] + (IF at'[u] \in {"wait", "open"} THEN 1 ELSE 0)
    BY <1>1, <1>2, <1>5 DEF Turns
  <2>2. \A u, v \in Workers : entered[u] = entered[v]
    BY <1>1 DEF Turns
  <2> QED  BY <1>1, <2>1, <2>2 DEF Turns
<1> QED  BY <1>1, <1>2, <1>3, <1>4, <1>5, <1>6

LEMMA LeaveStep ==
  ASSUME BarrierInv, NEW w \in Workers, Leave(w)
  PROVE  BarrierInv'
<1> USE DEF BarrierInv, BarrierTypeOK, Halves, Move
<1>1. /\ mode = "leave" /\ mode' = "leave" /\ at[w] = "leave" /\ w \in Inside
      /\ UNCHANGED <<entered, left>>
      /\ Inside \in SUBSET Workers /\ step = Cardinality(Inside)
      /\ \A u \in Workers : at[u] # "close" /\ at[u] # "open"
  BY DEF Leave, Inside
<1>2. /\ Inside' = Inside \ {w} /\ \A u \in Workers \ {w} : at'[u] = at[u]
      /\ at'[w] = IF step - 1 = 0 THEN "close" ELSE "drain"
      /\ at' \in [Workers -> {"out", "wait", "open", "leave", "drain", "close", "done"}]
  BY DEF Leave, Inside
<1>3. /\ step' = Cardinality(Inside') /\ step' \in 0 .. Cardinal
      /\ step - 1 = 0 <=> Inside' = {}
  <2>1. step - 1 = Cardinality(Inside \ {w}) /\ Inside \ {w} \in SUBSET Workers
    BY <1>1, Count
  <2>2. /\ Cardinality(Inside \ {w}) \in 0 .. Cardinal
        /\ Cardinality(Inside \ {w}) = 0 <=> Inside \ {w} = {}
    BY <2>1, Count
  <2> QED  BY <1>2, <2>1, <2>2 DEF Leave
<1>4. Halves'
  <2>1. at'[w] = "close" => \A u \in Workers \ {w} : at'[u] = "drain"
    BY <1>1, <1>2, <1>3 DEF Inside
  <2> QED  BY <1>1, <1>2, <1>3, <2>1
<1>5. Turns'
  BY <1>1, <1>2 DEF Turns
<1> QED  BY <1>1, <1>2, <1>3, <1>4, <1>5

LEMMA OutStep ==
  ASSUME BarrierInv, NEW w \in Workers, SetEnter(w) \/ SeeEnter(w) \/ GetOut(w)
  PROVE  BarrierInv'
<1> USE DEF BarrierInv, BarrierTypeOK, Halves, Move, SetEnter, SeeEnter, GetOut
<1>1. /\ mode' = "enter" /\ UNCHANGED <<step, entered, left>>
      /\ at[w] \in {"close", "drain", "done"} /\ at'[w] \in {"done", "out"}
      /\ at[w] = "close" => mode = "leave" /\ \A u \in Workers \ {w} : at[u] = "drain"
      /\ at[w] # "close" => mode = "enter"
  OBVIOUS
<1>2. /\ \A u \in Workers \ {w} : at'[u] = at[u]
      /\ at' \in [Workers -> {"out", "wait", "open", "leave", "drain", "close", "done"}]
  OBVIOUS
<1>3. Inside' = Inside /\ w \notin Inside
  BY <1>1, <1>2 DEF Inside
<1>4. Halves'
  <2>1. \A u \in Workers : at'[u] \in {"out", "wait", "open", "drain", "done"} /\ at'[u] # "close"
    BY <1>1, <1>2
  <2>2. \A u \in Workers : at'[u] # "open"
    BY <1>1, <1>2
  <2> QED  BY <1>1, <1>3, <2>1, <2>2
<1>5. Turns'
  <2>1. \A u \in Workers : entered'[u] = left'[u] + (IF at'[u] \in {"wait", "open"} THEN 1 ELSE 0)
    BY <1>1, <1>2 DEF Turns
  <2>2. \A u, v \in Workers : left[u] = left[v]
    <3>1. CASE mode = "enter"
      BY <3>1 DEF Turns
    <3>2. CASE mode = "leave"
      <4>1. \A u \in Workers : entered[u] = left[u]
        BY <1>1, <3>2 DEF Turns
      <4> QED  BY <3>2, <4>1 DEF Turns
    <3> QED  BY <3>1, <3>2
  <2> QED  BY <1>1, <2>1, <2>2 DEF Turns
<1> QED  BY <1>1, <1>2, <1>3, <1>4, <1>5

LEMMA BarrierKept ==
  ASSUME BarrierInv, NEW w \in Workers, Enter(w) \/ BarrierStep(w) \/ GetOut(w)
  PROVE  BarrierInv'
  BY EnterStep, LetThroughStep, LeaveStep, OutStep DEF BarrierStep

LEMMA BarrierAlone ==
  ASSUME BarrierInv, UNCHANGED barrierVars
  PROVE  BarrierInv'
  BY DEF barrierVars, BarrierInv, BarrierTypeOK, Halves, Turns, Inside

LEMMA BarrierSafe ==
  ASSUME BarrierInv
  PROVE  BarrierSync
<1> SUFFICES ASSUME NEW w \in Workers, NEW u \in Workers PROVE left[w] <= entered[u]
  BY DEF BarrierSync
<1>1. \A v \in Workers : left[v] \in Nat /\ entered[v] \in Nat /\ left[v] <= entered[v]
  BY DEF BarrierInv, BarrierTypeOK, Turns
<1>2. left[w] = left[u] \/ entered[w] = entered[u]
  BY DEF BarrierInv, BarrierTypeOK, Turns
<1> QED  BY <1>1, <1>2

-----------------------------------------------------------------------------
(* A measurement                                                           *)

LEMMA RoundTypes ==
  /\ Rounds \subseteq Nat /\ 1 \in Rounds /\ NbRepeats \in Nat
  /\ \A r \in Rounds : r # NbRepeats + 2 => r + 1 \in Rounds
  /\ \A r : Job(r) \in {"init", "run", "check"}
  BY GradingAssumption DEF Rounds, Job

(* The types of what a measurement changes, word by word. *)
LEMMA GradingTypes ==
  ASSUME GradingInv
  PROVE  /\ status \in {"Wait", "Run", "Abort", "Done", "Fail", "Quit"}
         /\ nbready \in Nat /\ round \in Rounds /\ round \in Nat
         /\ pc \in [Workers -> {"wait", "count", "reset", "release", "spin", "stop", "raise", "exit"}
                                 \cup AtWork]
         /\ wround \in [Workers -> {0} \cup Rounds]
         /\ outcome \in [Workers -> {"ok", "error", "throw"}]
  BY RoundTypes, GradingAssumption DEF GradingInv, GradingTypeOK, AtWork

(* Where a worker is says where the round is. *)
LEMMA StatusOf ==
  ASSUME GradingInv, NEW w \in Workers
  PROVE  /\ pc[w] \in AtWork => status \in {"Run", "Abort"} /\ wround[w] = round
         /\ pc[w] \in {"count", "reset", "release"} => status = "Wait" /\ wround[w] = round - 1
         /\ pc[w] \in {"stop", "raise"} => status \in {"Done", "Fail"} /\ wround[w] = round
         /\ pc[w] = "spin" => status \in {"Wait", "Run", "Abort"} /\ wround[w] = round - 1
<1>1. status \in {"Wait", "Run", "Abort", "Done", "Fail", "Quit"}
  BY GradingTypes
<1> USE DEF GradingInv, AtWork, Resting, BarrierCalls
<1>2. CASE status = "Wait"
  BY <1>2 DEF Gathering
<1>3. CASE status \in {"Run", "Abort"}
  BY <1>3 DEF Working
<1>4. CASE status \in {"Done", "Fail"}
  BY <1>4 DEF Decided, Between
<1>5. CASE status = "Quit"
  BY <1>5 DEF Quitting, Between
<1> QED  BY <1>1, <1>2, <1>3, <1>4, <1>5

LEMMA MeasureStart ==
  ASSUME MeasureInit, maxtick \in [Jobs -> BOOLEAN]
  PROVE  GradingInv
<1>1. BarrierInv
  BY BarrierStart DEF MeasureInit
<1>2. GradingTypeOK
  <2>1. 0 \in 0 .. Cardinal
    BY Count
  <2> QED  BY <1>1, <2>1, RoundTypes DEF MeasureInit, GradingTypeOK, BarrierInv
<1>3. Decided /\ Gathering /\ Working
  BY DEF MeasureInit, Decided, Gathering, Working, Between, Resting
<1>4. Quitting /\ Failures
  BY DEF MeasureInit, Quitting, Failures
<1> QED  BY <1>1, <1>2, <1>3, <1>4 DEF GradingInv

(* The master. *)
LEMMA MasterType ==
  ASSUME GradingInv, Master \/ LatchTimeout \/ SpawnFails
  PROVE  GradingTypeOK' /\ BarrierInv'
<1>1. BarrierInv' /\ UNCHANGED barrierVars
  <2>1. UNCHANGED barrierVars
    BY DEF Master, MasterNotify, ChronoStart, LatchWait, MasterResult, MasterJoin, Joined, LatchTimeout,
           SpawnFails
  <2> QED  BY <2>1, BarrierAlone DEF GradingInv
<1>2. BarrierTypeOK'
  BY <1>1 DEF BarrierInv
<1>0. GradingTypeOK
  BY DEF GradingInv
<1>3. CASE MasterResult
  <2>1. status \in {"Done", "Fail"}
    BY <1>3 DEF MasterResult, GradingInv, GradingTypeOK, Gathering, Working, Quitting
  <2>2. round' \in Rounds /\ mpc' \in {"notify", "join"}
    BY <1>3, <2>1, GradingTypes, RoundTypes DEF MasterResult, MGoto
  <2>3. error' \in BOOLEAN
    BY <1>3 DEF MasterResult
  <2>4. UNCHANGED <<maxtick, syncVars, workerVars>>
    BY <1>3 DEF MasterResult
  <2> QED  BY <1>0, <1>1, <1>2, <2>2, <2>3, <2>4 DEF GradingTypeOK, syncVars, workerVars
<1>4. CASE ~MasterResult
  <2>1. /\ status' \in {status, "Wait", "Quit"} /\ local' \in {local, round} /\ raised' \in {raised, FALSE}
        /\ mpc' \in {"start", "latch", "result", "joining", "returned", "threw"}
        /\ UNCHANGED <<nbready, errmsg, total, masterRest, workerVars>>
    BY <1>4 DEF Master, MasterNotify, ChronoStart, LatchWait, MasterJoin, Joined, LatchTimeout,
                SpawnFails, MGoto, syncVars
  <2>2. /\ status' \in {"Wait", "Run", "Abort", "Done", "Fail", "Quit"} /\ local' \in {0} \cup Rounds
        /\ raised' \in BOOLEAN
    BY <2>1, GradingTypes DEF GradingInv, GradingTypeOK
  <2> QED  BY <1>0, <1>1, <1>2, <2>1, <2>2 DEF GradingTypeOK, masterRest, workerVars
<1> QED  BY <1>1, <1>3, <1>4

LEMMA NotifyStep ==
  ASSUME GradingInv, MasterNotify
  PROVE  GradingInv'
<1>1. GradingTypeOK' /\ BarrierInv'
  BY MasterType DEF Master
<1>2. /\ mpc = "notify" /\ status' = "Wait" /\ mpc' = "start"
      /\ UNCHANGED <<nbready, errmsg, raised, round, error, pc, wround, outcome, failed>>
  BY DEF MasterNotify, MGoto, masterRest, workerVars
<1>3. /\ nbready = 0 /\ ~raised /\ failed = {}
      /\ \A w \in Workers : wround[w] = round - 1 /\ pc[w] = "wait"
  <2>1. status \in {"Done", "Fail"} /\ status # "Quit"
    BY <1>2, GradingTypes DEF GradingInv, Gathering, Working, Quitting
  <2>2. nbready = 0 /\ ~raised /\ failed = {} /\ Between(round - 1)
    BY <1>2, <2>1 DEF GradingInv, Decided
  <2> QED  BY <2>1, <2>2 DEF Between, Resting, GradingInv, Failures
<1>4. {w \in Workers : pc'[w] \in {"reset", "spin"}} = {}
  BY <1>2, <1>3
<1>5. Cardinality({}) = 0
  BY FS_EmptySet
<1>6. Gathering'
  BY <1>2, <1>3, <1>4, <1>5 DEF Gathering
<1>7. Working' /\ Decided' /\ Quitting' /\ Failures'
  BY <1>2, <1>3 DEF Working, Decided, Quitting, Failures, GradingInv
<1> QED  BY <1>1, <1>6, <1>7 DEF GradingInv

LEMMA ResultStep ==
  ASSUME GradingInv, MasterResult
  PROVE  GradingInv'
<1>1. GradingTypeOK' /\ BarrierInv'
  BY MasterType DEF Master
<1>2. /\ mpc = "result"
      /\ UNCHANGED <<status, nbready, errmsg, raised, pc, wround, outcome, failed>>
      /\ error' = (status = "Fail")
  BY DEF MasterResult, syncVars, workerVars
<1>3. status \in {"Done", "Fail"}
  BY <1>2, GradingTypes DEF GradingInv, Gathering, Working, Quitting
<1>4. /\ nbready = 0 /\ ~raised /\ Between(round)
      /\ status = "Fail" <=> failed # {}
  BY <1>2, <1>3 DEF GradingInv, Decided, Failures, Between, Resting
<1>5. \/ status = "Done" /\ mpc' = "notify" /\ round' = round + 1
      \/ mpc' = "join" /\ round' = round
  BY <1>3 DEF MasterResult, MGoto
<1>6. Gathering' /\ Working' /\ Quitting'
  BY <1>2, <1>3, <1>5 DEF Gathering, Working, Quitting
<1>7. Decided'
  <2>1. CASE mpc' = "notify"
    <3>1. round' - 1 = round /\ failed = {} /\ status = "Done"
      BY <1>4, <1>5, <2>1, GradingTypes
    <3> QED  BY <1>2, <1>4, <2>1, <3>1 DEF Decided, Between, Resting
  <2>2. CASE mpc' = "join"
    <3>1. round' = round /\ (status = "Fail" <=> round \in failed)
      BY <1>4, <1>5, <2>2 DEF GradingInv, Failures
    <3> QED  BY <1>2, <1>4, <2>2, <3>1 DEF Decided, Between, Resting
  <2> QED  BY <1>5, <2>1, <2>2
<1>8. Failures'
  <2>1. failed \subseteq {round'}
    BY <1>4, <1>5 DEF GradingInv, Failures
  <2> QED  BY <1>2, <1>3, <1>4, <1>5, <2>1 DEF GradingInv, Failures
<1> QED  BY <1>1, <1>6, <1>7, <1>8 DEF GradingInv

LEMMA MasterStep ==
  ASSUME GradingInv, Master \/ LatchTimeout \/ SpawnFails
  PROVE  GradingInv'
<1> USE DEF MGoto, syncVars, masterRest, workerVars
<1>1. GradingTypeOK' /\ BarrierInv'
  BY MasterType
<1>2. CASE ChronoStart
  <2>1. /\ mpc = "start" /\ mpc' = "latch"
        /\ UNCHANGED <<status, nbready, errmsg, raised, round, error, pc, wround, outcome, failed>>
    BY <1>2 DEF ChronoStart
  <2> QED  BY <1>1, <2>1
           DEF GradingInv, Gathering, Working, Decided, Quitting, Failures, Between
<1>3. CASE LatchWait
  <2>1. /\ mpc = "latch" /\ mpc' = "result" /\ raised /\ ~raised'
        /\ UNCHANGED <<status, nbready, errmsg, round, error, pc, wround, outcome, failed>>
    BY <1>3 DEF LatchWait, GradingInv, GradingTypeOK
  <2>2. status \in {"Done", "Fail"}
    BY <2>1, GradingTypes DEF GradingInv, Gathering, Working, Quitting
  <2> QED  BY <1>1, <2>1, <2>2 DEF GradingInv, Gathering, Working, Decided, Quitting, Failures, Between
<1>4. CASE LatchTimeout
  <2>1. /\ mpc = "latch" /\ mpc' = "threw" /\ ~raised
        /\ UNCHANGED <<status, nbready, errmsg, raised, round, error, pc, wround, outcome, failed>>
    BY <1>4 DEF LatchTimeout
  <2> QED  BY <1>1, <2>1
           DEF GradingInv, Gathering, Working, Decided, Quitting, Failures, Between
<1>5. CASE SpawnFails
  <2>1. /\ mpc = "notify" /\ mpc' = "threw"
        /\ UNCHANGED <<status, nbready, errmsg, raised, round, error, pc, wround, outcome, failed>>
    BY <1>5 DEF SpawnFails
  <2> QED  BY <1>1, <2>1
           DEF GradingInv, Gathering, Working, Decided, Quitting, Failures, Between
<1>6. CASE MasterJoin
  <2>1. /\ mpc = "join" /\ mpc' = "joining" /\ status' = "Quit"
        /\ UNCHANGED <<nbready, errmsg, raised, round, error, pc, wround, outcome, failed>>
    BY <1>6 DEF MasterJoin
  <2>2. status \in {"Done", "Fail"}
    BY <2>1, GradingTypes DEF GradingInv, Gathering, Working, Quitting
  <2>3. Between(round) /\ ~raised
    BY <2>1, <2>2 DEF GradingInv, Decided, Between, Resting
  <2> QED  BY <1>1, <2>1, <2>3 DEF GradingInv, Gathering, Working, Decided, Quitting, Failures, Between
<1>7. CASE Joined
  <2>1. /\ mpc = "joining" /\ mpc' = "returned"
        /\ UNCHANGED <<status, nbready, errmsg, raised, round, error, pc, wround, outcome, failed>>
    BY <1>7 DEF Joined
  <2> QED  BY <1>1, <2>1 DEF GradingInv, Gathering, Working, Decided, Quitting, Failures, Between
<1> QED  BY <1>2, <1>3, <1>4, <1>5, <1>6, <1>7, NotifyStep, ResultStep DEF Master

(* The workers. *)
LEMMA WorkerBarrier ==
  ASSUME GradingInv, NEW w \in Workers, Worker(w)
  PROVE  BarrierInv'
<1>1. CASE UNCHANGED barrierVars
  BY <1>1, BarrierAlone DEF GradingInv
<1>2. CASE CallBarrier(w) \/ InBarrier(w)
  BY <1>2, BarrierKept DEF GradingInv, CallBarrier, InBarrier
<1>3. CASE CheckInit(w) \/ CheckInitFailed(w) \/ CheckLoop(w) \/ CheckLoopFailed(w) \/ CheckFinish(w)
  <2>1. GetOut(w)
    BY <1>3 DEF CheckInit, CheckInitFailed, CheckLoop, CheckLoopFailed, CheckFinish, Returned, GetOut
  <2> QED  BY <2>1, BarrierKept DEF GradingInv
<1> QED  BY <1>1, <1>2, <1>3
         DEF Worker, Check, WorkerSeesWait, WorkerQuits, WorkerReady, ResetReady, StatusRun, WorkerSeesRun,
             InitOrRun, WorkerError, WorkerDone, LastResets, Verdict, ChronoStop, LatchRaise

(* What Goto does to the types and the places of the workers. *)
LEMMA GotoEffect ==
  ASSUME GradingInv, NEW w \in Workers,
         NEW l \in {"wait", "count", "reset", "release", "spin", "stop", "raise", "exit"} \cup AtWork,
         Goto(w, l)
  PROVE  /\ pc' \in [Workers -> {"wait", "count", "reset", "release", "spin", "stop", "raise", "exit"}
                                 \cup AtWork]
         /\ pc'[w] = l /\ \A u \in Workers \ {w} : pc'[u] = pc[u]
  BY GradingTypes DEF Goto

LEMMA TypeByParts ==
  ASSUME GradingInv, BarrierInv',
         status' \in {"Wait", "Run", "Abort", "Done", "Fail", "Quit"},
         nbready' \in 0 .. Cardinal, errmsg' \in BOOLEAN, raised' \in BOOLEAN,
         total' \subseteq ({0} \cup Rounds) \X Rounds,
         pc' \in [Workers -> {"wait", "count", "reset", "release", "spin", "stop", "raise", "exit"}
                                 \cup AtWork],
         wround' \in [Workers -> {0} \cup Rounds],
         outcome' \in [Workers -> {"ok", "error", "throw"}],
         failed' \subseteq Rounds,
         UNCHANGED <<local, masterVars>>
  PROVE  GradingTypeOK'
<1>1. GradingTypeOK /\ BarrierTypeOK'
  BY DEF GradingInv, BarrierInv
<1> QED  BY <1>1 DEF GradingTypeOK, masterVars, AtWork

LEMMA SeesWaitStep ==
  ASSUME GradingInv, BarrierInv', NEW w \in Workers, WorkerSeesWait(w)
  PROVE  GradingInv'
<1>1. /\ pc[w] = "wait" /\ status = "Wait" /\ Goto(w, "count")
      /\ UNCHANGED <<syncVars, masterVars, wround, outcome, failed>>
      /\ UNCHANGED <<status, nbready, errmsg, raised, mpc, round, error>>
  BY DEF WorkerSeesWait, syncVars, masterVars
<1>2. /\ pc' \in [Workers -> {"wait", "count", "reset", "release", "spin", "stop", "raise", "exit"}
                                 \cup AtWork]
      /\ pc'[w] = "count" /\ \A u \in Workers \ {w} : pc'[u] = pc[u]
  BY <1>1, GotoEffect
<1>3. GradingTypeOK'
  BY <1>1, <1>2, TypeByParts DEF GradingInv, GradingTypeOK, syncVars, masterVars
<1>4. {u \in Workers : pc'[u] \in {"reset", "spin"}} = {u \in Workers : pc[u] \in {"reset", "spin"}}
  BY <1>1, <1>2
<1>5. Gathering'
  <2>1. Gathering
    BY DEF GradingInv
  <2>2. (\E u \in Workers : pc'[u] = "release") <=> (\E u \in Workers : pc[u] = "release")
    BY <1>1, <1>2
  <2>3. \A u \in Workers : pc[u] \notin {"reset", "release"}
    BY <1>1, <2>1 DEF Gathering
  <2> QED  BY <1>1, <1>2, <1>4, <2>1, <2>2, <2>3 DEF Gathering
<1>6. Working' /\ Decided' /\ Quitting' /\ Failures'
  BY <1>1, <1>2 DEF Working, Decided, Quitting, Failures, GradingInv
<1> QED  BY <1>3, <1>5, <1>6 DEF GradingInv

LEMMA ReadyStep ==
  ASSUME GradingInv, BarrierInv', NEW w \in Workers, WorkerReady(w)
  PROVE  GradingInv'
<1> DEFINE In  == {u \in Workers : pc[u] \in {"reset", "spin"}}
<1>1. /\ pc[w] = "count" /\ nbready' = nbready + 1
      /\ Goto(w, IF nbready + 1 = Cardinal THEN "reset" ELSE "spin")
      /\ UNCHANGED <<local, total, masterVars, wround, outcome, failed>>
      /\ UNCHANGED <<status, errmsg, raised, mpc, round, error>>
  BY DEF WorkerReady, masterVars
<1>2. /\ pc' \in [Workers -> {"wait", "count", "reset", "release", "spin", "stop", "raise", "exit"}
                                 \cup AtWork]
      /\ pc'[w] = (IF nbready + 1 = Cardinal THEN "reset" ELSE "spin")
      /\ \A u \in Workers \ {w} : pc'[u] = pc[u]
  BY <1>1, GotoEffect
<1>3. /\ status = "Wait" /\ Gathering /\ nbready = Cardinality(In) /\ In \in SUBSET Workers /\ w \notin In
      /\ \A u \in Workers : pc[u] \notin {"reset", "release"}
  <2>1. status = "Wait" /\ Gathering
    BY <1>1, StatusOf DEF GradingInv
  <2>2. \A u \in Workers : pc[u] \notin {"reset", "release"}
    BY <1>1, <2>1 DEF Gathering
  <2> QED  BY <1>1, <2>1, <2>2 DEF Gathering
<1>4. {u \in Workers : pc'[u] \in {"reset", "spin"}} = In \cup {w}
  BY <1>2
<1>5. nbready + 1 = Cardinality(In \cup {w}) /\ In \cup {w} \in SUBSET Workers
  BY <1>3, Count
<1>6. nbready' \in 0 .. Cardinal /\ (nbready + 1 = Cardinal <=> In \cup {w} = Workers)
  <2>1. \A S \in SUBSET Workers :
          Cardinality(S) \in 0 .. Cardinal /\ (Cardinality(S) = Cardinal <=> S = Workers)
    BY Count
  <2> HIDE DEF In
  <2> QED  BY <1>1, <1>5, <2>1
<1>7. GradingTypeOK'
  BY <1>1, <1>2, <1>6, TypeByParts DEF GradingInv, GradingTypeOK
<1>8. Gathering'
  <2>1. pc'[w] = "reset" => \A u \in Workers \ {w} : pc'[u] = "spin"
    BY <1>2, <1>3, <1>6
  <2>2. \A u \in Workers : pc'[u] # "release"
    BY <1>2, <1>3
  <2> QED  BY <1>1, <1>2, <1>3, <1>4, <1>5, <2>1, <2>2 DEF Gathering
<1>9. Working' /\ Decided' /\ Quitting' /\ Failures'
  BY <1>1, <1>2, <1>3 DEF Working, Decided, Quitting, Failures, GradingInv
<1> QED  BY <1>7, <1>8, <1>9 DEF GradingInv

LEMMA ResetStep ==
  ASSUME GradingInv, BarrierInv', NEW w \in Workers, ResetReady(w)
  PROVE  GradingInv'
<1>1. /\ pc[w] = "reset" /\ nbready' = 0 /\ Goto(w, "release")
      /\ UNCHANGED <<local, total, masterVars, wround, outcome, failed>>
      /\ UNCHANGED <<status, errmsg, raised, mpc, round, error>>
  BY DEF ResetReady, masterVars
<1>2. /\ pc' \in [Workers -> {"wait", "count", "reset", "release", "spin", "stop", "raise", "exit"}
                                 \cup AtWork]
      /\ pc'[w] = "release" /\ \A u \in Workers \ {w} : pc'[u] = pc[u]
  BY <1>1, GotoEffect
<1>3. status = "Wait" /\ Gathering
  BY <1>1, StatusOf DEF GradingInv
<1>4. nbready' \in 0 .. Cardinal
  BY <1>1, Count
<1>5. GradingTypeOK'
  BY <1>1, <1>2, <1>4, TypeByParts DEF GradingInv, GradingTypeOK
<1>6. Gathering'
  BY <1>1, <1>2, <1>3 DEF Gathering
<1>7. Working' /\ Decided' /\ Quitting' /\ Failures'
  BY <1>1, <1>2, <1>3 DEF Working, Decided, Quitting, Failures, GradingInv
<1> QED  BY <1>5, <1>6, <1>7 DEF GradingInv

(* The next job begins. *)
LEMMA BeginEffect ==
  ASSUME GradingInv, NEW w \in Workers, pc[w] \in {"release", "spin"}, Begin(w)
  PROVE  /\ pc' \in [Workers -> {"wait", "count", "reset", "release", "spin", "stop", "raise", "exit"}
                                 \cup AtWork]
         /\ pc'[w] \in {"init", "run", "check"} /\ \A u \in Workers \ {w} : pc'[u] = pc[u]
         /\ wround' \in [Workers -> {0} \cup Rounds]
         /\ wround'[w] = round /\ \A u \in Workers \ {w} : wround'[u] = wround[u]
         /\ UNCHANGED <<outcome, failed>>
         /\ outcome[w] # "throw"
<1>1. wround[w] = round - 1 /\ wround[w] + 1 = round /\ round \in Rounds
  BY StatusOf, GradingTypes
<1>2. Job(wround[w] + 1) \in {"init", "run", "check"} /\ Job(wround[w] + 1) \in AtWork
  BY RoundTypes DEF AtWork, BarrierCalls
<1>3. Goto(w, Job(wround[w] + 1)) /\ wround' = [wround EXCEPT ![w] = @ + 1] /\ UNCHANGED <<outcome, failed>>
  BY DEF Begin
<1>4. wround' \in [Workers -> {0} \cup Rounds] /\ wround'[w] = round
  BY <1>1, <1>3, GradingTypes
<1>5. outcome[w] # "throw"
  <2>1. wround[w] # round
    BY <1>1, GradingTypes
  <2> QED  BY <2>1 DEF GradingInv, Failures
<1> QED  BY <1>2, <1>3, <1>4, <1>5, GotoEffect, GradingTypes

LEMMA RunStep ==
  ASSUME GradingInv, BarrierInv', NEW w \in Workers, StatusRun(w)
  PROVE  GradingInv'
<1>1. /\ pc[w] = "release" /\ status' = "Run" /\ Begin(w)
      /\ UNCHANGED <<local, total, masterVars>>
      /\ UNCHANGED <<nbready, errmsg, raised, mpc, round, error>>
  BY DEF StatusRun, masterVars
<1>2. /\ pc' \in [Workers -> {"wait", "count", "reset", "release", "spin", "stop", "raise", "exit"}
                                 \cup AtWork]
      /\ pc'[w] \in {"init", "run", "check"} /\ \A u \in Workers \ {w} : pc'[u] = pc[u]
      /\ wround' \in [Workers -> {0} \cup Rounds]
      /\ wround'[w] = round /\ \A u \in Workers \ {w} : wround'[u] = wround[u]
      /\ UNCHANGED <<outcome, failed>>
      /\ outcome[w] # "throw"
  BY <1>1, BeginEffect
<1>3. status = "Wait" /\ Gathering
  BY <1>1, StatusOf DEF GradingInv
<1>4. /\ nbready = 0 /\ failed = {} /\ ~raised /\ mpc \in {"start", "latch", "threw"}
      /\ \A u \in Workers \ {w} : pc[u] = "spin" /\ wround[u] = round - 1
  BY <1>1, <1>3 DEF Gathering
<1>5. GradingTypeOK'
  BY <1>1, <1>2, TypeByParts DEF GradingInv, GradingTypeOK
<1>6. Working'
  <2>1. {u \in Workers : pc'[u] \in {"last"} \cup Resting} = {}
    BY <1>2, <1>4 DEF Resting
  <2>2. nbready = Cardinality({u \in Workers : pc'[u] \in {"last"} \cup Resting})
    BY <1>4, <2>1, FS_EmptySet
  <2>3. \A u \in Workers : pc'[u] \notin {"last", "verdict", "error"}
    BY <1>2, <1>4
  <2> QED  BY <1>1, <1>2, <1>4, <2>2, <2>3 DEF Working, AtWork, BarrierCalls
<1>7. Gathering' /\ Decided' /\ Quitting'
  BY <1>1, <1>3 DEF Gathering, Decided, Quitting, GradingInv
<1>8. Failures'
  <2>1. \A u \in Workers : pc'[u] # "exit"
    BY <1>2, <1>4
  <2>2. mpc' \notin {"join", "joining", "returned"}
    BY <1>1, <1>4
  <2> QED  BY <1>1, <1>2, <2>1, <2>2 DEF Failures, GradingInv
<1> QED  BY <1>5, <1>6, <1>7, <1>8 DEF GradingInv

LEMMA SeesRunStep ==
  ASSUME GradingInv, BarrierInv', NEW w \in Workers, WorkerSeesRun(w)
  PROVE  GradingInv'
<1>1. /\ pc[w] = "spin" /\ status \in {"Run", "Abort"} /\ Begin(w)
      /\ UNCHANGED <<local, total, masterVars>>
      /\ UNCHANGED <<status, nbready, errmsg, raised, mpc, round, error>>
  BY DEF WorkerSeesRun, masterVars, syncVars
<1>2. /\ pc' \in [Workers -> {"wait", "count", "reset", "release", "spin", "stop", "raise", "exit"}
                                 \cup AtWork]
      /\ pc'[w] \in {"init", "run", "check"} /\ \A u \in Workers \ {w} : pc'[u] = pc[u]
      /\ wround' \in [Workers -> {0} \cup Rounds]
      /\ wround'[w] = round /\ \A u \in Workers \ {w} : wround'[u] = wround[u]
      /\ UNCHANGED <<outcome, failed>>
      /\ outcome[w] # "throw"
  BY <1>1, BeginEffect
<1>3. Working
  BY DEF GradingInv
<1>4. GradingTypeOK'
  BY <1>1, <1>2, TypeByParts DEF GradingInv, GradingTypeOK
<1>5. Working'
  <2>1. {u \in Workers : pc'[u] \in {"last"} \cup Resting} = {u \in Workers : pc[u] \in {"last"} \cup Resting}
    BY <1>1, <1>2 DEF Resting
  <2>2. \A u \in Workers : pc[u] \notin {"last", "verdict"}
    BY <1>1, <1>3 DEF Working, Resting
  <2>3. \A u \in Workers : pc'[u] \notin {"last", "verdict"}
    BY <1>2, <2>2
  <2>4. (\E u \in Workers : pc'[u] = "error") <=> (\E u \in Workers : pc[u] = "error")
    BY <1>1, <1>2
  <2>5. pc'[w] \in AtWork
    BY <1>2 DEF AtWork, BarrierCalls
  <2> QED  BY <1>1, <1>2, <1>3, <2>1, <2>2, <2>3, <2>4, <2>5 DEF Working
<1>6. Gathering' /\ Decided' /\ Quitting'
  BY <1>1 DEF Gathering, Decided, Quitting, GradingInv
<1>7. Failures'
  BY <1>1, <1>2 DEF Failures, GradingInv
<1> QED  BY <1>4, <1>5, <1>6, <1>7 DEF GradingInv


(* A worker in a call of the workload: it goes on in there, or it is done. *)
LEMMA JobStep ==
  ASSUME GradingInv, BarrierInv', NEW w \in Workers,
         pc[w] \in {"init", "run"} \cup BarrierCalls,
         UNCHANGED <<syncVars, masterVars, wround>>,
         \/ UNCHANGED <<pc, outcome, failed>>
         \/ \E l \in {"hung"} \cup BarrierCalls : Continue(w, l)
         \/ \E o \in {"ok", "error", "throw"} : Finish(w, o)
  PROVE  GradingInv'
<1>1. /\ UNCHANGED <<local, total, masterVars, wround>>
      /\ UNCHANGED <<status, nbready, errmsg, raised, mpc, round, error>>
  BY DEF masterVars, syncVars
<1>2. /\ status \in {"Run", "Abort"} /\ wround[w] = round /\ Working
      /\ pc[w] \notin {"error", "last", "verdict", "wait", "exit", "spin"}
  BY StatusOf DEF GradingInv, AtWork, BarrierCalls
<1>3. /\ pc' \in [Workers -> {"wait", "count", "reset", "release", "spin", "stop", "raise", "exit"}
                                 \cup AtWork]
      /\ pc'[w] \in AtWork \ {"last", "verdict", "wait", "exit", "spin"}
      /\ \A u \in Workers \ {w} : pc'[u] = pc[u]
  <2>1. CASE UNCHANGED pc
    BY <1>2, <2>1, GradingTypes DEF AtWork, BarrierCalls
  <2>2. CASE \E l \in {"hung"} \cup BarrierCalls : Continue(w, l)
    <3>1. PICK l \in {"hung"} \cup BarrierCalls : Goto(w, l)
      BY <2>2 DEF Continue
    <3>2. l \in AtWork \ {"last", "verdict", "wait", "exit", "spin"}
      BY <3>1 DEF AtWork, BarrierCalls
    <3> QED  BY <3>1, <3>2, GotoEffect
  <2>3. CASE \E o \in {"ok", "error", "throw"} : Finish(w, o)
    <3>1. PICK l \in {"notify", "error"} : Goto(w, l)
      BY <2>3 DEF Finish
    <3>2. l \in AtWork \ {"last", "verdict", "wait", "exit", "spin"}
      BY <3>1 DEF AtWork, BarrierCalls
    <3> QED  BY <3>1, <3>2, GotoEffect
  <2> QED  BY <2>1, <2>2, <2>3
<1>4. /\ failed' \in {failed, failed \cup {round}}
      /\ pc'[w] = "error" <=> failed' # failed \/ \E o \in {"error", "throw"} : Finish(w, o)
      /\ pc'[w] = "error" => failed' = failed \cup {round}
      /\ outcome' \in [Workers -> {"ok", "error", "throw"}]
      /\ outcome'[w] = "throw" => outcome[w] = "throw" \/ failed' = failed \cup {round}
      /\ \A u \in Workers \ {w} : outcome'[u] = outcome[u]
  <2>1. outcome \in [Workers -> {"ok", "error", "throw"}]
    BY GradingTypes
  <2>2. CASE UNCHANGED <<pc, outcome, failed>> /\ ~ \E o \in {"ok", "error", "throw"} : Finish(w, o)
    BY <1>2, <2>1, <2>2
  <2>3. CASE /\ \E l \in {"hung"} \cup BarrierCalls : Continue(w, l)
             /\ ~ \E o \in {"ok", "error", "throw"} : Finish(w, o)
    <3>1. pc'[w] # "error" /\ UNCHANGED <<outcome, failed>>
      BY <2>3, GradingTypes DEF Continue, Goto, BarrierCalls
    <3> QED  BY <2>1, <2>3, <3>1
  <2>4. CASE \E o \in {"ok", "error", "throw"} : Finish(w, o)
    <3>1. PICK o \in {"ok", "error", "throw"} : Finish(w, o)
      BY <2>4
    <3>2. /\ outcome' = [outcome EXCEPT ![w] = o]
          /\ pc'[w] = IF o = "ok" THEN "notify" ELSE "error"
          /\ failed' = IF o = "ok" THEN failed ELSE failed \cup {round}
      BY <1>2, <3>1, GradingTypes DEF Finish, Goto
    <3>3. outcome'[w] = o /\ \A u \in Workers \ {w} : outcome'[u] = outcome[u]
      BY <2>1, <3>2
    <3>4. o = "ok" => ~ \E p \in {"error", "throw"} : Finish(w, p)
      BY <2>1, <3>2, <3>3 DEF Finish
    <3>5. outcome' \in [Workers -> {"ok", "error", "throw"}]
      BY <2>1, <3>2
    <3> QED  BY <3>1, <3>2, <3>3, <3>4, <3>5
  <2> QED  BY <2>2, <2>3, <2>4
<1>5. GradingTypeOK'
  <2>1. failed' \subseteq Rounds
    BY <1>4, GradingTypes DEF GradingInv, GradingTypeOK
  <2> QED  BY <1>1, <1>3, <1>4, <2>1, TypeByParts DEF GradingInv, GradingTypeOK
<1>6. Working'
  <2>1. {u \in Workers : pc'[u] \in {"last"} \cup Resting} = {u \in Workers : pc[u] \in {"last"} \cup Resting}
    BY <1>2, <1>3 DEF Resting
  <2>2. \A u \in Workers \ {w} : pc[u] \notin {"last", "verdict"}
    BY <1>2 DEF Working, Resting
  <2>3. \A u \in Workers : pc'[u] \notin {"last", "verdict"} /\ pc[u] \notin {"last", "verdict"}
    BY <1>2, <1>3, <2>2
  <2>4. round \in failed' <=> status = "Abort" \/ \E u \in Workers : pc'[u] = "error"
    <3>1. (\E u \in Workers : pc'[u] = "error")
            <=> pc'[w] = "error" \/ \E u \in Workers : pc[u] = "error"
      BY <1>2, <1>3
    <3>2. round \in failed' <=> round \in failed \/ pc'[w] = "error"
      BY <1>4
    <3> QED  BY <1>2, <3>1, <3>2 DEF Working
  <2> QED  BY <1>1, <1>2, <1>3, <2>1, <2>2, <2>3, <2>4 DEF Working
<1>7. Gathering' /\ Decided' /\ Quitting'
  BY <1>1, <1>2 DEF Gathering, Decided, Quitting, GradingInv
<1>8. Failures'
  BY <1>1, <1>2, <1>3, <1>4 DEF Failures, Working, GradingInv
<1> QED  BY <1>5, <1>6, <1>7, <1>8 DEF GradingInv

LEMMA ErrorStep ==
  ASSUME GradingInv, BarrierInv', NEW w \in Workers, WorkerError(w)
  PROVE  GradingInv'
<1>1. /\ pc[w] = "error" /\ Goto(w, "notify") /\ status' = "Abort" /\ errmsg' = TRUE
      /\ UNCHANGED <<local, total, masterVars, wround, outcome, failed>>
      /\ UNCHANGED <<nbready, raised, mpc, round, error>>
  BY DEF WorkerError, masterVars
<1>2. status \in {"Run", "Abort"} /\ wround[w] = round /\ Working
  BY <1>1, StatusOf DEF GradingInv, AtWork
<1>3. /\ pc' \in [Workers -> {"wait", "count", "reset", "release", "spin", "stop", "raise", "exit"}
                                 \cup AtWork]
      /\ pc'[w] = "notify" /\ \A u \in Workers \ {w} : pc'[u] = pc[u]
  BY <1>1, GotoEffect DEF AtWork
<1>4. GradingTypeOK'
  BY <1>1, <1>3, TypeByParts DEF GradingInv, GradingTypeOK
<1>5. Working'
  <2>1. {u \in Workers : pc'[u] \in {"last"} \cup Resting} = {u \in Workers : pc[u] \in {"last"} \cup Resting}
    BY <1>1, <1>3 DEF Resting
  <2>2. \A u \in Workers : pc'[u] \notin {"last", "verdict"} /\ pc[u] \notin {"last", "verdict"}
    BY <1>1, <1>2, <1>3 DEF Working, Resting
  <2>3. round \in failed /\ pc'[w] \in AtWork
    BY <1>1, <1>2, <1>3 DEF Working, AtWork
  <2> QED  BY <1>1, <1>2, <1>3, <2>1, <2>2, <2>3 DEF Working
<1>6. Gathering' /\ Decided' /\ Quitting'
  BY <1>1, <1>2 DEF Gathering, Decided, Quitting, GradingInv
<1>7. Failures'
  BY <1>1, <1>2, <1>3 DEF Failures, Working, GradingInv
<1> QED  BY <1>4, <1>5, <1>6, <1>7 DEF GradingInv

LEMMA DoneStep ==
  ASSUME GradingInv, BarrierInv', NEW w \in Workers, WorkerDone(w)
  PROVE  GradingInv'
<1> DEFINE Out == {u \in Workers : pc[u] \in {"last"} \cup Resting}
<1>1. /\ pc[w] = "notify" /\ nbready' = nbready + 1
      /\ Goto(w, IF nbready + 1 = Cardinal THEN "last" ELSE AfterNotify(w))
      /\ UNCHANGED <<local, total, masterVars, wround, outcome, failed>>
      /\ UNCHANGED <<status, errmsg, raised, mpc, round, error>>
  BY DEF WorkerDone, masterVars
<1>2. /\ status \in {"Run", "Abort"} /\ wround[w] = round /\ Working
      /\ \A u \in Workers : pc[u] \notin {"last", "verdict"}
  <2>1. status \in {"Run", "Abort"} /\ wround[w] = round /\ Working
    BY <1>1, StatusOf DEF GradingInv, AtWork
  <2> QED  BY <1>1, <2>1 DEF Working, Resting
<1>3. /\ pc' \in [Workers -> {"wait", "count", "reset", "release", "spin", "stop", "raise", "exit"}
                                 \cup AtWork]
      /\ pc'[w] = (IF nbready + 1 = Cardinal THEN "last" ELSE AfterNotify(w))
      /\ AfterNotify(w) \in Resting /\ (AfterNotify(w) = "exit" => outcome[w] = "throw")
      /\ \A u \in Workers \ {w} : pc'[u] = pc[u]
  BY <1>1, GotoEffect DEF AfterNotify, Resting, AtWork
<1>4. {u \in Workers : pc'[u] \in {"last"} \cup Resting} = Out \cup {w}
  BY <1>1, <1>3
<1>5. /\ nbready + 1 = Cardinality(Out \cup {w}) /\ Out \cup {w} \in SUBSET Workers
  <2>1. Out \in SUBSET Workers /\ w \notin Out /\ nbready = Cardinality(Out)
    BY <1>1, <1>2 DEF Working, Resting
  <2> QED  BY <2>1, Count
<1>6. nbready' \in 0 .. Cardinal /\ (nbready + 1 = Cardinal <=> Out \cup {w} = Workers)
  <2>1. \A S \in SUBSET Workers :
          Cardinality(S) \in 0 .. Cardinal /\ (Cardinality(S) = Cardinal <=> S = Workers)
    BY Count
  <2> HIDE DEF Out
  <2> QED  BY <1>1, <1>5, <2>1
<1>7. GradingTypeOK'
  BY <1>1, <1>3, <1>6, TypeByParts DEF GradingInv, GradingTypeOK
<1>8. Working'
  <2>1. pc'[w] = "last" => \A u \in Workers \ {w} : pc[u] \in Resting
    BY <1>2, <1>3, <1>6 DEF Resting
  <2>2. \A u \in Workers : pc[u] \in Resting => wround[u] = round
    BY <1>2 DEF Working, Resting
  <2>3. pc'[w] \in {"last"} \cup Resting /\ pc'[w] \in AtWork \cup Resting
    BY <1>3 DEF AtWork
  <2>4. (\E u \in Workers : pc'[u] = "error") <=> (\E u \in Workers : pc[u] = "error")
    BY <1>1, <1>3, <2>3 DEF Resting
  <2>5. \A u \in Workers : pc'[u] # "verdict" /\ (pc'[u] = "last" => u = w)
    BY <1>2, <1>3, <2>3 DEF Resting
  <2>6. nbready' = Cardinality({u \in Workers : pc'[u] \in {"last"} \cup Resting})
    BY <1>1, <1>4, <1>5
  <2>7. \A u \in Workers : \/ wround'[u] = round' - 1 /\ pc'[u] = "spin"
                           \/ wround'[u] = round' /\ pc'[u] \in AtWork \cup Resting
    BY <1>1, <1>2, <1>3, <2>3 DEF Working
  <2> HIDE DEF Out
  <2> QED  BY <1>1, <1>2, <1>3, <2>1, <2>2, <2>4, <2>5, <2>6, <2>7 DEF Working
<1>9. Gathering' /\ Decided' /\ Quitting' /\ Failures'
  BY <1>1, <1>2, <1>3 DEF Gathering, Decided, Quitting, Failures, GradingInv
<1> QED  BY <1>7, <1>8, <1>9 DEF GradingInv

LEMMA LastStep ==
  ASSUME GradingInv, BarrierInv', NEW w \in Workers, LastResets(w)
  PROVE  GradingInv'
<1>1. /\ pc[w] = "last" /\ nbready' = 0 /\ Goto(w, "verdict")
      /\ UNCHANGED <<local, total, masterVars, wround, outcome, failed>>
      /\ UNCHANGED <<status, errmsg, raised, mpc, round, error>>
  BY DEF LastResets, masterVars
<1>2. status \in {"Run", "Abort"} /\ wround[w] = round /\ Working
  BY <1>1, StatusOf DEF GradingInv, AtWork
<1>3. /\ pc' \in [Workers -> {"wait", "count", "reset", "release", "spin", "stop", "raise", "exit"}
                                 \cup AtWork]
      /\ pc'[w] = "verdict" /\ \A u \in Workers \ {w} : pc'[u] = pc[u]
  BY <1>1, GotoEffect DEF AtWork
<1>4. nbready' \in 0 .. Cardinal
  BY <1>1, Count
<1>5. GradingTypeOK'
  BY <1>1, <1>3, <1>4, TypeByParts DEF GradingInv, GradingTypeOK
<1>6. Working'
  <2>1. \A u \in Workers \ {w} : wround[u] = round /\ pc[u] \in Resting
    BY <1>1, <1>2 DEF Working
  <2>2. pc'[w] \in AtWork
    BY <1>3 DEF AtWork
  <2>3. (\E u \in Workers : pc'[u] = "error") <=> (\E u \in Workers : pc[u] = "error")
    BY <1>1, <1>3
  <2>4. \A u \in Workers : pc'[u] \in {"last", "verdict"} => u = w
    BY <1>3, <2>1 DEF Resting
  <2>5. \A u \in Workers : wround'[u] = round' /\ pc'[u] \in AtWork \cup Resting
    BY <1>1, <1>2, <1>3, <2>1, <2>2
  <2>6. round' \in failed' <=> status' = "Abort" \/ \E u \in Workers : pc'[u] = "error"
    BY <1>1, <1>2, <2>3 DEF Working
  <2>7. mpc' \in {"start", "latch", "threw"} /\ ~raised'
    BY <1>1, <1>2 DEF Working
  <2> QED  BY <1>1, <1>3, <2>1, <2>4, <2>5, <2>6, <2>7 DEF Working
<1>7. Gathering' /\ Decided' /\ Quitting' /\ Failures'
  BY <1>1, <1>2, <1>3 DEF Gathering, Decided, Quitting, Failures, GradingInv
<1> QED  BY <1>5, <1>6, <1>7 DEF GradingInv

LEMMA VerdictStep ==
  ASSUME GradingInv, BarrierInv', NEW w \in Workers, Verdict(w)
  PROVE  GradingInv'
<1>1. /\ pc[w] = "verdict" /\ status' = (IF status = "Abort" THEN "Fail" ELSE "Done") /\ Goto(w, "stop")
      /\ UNCHANGED <<local, total, masterVars, wround, outcome, failed>>
      /\ UNCHANGED <<nbready, errmsg, raised, mpc, round, error>>
  BY DEF Verdict, masterVars
<1>2. status \in {"Run", "Abort"} /\ wround[w] = round /\ Working
  BY <1>1, StatusOf DEF GradingInv, AtWork
<1>3. /\ pc' \in [Workers -> {"wait", "count", "reset", "release", "spin", "stop", "raise", "exit"}
                                 \cup AtWork]
      /\ pc'[w] = "stop" /\ \A u \in Workers \ {w} : pc'[u] = pc[u]
  BY <1>1, GotoEffect
<1>4. status' \in {"Done", "Fail"} /\ (status' = "Fail" <=> status = "Abort")
  BY <1>1
<1>5. GradingTypeOK'
  BY <1>1, <1>3, <1>4, TypeByParts DEF GradingInv, GradingTypeOK
<1>6. Decided'
  <2>1. /\ \A u \in Workers \ {w} : wround[u] = round /\ pc[u] \in Resting
        /\ nbready = 0 /\ ~raised /\ mpc \in {"start", "latch", "threw"}
    BY <1>1, <1>2 DEF Working
  <2>2. status' = "Fail" <=> round \in failed
    BY <1>1, <1>2, <1>4, <2>1 DEF Working, Resting
  <2>3. \A u \in Workers : pc'[u] \in Resting \cup {"stop", "raise"} /\ wround[u] = round
    BY <1>2, <1>3, <2>1
  <2>4. \A u \in Workers : pc'[u] \in {"stop", "raise"} => \A v \in Workers \ {u} : pc'[v] \in Resting
    BY <1>3, <2>1 DEF Resting
  <2> QED  BY <1>1, <2>1, <2>2, <2>3, <2>4 DEF Decided
<1>7. Gathering' /\ Working' /\ Quitting'
  BY <1>1, <1>2, <1>4 DEF Gathering, Working, Quitting, GradingInv
<1>8. Failures'
  BY <1>1, <1>2, <1>3, <1>4 DEF Failures, GradingInv
<1> QED  BY <1>5, <1>6, <1>7, <1>8 DEF GradingInv

(* The last worker stops the clock and raises the latch. *)
LEMMA Deciding ==
  ASSUME GradingInv, NEW w \in Workers, pc[w] \in {"stop", "raise"}
  PROVE  /\ status \in {"Done", "Fail"} /\ status # "Quit" /\ nbready = 0
         /\ ~raised /\ mpc \in {"start", "latch", "threw"}
         /\ \A u \in Workers : wround[u] = round
         /\ \A u \in Workers \ {w} : pc[u] \in Resting
         /\ status = "Fail" <=> round \in failed
  BY StatusOf DEF GradingInv, Decided, Between, Resting

LEMMA StopStep ==
  ASSUME GradingInv, BarrierInv', NEW w \in Workers, ChronoStop(w)
  PROVE  GradingInv'
<1>1. /\ pc[w] = "stop" /\ total' = total \cup {<<local, wround[w]>>} /\ Goto(w, "raise")
      /\ UNCHANGED <<local, masterVars, wround, outcome, failed>>
      /\ UNCHANGED <<status, nbready, errmsg, raised, mpc, round, error>>
  BY DEF ChronoStop, masterVars
<1>2. /\ status \in {"Done", "Fail"} /\ status # "Quit" /\ nbready = 0
      /\ ~raised /\ mpc \in {"start", "latch", "threw"}
      /\ \A u \in Workers : wround[u] = round
      /\ \A u \in Workers \ {w} : pc[u] \in Resting
      /\ status = "Fail" <=> round \in failed
  BY <1>1, Deciding
<1>3. /\ pc' \in [Workers -> {"wait", "count", "reset", "release", "spin", "stop", "raise", "exit"}
                                 \cup AtWork]
      /\ pc'[w] = "raise" /\ \A u \in Workers \ {w} : pc'[u] = pc[u]
  BY <1>1, GotoEffect
<1>4. total' \subseteq ({0} \cup Rounds) \X Rounds
  <2>1. total \subseteq ({0} \cup Rounds) \X Rounds /\ local \in {0} \cup Rounds
    BY DEF GradingInv, GradingTypeOK
  <2>2. wround[w] \in Rounds
    BY <1>2, GradingTypes
  <2> QED  BY <1>1, <2>1, <2>2
<1>5. GradingTypeOK'
  BY <1>1, <1>3, <1>4, TypeByParts DEF GradingInv, GradingTypeOK
<1>6. Decided'
  <2>1. \A u \in Workers : pc'[u] \in {"stop", "raise"} => u = w
    BY <1>2, <1>3 DEF Resting
  <2>2. \A u \in Workers : pc'[u] \in Resting \cup {"stop", "raise"}
    BY <1>2, <1>3
  <2> QED  BY <1>1, <1>2, <1>3, <2>1, <2>2 DEF Decided
<1>7. Gathering' /\ Working' /\ Quitting'
  BY <1>1, <1>2 DEF Gathering, Working, Quitting, GradingInv
<1>8. Failures'
  BY <1>1, <1>2, <1>3 DEF Failures, GradingInv
<1> QED  BY <1>5, <1>6, <1>7, <1>8 DEF GradingInv

LEMMA RaiseStep ==
  ASSUME GradingInv, BarrierInv', NEW w \in Workers, LatchRaise(w), mpc # "threw"
  PROVE  GradingInv'
<1>1. /\ pc[w] = "raise" /\ raised' = TRUE /\ Goto(w, AfterNotify(w))
      /\ UNCHANGED <<local, total, masterVars, wround, outcome, failed>>
      /\ UNCHANGED <<status, nbready, errmsg, mpc, round, error>>
  BY DEF LatchRaise, masterVars
<1>2. /\ status \in {"Done", "Fail"} /\ status # "Quit" /\ nbready = 0
      /\ ~raised /\ mpc \in {"start", "latch"}
      /\ \A u \in Workers : wround[u] = round
      /\ \A u \in Workers \ {w} : pc[u] \in Resting
      /\ status = "Fail" <=> round \in failed
  BY <1>1, Deciding
<1>3. /\ pc' \in [Workers -> {"wait", "count", "reset", "release", "spin", "stop", "raise", "exit"}
                                 \cup AtWork]
      /\ pc'[w] \in Resting /\ (pc'[w] = "exit" => outcome[w] = "throw")
      /\ \A u \in Workers \ {w} : pc'[u] = pc[u]
  <2>1. AfterNotify(w) \in {"wait", "exit"} /\ (AfterNotify(w) = "exit" => outcome[w] = "throw")
    BY DEF AfterNotify
  <2> QED  BY <1>1, <2>1, GotoEffect DEF Resting
<1>4. GradingTypeOK'
  BY <1>1, <1>3, TypeByParts DEF GradingInv, GradingTypeOK
<1>5. Decided'
  <2>1. \A u \in Workers : pc'[u] \in Resting
    BY <1>2, <1>3
  <2> QED  BY <1>1, <1>2, <2>1 DEF Decided, Resting
<1>6. Gathering' /\ Working' /\ Quitting'
  BY <1>1, <1>2 DEF Gathering, Working, Quitting, GradingInv
<1>7. Failures'
  BY <1>1, <1>2, <1>3 DEF Failures, GradingInv
<1> QED  BY <1>4, <1>5, <1>6, <1>7 DEF GradingInv

LEMMA QuitStep ==
  ASSUME GradingInv, BarrierInv', NEW w \in Workers, WorkerQuits(w)
  PROVE  GradingInv'
<1>1. /\ pc[w] = "wait" /\ status = "Quit" /\ Goto(w, "exit")
      /\ UNCHANGED <<local, total, masterVars, wround, outcome, failed>>
      /\ UNCHANGED <<status, nbready, errmsg, raised, mpc, round, error>>
  BY DEF WorkerQuits, masterVars, syncVars
<1>2. /\ pc' \in [Workers -> {"wait", "count", "reset", "release", "spin", "stop", "raise", "exit"}
                                 \cup AtWork]
      /\ pc'[w] = "exit" /\ \A u \in Workers \ {w} : pc'[u] = pc[u]
  BY <1>1, GotoEffect
<1>3. GradingTypeOK'
  BY <1>1, <1>2, TypeByParts DEF GradingInv, GradingTypeOK
<1>4. Quitting'
  BY <1>1, <1>2 DEF Quitting, Between, Resting, GradingInv
<1>5. Gathering' /\ Working' /\ Decided'
  BY <1>1 DEF Gathering, Working, Decided
<1>6. Failures'
  BY <1>1, <1>2 DEF Failures, GradingInv
<1> QED  BY <1>3, <1>4, <1>5, <1>6 DEF GradingInv


LEMMA WorkerStep ==
  ASSUME GradingInv, NEW w \in Workers, Worker(w)
  PROVE  GradingInv'
<1>1. BarrierInv' /\ mpc # "threw"
  BY WorkerBarrier DEF Worker
<1>2. CASE InitOrRun(w) \/ Check(w)
  <2>1. /\ pc[w] \in {"init", "run"} \cup BarrierCalls
        /\ UNCHANGED <<syncVars, masterVars, wround>>
    BY <1>2 DEF InitOrRun, Check, CallBarrier, InBarrier, CheckInit, CheckInitFailed, CheckLoop,
                CheckLoopFailed, CheckFinish, Returned, BarrierCalls, workerVars
  <2>2. \/ UNCHANGED <<pc, outcome, failed>>
        \/ \E l \in {"hung"} \cup BarrierCalls : Continue(w, l)
        \/ \E o \in {"ok", "error", "throw"} : Finish(w, o)
    <3>1. CASE InitOrRun(w)
      BY <3>1 DEF InitOrRun, Outcomes, Hang
    <3>2. CASE CallBarrier(w) \/ InBarrier(w)
      BY <3>2 DEF CallBarrier, InBarrier, workerVars
    <3>3. CASE CheckInit(w) \/ CheckInitFailed(w) \/ CheckLoop(w)
      BY <3>3 DEF CheckInit, CheckInitFailed, CheckLoop, Throw, Hang, BarrierCalls
    <3>4. CASE CheckLoopFailed(w) \/ CheckFinish(w)
      BY <3>4 DEF CheckLoopFailed, CheckFinish, Outcomes, Hang, BarrierCalls
    <3> QED  BY <1>2, <3>1, <3>2, <3>3, <3>4 DEF Check
  <2> QED  BY <1>1, <2>1, <2>2, JobStep
<1> QED  BY <1>1, <1>2, SeesWaitStep, QuitStep, ReadyStep, ResetStep, RunStep, SeesRunStep, ErrorStep,
            DoneStep, LastStep, VerdictStep, StopStep, RaiseStep DEF Worker

LEMMA GradingAlone ==
  ASSUME GradingInv, UNCHANGED vars
  PROVE  GradingInv'
<1>1. BarrierInv'
  BY BarrierAlone DEF vars, GradingInv
<1>2. UNCHANGED <<syncVars, masterVars, workerVars>>
  BY DEF vars
<1>3. GradingTypeOK'
  BY <1>1, <1>2 DEF BarrierInv, GradingInv, GradingTypeOK, syncVars, masterVars, workerVars
<1>4. Gathering' /\ Working'
  BY <1>2 DEF GradingInv, Gathering, Working, syncVars, masterVars, workerVars
<1>5. Decided' /\ Quitting' /\ Failures'
  BY <1>2 DEF GradingInv, Decided, Quitting, Failures, Between, syncVars, masterVars, workerVars
<1> QED  BY <1>1, <1>3, <1>4, <1>5 DEF GradingInv

(* What a measurement promises follows from its invariant. *)
LEMMA Together ==
  ASSUME GradingInv
  PROVE  StartTogether
<1> SUFFICES ASSUME NEW w \in Workers, NEW u \in Workers, wround[w] > wround[u]
             PROVE  wround[w] = wround[u] + 1 /\ pc[u] = "spin"
  BY DEF StartTogether
<1>0. wround[u] \in Nat /\ wround[w] \in Nat
  <2>1. wround[u] \in {0} \cup Rounds /\ wround[w] \in {0} \cup Rounds
    BY GradingTypes
  <2> QED  BY <2>1, GradingAssumption DEF Rounds
<1>1. /\ status \in {"Wait", "Run", "Abort", "Done", "Fail", "Quit"} /\ round \in Nat
      /\ wround[w] # wround[u]
  BY <1>0, GradingTypes
<1>2. status \in {"Run", "Abort"}
  BY <1>1 DEF GradingInv, Gathering, Decided, Quitting, Between
<1> QED  BY <1>0, <1>1, <1>2 DEF GradingInv, Working

LEMMA Result ==
  ASSUME GradingInv
  PROVE  ResultOfRound
<1> SUFFICES ASSUME raised \/ mpc = "result"
             PROVE  /\ \A w \in Workers : wround[w] = round /\ pc[w] \in {"wait", "exit"}
                    /\ status = (IF round \in failed THEN "Fail" ELSE "Done")
                    /\ round \in failed => errmsg
  BY DEF ResultOfRound
<1>1. status \in {"Done", "Fail"}
  BY GradingTypes DEF GradingInv, Gathering, Working, Quitting
<1>2. /\ \A w \in Workers : wround[w] = round /\ pc[w] \in Resting
      /\ status = "Fail" <=> round \in failed
  BY <1>1 DEF GradingInv, Decided
<1> QED  BY <1>1, <1>2 DEF GradingInv, Failures, Resting

(* The steps of Grading, as a program of its own. *)
LEMMA GradingSteps ==
  ASSUME GradingInv, [Next]_vars
  PROVE  GradingInv'
  BY MasterStep, WorkerStep, GradingAlone DEF Next, Ended

(* Whatever the library that is measured does, no thread goes through a     *)
(* barrier before all have come, no worker misses a round, and the result   *)
(* the master takes is of the round it started.                             *)
THEOREM MeasureCorrect == Spec => [](BarrierSync /\ StartTogether /\ ResultOfRound)
<1>1. Init => GradingInv
  BY MeasureStart DEF Init
<1>2. GradingInv /\ [Next]_vars => GradingInv'
  BY GradingSteps
<1>3. GradingInv => BarrierSync /\ StartTogether /\ ResultOfRound
  BY BarrierSafe, Together, Result DEF GradingInv
<1> QED  BY <1>1, <1>2, <1>3, PTL DEF Spec


-----------------------------------------------------------------------------
(* main                                                                    *)

(* A measurement begins with everything new. *)
LEMMA FreshMeasure ==
  ASSUME MeasureStarts, limit \in [Jobs -> BOOLEAN]
  PROVE  GradingInv'
<1> USE DEF MeasureStarts
<1>1. BarrierInv'
  <2>1. Inside' = {}
    BY DEF Inside
  <2>2. 0 \in 0 .. Cardinal /\ Cardinality(Inside') = 0
    BY <2>1, Count
  <2> QED  BY <2>1, <2>2, WorkersAssumption DEF BarrierInv, BarrierTypeOK, Halves, Turns
<1>2. GradingTypeOK'
  <2>1. 0 \in 0 .. Cardinal
    BY Count
  <2> QED  BY <1>1, <2>1, RoundTypes DEF GradingTypeOK, BarrierInv
<1>3. Decided' /\ Gathering' /\ Working'
  BY DEF Decided, Gathering, Working, Between, Resting
<1>4. Quitting' /\ Failures'
  BY DEF Quitting, Failures
<1> QED  BY <1>1, <1>2, <1>3, <1>4 DEF GradingInv

LEMMA MainTypes ==
  ASSUME MainInv
  PROVE  /\ library \in 1 .. NbLibraries /\ library \in Nat /\ NbLibraries \in Nat \ {0}
         /\ loaded \in BOOLEAN /\ limit \in [Jobs -> BOOLEAN] /\ error \in BOOLEAN
         /\ caller \in {"off", "spawn", "wait", "sleeping", "awake", "overtime", "join", "detach",
                        "returned", "threw"}
  BY EvaluationAssumption DEF MainInv, TypeOK, GradingTypeOK, BoundedTypeOK

(* The libraries before this one are not all of them, and with it they are  *)
(* as many as before the next one.                                          *)
LEMMA Libraries ==
  ASSUME NEW l \in 1 .. NbLibraries
  PROVE  /\ 1 .. l - 1 # 1 .. NbLibraries /\ 1 .. l - 1 \subseteq 1 .. NbLibraries
         /\ (1 .. l - 1) \cup {l} = 1 .. l
         /\ 1 .. (l + 1) - 1 = 1 .. l
<1>1. l \in Nat /\ NbLibraries \in Nat \ {0}
  BY EvaluationAssumption
<1>2. NbLibraries \in 1 .. NbLibraries /\ NbLibraries \notin 1 .. l - 1
  BY <1>1
<1> QED  BY <1>1, <1>2

(* A step of the threads that measure. *)
LEMMA MeasureStep ==
  ASSUME MainInv, Alive, place = "measure",
         Master \/ LatchTimeout \/ SpawnFails \/ \E w \in Workers : Worker(w),
         UNCHANGED <<boundedVars, mainVars>>
  PROVE  MainInv'
<1>1. GradingInv'
  BY MasterStep, WorkerStep DEF MainInv
<1>2. UNCHANGED <<caller, runner, holder, place, library, loaded, limit, exit, passed>>
  BY DEF boundedVars, mainVars
<1>3. TypeOK'
  BY <1>1, <1>2 DEF MainInv, TypeOK, GradingInv, BoundedTypeOK
<1>4. RunnerDone' /\ ExitStatus'
  BY <1>2 DEF MainInv, RunnerDone, ExitStatus
<1>5. Placed'
  BY <1>2 DEF MainInv, Placed, Alive
<1>6. Verdicts'
  BY <1>2 DEF MainInv, Verdicts, Alive
<1> QED  BY <1>1, <1>3, <1>4, <1>5, <1>6 DEF MainInv

(* A step of bounded_run. *)
LEMMA BoundedStep ==
  ASSUME MainInv, Alive, CallerStep \/ RunnerStep \/ SpuriousWakeUp \/ FuncHangs,
         UNCHANGED vars, UNCHANGED mainVars
  PROVE  MainInv'
<1>1. GradingInv'
  BY GradingAlone DEF MainInv
<1>2. /\ UNCHANGED <<place, library, loaded, limit, exit, passed>>
      /\ UNCHANGED <<mpc, error>>
      /\ WorkersRest' = WorkersRest
  BY DEF mainVars, vars, masterVars, workerVars, WorkersRest
<1>3. BoundedTypeOK /\ RunnerDone
  BY DEF MainInv, TypeOK
<1>4. /\ BoundedTypeOK' /\ RunnerDone'
      /\ caller \in {"off", "returned", "threw"} => caller' = caller
  BY <1>3 DEF CallerStep, RunnerStep, Spawn, WaitFor, Overtime, WaitReturns, Join, Detach, FuncReturns,
              RunnerLocks, Notify, RunnerUnlocks, SpuriousWakeUp, FuncHangs, Caller, Runner,
              BoundedTypeOK, RunnerDone
<1>5. TypeOK'
  BY <1>1, <1>2, <1>4 DEF MainInv, TypeOK, GradingInv
<1>6. Placed'
  BY <1>2, <1>4 DEF MainInv, Placed, Alive
<1>7. Verdicts'
  <2>1. place \in {"unload", "next"} => caller' = caller
    BY <1>4 DEF MainInv, Placed
  <2> QED  BY <1>2, <2>1 DEF MainInv, Verdicts, Alive
<1>8. ExitStatus'
  BY <1>2 DEF MainInv, ExitStatus
<1> QED  BY <1>1, <1>4, <1>5, <1>6, <1>7, <1>8 DEF MainInv

(* main goes on, and leaves the measurement alone. *)
LEMMA PlaceStep ==
  ASSUME MainInv, Alive, Load \/ Create \/ CreateOverrun \/ Destroy \/ Destroyed \/ Unload
  PROVE  MainInv'
<1> USE DEF Place, Alone, Unmeasured
<1>1. UNCHANGED vars /\ UNCHANGED <<library, limit, exit, passed>>
  BY DEF Load, Create, CreateOverrun, Destroy, Destroyed, Unload
<1>2. GradingInv' /\ UNCHANGED <<mpc, error>> /\ WorkersRest' = WorkersRest
  BY <1>1, GradingAlone DEF MainInv, vars, masterVars, workerVars, WorkersRest
<1>3. BoundedTypeOK' /\ RunnerDone' /\ loaded' \in BOOLEAN
  BY DEF Load, Create, CreateOverrun, Destroy, Destroyed, Unload, Call, boundedVars,
         MainInv, TypeOK, BoundedTypeOK, RunnerDone
<1>4. TypeOK'
  <2>1. place' \in {"load", "create", "creating", "measure", "destroy", "destroying", "unload",
                "next", "ended"}
    BY DEF Load, Create, CreateOverrun, Destroy, Destroyed, Unload
  <2> QED  BY <1>1, <1>2, <1>3, <2>1 DEF MainInv, TypeOK, GradingInv
<1>5. Placed'
  <2>1. CASE Load
    BY <1>1, <1>2, <2>1 DEF Load, boundedVars, MainInv, Placed, Alive
  <2>2. CASE Create
    BY <1>1, <1>2, <2>2 DEF Create, Call, MainInv, Placed, Alive
  <2>3. CASE CreateOverrun
    BY <1>1, <1>2, <2>3 DEF CreateOverrun, boundedVars, MainInv, Placed, Alive
  <2>4. CASE Destroy
    BY <1>1, <1>2, <2>4 DEF Destroy, Call, MainInv, Placed, Alive
  <2>5. CASE Destroyed
    BY <1>1, <1>2, <2>5 DEF Destroyed, boundedVars, MainInv, Placed, Alive
  <2>6. CASE Unload
    BY <1>1, <1>2, <2>6 DEF Unload, boundedVars, MainInv, Placed, Alive
  <2> QED  BY <2>1, <2>2, <2>3, <2>4, <2>5, <2>6
<1>6. Verdicts'
  <2>1. CASE Load
    BY <1>1, <1>2, <2>1 DEF Load, boundedVars, MainInv, Verdicts, Alive
  <2>2. CASE Create
    BY <1>1, <1>2, <2>2 DEF Create, MainInv, Verdicts, Alive
  <2>3. CASE CreateOverrun
    BY <1>1, <1>2, <2>3 DEF CreateOverrun, boundedVars, MainInv, Verdicts, Alive
  <2>4. CASE Destroy
    BY <1>1, <1>2, <2>4 DEF Destroy, MainInv, Verdicts, Alive
  <2>5. CASE Destroyed
    BY <1>1, <1>2, <2>5 DEF Destroyed, boundedVars, MainInv, Verdicts, Alive
  <2>6. CASE Unload
    BY <1>1, <1>2, <2>6 DEF Unload, boundedVars, MainInv, Verdicts, Alive
  <2> QED  BY <2>1, <2>2, <2>3, <2>4, <2>5, <2>6
<1>7. ExitStatus'
  BY <1>1 DEF MainInv, ExitStatus
<1> QED  BY <1>2, <1>3, <1>4, <1>5, <1>6, <1>7 DEF MainInv

LEMMA CreatedStep ==
  ASSUME MainInv, Alive, Created
  PROVE  MainInv'
<1>1. /\ place = "creating" /\ place' = "measure" /\ caller = "returned"
      /\ UNCHANGED <<caller, runner, holder, library, loaded, limit, exit, passed>>
  BY DEF Created, Place, boundedVars
<1>2. GradingInv'
  BY MainTypes, FreshMeasure DEF Created
<1>3. TypeOK'
  BY <1>1, <1>2 DEF MainInv, TypeOK, GradingInv, BoundedTypeOK
<1>4. RunnerDone' /\ ExitStatus'
  BY <1>1 DEF MainInv, RunnerDone, ExitStatus
<1>5. Placed' /\ Verdicts'
  BY <1>1 DEF MainInv, Placed, Verdicts, Alive
<1> QED  BY <1>2, <1>3, <1>4, <1>5 DEF MainInv

LEMMA ReportStep ==
  ASSUME MainInv, Alive, Report
  PROVE  MainInv'
<1>1. /\ place = "measure" /\ place' = "destroy" /\ mpc = "returned"
      /\ UNCHANGED vars
      /\ UNCHANGED <<caller, runner, holder, library, loaded, exit>>
      /\ passed' = IF failed = {} THEN passed \cup {library} ELSE passed
  BY DEF Report, Place, Alone, boundedVars
<1>2. GradingInv' /\ UNCHANGED <<mpc, error, pc>>
  BY <1>1, GradingAlone DEF MainInv, vars, masterVars, workerVars
<1>3. limit' \in [Jobs -> BOOLEAN]
  <2>1. limit' = limit \/ \E tick \in [Jobs -> Ticks] : limit' = [j \in Jobs |-> Limit(tick[j]) # InvalidTick]
    BY DEF Report, SetLimits
  <2> QED  BY <2>1, MainTypes
<1>4. passed' = IF error THEN 1 .. library - 1 ELSE 1 .. library
  <2>1. passed = 1 .. library - 1
    BY <1>1 DEF MainInv, Verdicts
  <2>2. error <=> failed # {}
    BY <1>1 DEF MainInv, GradingInv, Failures
  <2>3. (1 .. library - 1) \cup {library} = 1 .. library
    BY MainTypes, Libraries
  <2> QED  BY <1>1, <2>1, <2>2, <2>3
<1>5. TypeOK'
  <2>1. passed' \subseteq 1 .. NbLibraries
    <3>1. passed \subseteq 1 .. NbLibraries /\ library \in 1 .. NbLibraries
      BY DEF MainInv, TypeOK
    <3> QED  BY <1>1, <3>1
  <2> QED  BY <1>1, <1>2, <1>3, <2>1 DEF MainInv, TypeOK, GradingInv, BoundedTypeOK
<1>6. RunnerDone' /\ ExitStatus'
  BY <1>1 DEF MainInv, RunnerDone, ExitStatus, Alive
<1>7. Placed'
  <2>1. status = "Quit"
    BY <1>1 DEF MainInv, GradingInv, Quitting
  <2>2. WorkersRest'
    BY <1>2, <2>1 DEF MainInv, GradingInv, Quitting, Between, WorkersRest
  <2> QED  BY <1>1, <1>2, <2>2 DEF MainInv, Placed, Alive
<1>8. Verdicts'
  BY <1>1, <1>2, <1>4 DEF MainInv, Verdicts, Alive
<1> QED  BY <1>2, <1>5, <1>6, <1>7, <1>8 DEF MainInv

LEMMA NextLibraryStep ==
  ASSUME MainInv, Alive, NextLibrary
  PROVE  MainInv'
<1>1. /\ place = "next" /\ caller # "threw" /\ ~error
      /\ UNCHANGED vars
      /\ UNCHANGED <<caller, runner, holder, loaded, limit, passed>>
  BY DEF NextLibrary, Alone, boundedVars
<1>2. GradingInv' /\ UNCHANGED <<mpc, error>> /\ WorkersRest' = WorkersRest
  BY <1>1, GradingAlone DEF MainInv, vars, masterVars, workerVars, WorkersRest
<1>3. /\ passed = 1 .. library /\ caller = "returned" /\ ~loaded /\ WorkersRest
  BY <1>1 DEF MainInv, Verdicts, Placed
<1>4. CASE library < NbLibraries
  <2>1. library' = library + 1 /\ place' = "load" /\ UNCHANGED exit
    BY <1>4 DEF NextLibrary
  <2>2. library' \in 1 .. NbLibraries
    BY <1>4, <2>1, MainTypes
  <2>3. 1 .. library' - 1 = 1 .. library
    BY <2>1, MainTypes, Libraries
  <2>4. TypeOK'
    BY <1>1, <1>2, <2>1, <2>2 DEF MainInv, TypeOK, GradingInv, BoundedTypeOK
  <2>5. RunnerDone' /\ ExitStatus'
    BY <1>1, <2>1 DEF MainInv, RunnerDone, ExitStatus
  <2>6. Placed' /\ Verdicts'
    BY <1>1, <1>2, <1>3, <2>1, <2>3 DEF MainInv, Placed, Verdicts, Alive
  <2> QED  BY <1>2, <2>4, <2>5, <2>6 DEF MainInv
<1>5. CASE ~(library < NbLibraries)
  <2>1. exit' = "0" /\ place' = "ended" /\ UNCHANGED library
    BY <1>5 DEF NextLibrary, Exit
  <2>2. library = NbLibraries
    BY <1>5, MainTypes
  <2>3. TypeOK'
    BY <1>1, <1>2, <2>1 DEF MainInv, TypeOK, GradingInv, BoundedTypeOK
  <2>4. RunnerDone' /\ ExitStatus'
    BY <1>1, <1>3, <2>1, <2>2 DEF MainInv, RunnerDone, ExitStatus
  <2>5. Placed' /\ Verdicts'
    BY <2>1 DEF Placed, Verdicts, Alive
  <2> QED  BY <1>2, <2>3, <2>4, <2>5 DEF MainInv
<1> QED  BY <1>4, <1>5

(* The process ends before the last library has passed. *)
LEMMA ExitStep ==
  ASSUME MainInv, Alive, LoadFails \/ CreateFails \/ DestroyOverrun \/ ReturnError \/ MeasureThrew
  PROVE  MainInv'
<1> USE DEF Exit, Alone
<1>1. /\ UNCHANGED vars /\ UNCHANGED <<caller, runner, holder, library, limit, passed>>
      /\ place' = "ended" /\ loaded' \in BOOLEAN /\ exit' \in {"1", "2", "terminate"}
  BY MainTypes DEF LoadFails, CreateFails, DestroyOverrun, ReturnError, MeasureThrew, boundedVars
<1>2. GradingInv'
  BY <1>1, GradingAlone DEF MainInv
<1>3. TypeOK'
  BY <1>1, <1>2 DEF MainInv, TypeOK, GradingInv, BoundedTypeOK
<1>4. RunnerDone' /\ Placed' /\ Verdicts'
  BY <1>1 DEF MainInv, RunnerDone, Placed, Verdicts, Alive
<1>5. ExitStatus'
  <2>1. 1 .. library - 1 # 1 .. NbLibraries
    BY MainTypes, Libraries
  <2>2. CASE exit' = "terminate"
    BY <2>2 DEF ExitStatus
  <2>3. CASE exit' # "terminate"
    <3>1. \/ place \in {"load", "measure"}
          \/ place = "next" /\ (caller = "threw" \/ error)
      BY <2>3 DEF LoadFails, CreateFails, DestroyOverrun, ReturnError, MeasureThrew
    <3>2. passed = 1 .. library - 1
      BY <3>1 DEF MainInv, Verdicts
    <3> QED  BY <1>1, <2>1, <3>2 DEF ExitStatus
  <2> QED  BY <2>2, <2>3
<1> QED  BY <1>2, <1>3, <1>4, <1>5 DEF MainInv

LEMMA MainAlone ==
  ASSUME MainInv, UNCHANGED allVars
  PROVE  MainInv'
<1>1. GradingInv' /\ UNCHANGED <<vars, boundedVars, mainVars>>
  BY GradingAlone DEF MainInv, allVars
<1>2. /\ UNCHANGED <<caller, runner, holder, place, library, loaded, limit, exit, passed>>
      /\ UNCHANGED <<mpc, error, pc>>
  BY <1>1 DEF boundedVars, mainVars, vars, masterVars, workerVars
<1>3. TypeOK' /\ RunnerDone' /\ ExitStatus'
  BY <1>1, <1>2 DEF MainInv, TypeOK, GradingInv, BoundedTypeOK, RunnerDone, ExitStatus
<1>4. Placed' /\ Verdicts'
  BY <1>2 DEF MainInv, Placed, Verdicts, Alive, WorkersRest
<1> QED  BY <1>1, <1>3, <1>4 DEF MainInv

LEMMA EvaluationStart ==
  ASSUME EvaluationInit
  PROVE  MainInv
<1>1. GradingInv
  BY MeasureStart DEF EvaluationInit
<1>2. place = "load" /\ library = 1 /\ loaded = FALSE /\ exit = "none" /\ passed = {}
  BY DEF EvaluationInit
<1>3. caller = "off" /\ runner = "none" /\ holder = "none"
  BY DEF EvaluationInit, BoundedInit
<1>4. limit \in [Jobs -> BOOLEAN] /\ \A w \in Workers : pc[w] = "wait"
  BY DEF EvaluationInit, MeasureInit
<1>5. 1 \in 1 .. NbLibraries /\ 1 .. 1 - 1 = {}
  BY EvaluationAssumption
<1>6. TypeOK
  BY <1>1, <1>2, <1>3, <1>4, <1>5 DEF TypeOK, GradingInv, BoundedTypeOK
<1>7. RunnerDone /\ ExitStatus
  BY <1>2, <1>3 DEF RunnerDone, ExitStatus
<1>8. Placed /\ Verdicts
  BY <1>2, <1>3, <1>4, <1>5 DEF Placed, Verdicts, WorkersRest, Resting
<1> QED  BY <1>1, <1>6, <1>7, <1>8 DEF MainInv

LEMMA EvaluationSteps ==
  ASSUME MainInv, [EvaluationNext]_allVars
  PROVE  MainInv'
<1>1. CASE Main \/ Fails
  BY <1>1, PlaceStep, CreatedStep, ReportStep, NextLibraryStep, ExitStep DEF Main, Fails
<1>2. CASE \/ Bounded(CallerStep) \/ Bounded(RunnerStep)
           \/ Bounded(SpuriousWakeUp) \/ Bounded(FuncHangs)
  BY <1>2, BoundedStep DEF Bounded, Unmeasured
<1>3. CASE \/ Measure(Master) \/ Measure(LatchTimeout) \/ Measure(SpawnFails)
           \/ \E w \in Workers : Measure(Worker(w))
  BY <1>3, MeasureStep DEF Measure
<1>4. CASE UNCHANGED allVars
  BY <1>4, MainAlone
<1> QED  BY <1>1, <1>2, <1>3, <1>4 DEF EvaluationNext

LEMMA Loaded ==
  ASSUME MainInv
  PROVE  LoadedWhileUsed
<1> SUFFICES ASSUME Alive, InLibrary, ~loaded
             PROVE  place = "next" /\ caller = "threw"
  BY DEF LoadedWhileUsed
<1>1. place \in {"load", "next"} /\ WorkersRest
  BY DEF MainInv, Placed
<1>2. runner \in {"func", "hung"}
  BY <1>1 DEF InLibrary, WorkersRest, Resting
<1>3. caller \notin {"off", "returned"}
  BY <1>2 DEF MainInv, RunnerDone
<1> QED  BY <1>1, <1>3 DEF MainInv, Placed

LEMMA Evaluated == EvaluationSpec => []MainInv
<1>1. EvaluationInit => MainInv
  BY EvaluationStart
<1>2. MainInv /\ [EvaluationNext]_allVars => MainInv'
  BY EvaluationSteps
<1> QED  BY <1>1, <1>2, PTL DEF EvaluationSpec

(* Every variable keeps its type: master_wait never finds a status it calls *)
(* unreachable, and no counter leaves its range.                            *)
THEOREM TypesKept == EvaluationSpec => []TypeOK
<1>1. MainInv => TypeOK
  BY DEF MainInv
<1> QED  BY <1>1, Evaluated, PTL

(* Barrier::sync lets no thread through before every thread has come, in    *)
(* every library that is evaluated.                                         *)
THEOREM NobodyEarly == EvaluationSpec => []BarrierSync
<1>1. MainInv => BarrierSync
  BY BarrierSafe DEF MainInv, GradingInv
<1> QED  BY <1>1, Evaluated, PTL

(* Sync::worker_wait starts the workers together: none misses a round, none *)
(* goes through one twice.                                                  *)
THEOREM RoundsTogether == EvaluationSpec => []StartTogether
<1>1. MainInv => StartTogether
  BY Together DEF MainInv
<1> QED  BY <1>1, Evaluated, PTL

(* Sync::master_wait returns when every worker is done with the round that  *)
(* the master started, and says Fail if and only if one of them failed.     *)
THEOREM ResultTrue == EvaluationSpec => []ResultOfRound
<1>1. MainInv => ResultOfRound
  BY Result DEF MainInv
<1> QED  BY <1>1, Evaluated, PTL

(* No thread is in a library that main has unloaded, except the one of a    *)
(* creation that was overdue (TransactionalLibrary, bounded_run).           *)
THEOREM NoneInUnloaded == EvaluationSpec => []LoadedWhileUsed
<1>1. MainInv => LoadedWhileUsed
  BY Loaded
<1> QED  BY <1>1, Evaluated, PTL

(* main returns 0 only if every library passed, 1 or 2 only if one did not. *)
THEOREM ExitTrue == EvaluationSpec => []ExitStatus
<1>1. MainInv => ExitStatus
  BY DEF MainInv
<1> QED  BY <1>1, Evaluated, PTL

=============================================================================
