------------------------------- MODULE Grading -------------------------------
(***************************************************************************)
(* The synchronisation of the grading program: measure and Sync of         *)
(* grading/grading.cpp, Latch and Chrono of grading/common.hpp, and the    *)
(* barriers of WorkloadBank::check.  A master starts the workers together, *)
(* round after round (init, NbRepeats times run, check), and waits for the *)
(* last one.                                                               *)
(*                                                                         *)
(* A step is one access to an atomic, a latch operation or a call of the   *)
(* workload, of which only the outcome matters: nothing, an error message  *)
(* or an exception.                                                        *)
(***************************************************************************)
EXTENDS SpinBarrier

CONSTANTS
  First,     \* the worker with uid 0
  NbRepeats, \* nbrepeats: how often run is measured
  Errors,    \* calls of the workload may return an error message
  Throws,    \* calls of the workload may throw
  Hangs      \* a transaction may never return

ASSUME GradingAssumption ==
  /\ First \in Workers
  /\ NbRepeats \in Nat
  /\ {Errors, Throws, Hangs} \subseteq BOOLEAN

VARIABLES
  status,  \* Sync::status
  nbready, \* Sync::nbready
  errmsg,  \* Sync::errmsg is set
  raised,  \* Latch::raised
  local,   \* Chrono::local: the round in which the segment was started
  total,   \* Chrono::total: the segments <<started, stopped>> that were added up
  mpc,     \* where the master is
  round,   \* the master's round, from 1
  maxtick, \* maxtick[j]: the master waits for job j with a time-out
  error,   \* measure returns an error message
  pc,      \* pc[w]: where worker w is
  wround,  \* wround[w]: the rounds worker w has begun
  outcome, \* outcome[w]: of the worker's last call: "ok", "error" or "throw"
  failed   \* history: rounds in which a worker failed

syncVars   == <<status, nbready, errmsg, raised, local, total>>
masterVars == <<mpc, round, maxtick, error>>
masterRest == <<round, maxtick, error>>
workerVars == <<pc, wround, outcome, failed>>
vars       == <<barrierVars, syncVars, masterVars, workerVars>>

Rounds == 1 .. NbRepeats + 2

Jobs == {"init", "run", "check"}

Job(r) == IF r = 1 THEN "init" ELSE IF r = NbRepeats + 2 THEN "check" ELSE "run"

(* measure begins; every worker has been created. *)
MeasureInit ==
  /\ BarrierInit
  /\ status = "Done" /\ nbready = 0 /\ errmsg = FALSE
  /\ raised = FALSE
  /\ local = 0 /\ total = {}
  /\ mpc = "notify" /\ round = 1 /\ error = FALSE
  /\ pc = [w \in Workers |-> "wait"]
  /\ wround = [w \in Workers |-> 0]
  /\ outcome = [w \in Workers |-> "ok"]
  /\ failed = {}

(* The reference is measured without time-outs, other libraries with. *)
Init == MeasureInit /\ \E bounded \in BOOLEAN : maxtick = [j \in Jobs |-> bounded]

-----------------------------------------------------------------------------
(* The master                                                              *)

MGoto(l) == mpc' = l

(* A thread cannot be created: those before it are detached. *)
SpawnFails ==
  /\ mpc = "notify" /\ round = 1
  /\ MGoto("threw")
  /\ UNCHANGED <<syncVars, masterRest, workerVars, barrierVars>>

MasterNotify ==
  /\ mpc = "notify"
  /\ status' = "Wait"
  /\ MGoto("start")
  /\ UNCHANGED <<nbready, errmsg, raised, local, total, masterRest, workerVars, barrierVars>>

(* runtime.start(): the workers may be at work, or done, by now. *)
ChronoStart ==
  /\ mpc = "start"
  /\ local' = round
  /\ MGoto("latch")
  /\ UNCHANGED <<status, nbready, errmsg, raised, total, masterRest, workerVars, barrierVars>>

(* Latch::wait: raised, and reset... *)
LatchWait ==
  /\ mpc = "latch" /\ raised
  /\ raised' = FALSE
  /\ MGoto("result")
  /\ UNCHANGED <<status, nbready, errmsg, local, total, masterRest, workerVars, barrierVars>>

(* ... or overdue: the exception detaches the workers and leaves measure. *)
LatchTimeout ==
  /\ mpc = "latch" /\ ~raised /\ maxtick[Job(round)]
  /\ MGoto("threw")
  /\ UNCHANGED <<syncVars, masterRest, workerVars, barrierVars>>

(* Mutant: the error message is lost. *)
ResultWithoutError ==
  /\ mpc = "result"
  /\ CASE status = "Done" /\ round # NbRepeats + 2 -> MGoto("notify") /\ round' = round + 1
       [] status = "Done" /\ round = NbRepeats + 2 -> MGoto("join") /\ UNCHANGED round
       [] status = "Fail" -> MGoto("join") /\ UNCHANGED round
       [] OTHER -> MGoto("unreachable") /\ UNCHANGED round
  /\ UNCHANGED <<maxtick, error, syncVars, workerVars, barrierVars>>

(* The switch of master_wait, and what measure does with the result. *)
MasterResult ==
  /\ mpc = "result"
  /\ CASE status = "Done" /\ round # NbRepeats + 2 -> MGoto("notify") /\ round' = round + 1
       [] status = "Done" /\ round = NbRepeats + 2 -> MGoto("join") /\ UNCHANGED round
       [] status = "Fail" -> MGoto("join") /\ UNCHANGED round
       [] OTHER -> MGoto("unreachable") /\ UNCHANGED round
  /\ error' = (status = "Fail")
  /\ UNCHANGED <<maxtick, syncVars, workerVars, barrierVars>>

MasterJoin ==
  /\ mpc = "join"
  /\ status' = "Quit"
  /\ MGoto("joining")
  /\ UNCHANGED <<nbready, errmsg, raised, local, total, masterRest, workerVars, barrierVars>>

Joined ==
  /\ mpc = "joining"
  /\ \A w \in Workers : pc[w] = "exit"
  /\ MGoto("returned")
  /\ UNCHANGED <<syncVars, masterRest, workerVars, barrierVars>>

-----------------------------------------------------------------------------
(* Sync::worker_wait                                                       *)

Goto(w, l) == pc' = [pc EXCEPT ![w] = l]

WorkerSeesWait(w) ==
  /\ pc[w] = "wait" /\ status = "Wait"
  /\ Goto(w, "count")
  /\ UNCHANGED <<syncVars, masterVars, wround, outcome, failed, barrierVars>>

WorkerQuits(w) ==
  /\ pc[w] = "wait" /\ status = "Quit"
  /\ Goto(w, "exit")
  /\ UNCHANGED <<syncVars, masterVars, wround, outcome, failed, barrierVars>>

WorkerReady(w) ==
  /\ pc[w] = "count"
  /\ nbready' = nbready + 1
  /\ Goto(w, IF nbready + 1 = Cardinal THEN "reset" ELSE "spin")
  /\ UNCHANGED <<status, errmsg, raised, local, total, masterVars, wround, outcome,
                 failed, barrierVars>>

(* Mutant: the last worker does not reset the counter. *)
NoReset(w) ==
  /\ pc[w] = "reset"
  /\ Goto(w, "release")
  /\ UNCHANGED <<syncVars, masterVars, wround, outcome, failed, barrierVars>>

ResetReady(w) ==
  /\ pc[w] = "reset"
  /\ nbready' = 0
  /\ Goto(w, "release")
  /\ UNCHANGED <<status, errmsg, raised, local, total, masterVars, wround, outcome,
                 failed, barrierVars>>

(* worker_wait returns true: the next job begins. *)
Begin(w) ==
  /\ wround' = [wround EXCEPT ![w] = @ + 1]
  /\ Goto(w, Job(wround[w] + 1))
  /\ UNCHANGED <<outcome, failed>>

StatusRun(w) ==
  /\ pc[w] = "release"
  /\ status' = "Run"
  /\ Begin(w)
  /\ UNCHANGED <<nbready, errmsg, raised, local, total, masterVars, barrierVars>>

(* Mutant: a worker does not wait for the others. *)
WorkerDoesNotWait(w) ==
  /\ pc[w] = "spin"
  /\ Begin(w)
  /\ UNCHANGED <<syncVars, masterVars, barrierVars>>

WorkerSeesRun(w) ==
  /\ pc[w] = "spin" /\ status \in {"Run", "Abort"}
  /\ Begin(w)
  /\ UNCHANGED <<syncVars, masterVars, barrierVars>>

-----------------------------------------------------------------------------
(* The jobs                                                                *)

Outcomes == {"ok"} \cup {o \in {"error"} : Errors} \cup {o \in {"throw"} : Throws}

(* An error message or an exception goes to worker_notify, as does nullptr. *)
Finish(w, o) ==
  /\ outcome' = [outcome EXCEPT ![w] = o]
  /\ Goto(w, IF o = "ok" THEN "notify" ELSE "error")
  /\ failed' = IF o = "ok" THEN failed ELSE failed \cup {wround[w]}

Continue(w, l) == Goto(w, l) /\ UNCHANGED <<outcome, failed>>

Hang(w) == Hangs /\ Continue(w, "hung")

(* WorkloadBank::init and WorkloadBank::run *)
InitOrRun(w) ==
  /\ pc[w] \in {"init", "run"}
  /\ (\E o \in Outcomes : Finish(w, o)) \/ Hang(w)
  /\ UNCHANGED <<syncVars, masterVars, wround, barrierVars>>

(* WorkloadBank::check: its three barriers and what lies between them. *)
BarrierCalls == {"check", "init_failed", "start", "loop_failed", "finish"}

CallBarrier(w) ==
  /\ pc[w] \in BarrierCalls
  /\ Enter(w)
  /\ UNCHANGED <<syncVars, masterVars, workerVars>>

InBarrier(w) ==
  /\ pc[w] \in BarrierCalls
  /\ BarrierStep(w)
  /\ UNCHANGED <<syncVars, masterVars, workerVars>>

(* sync() returns to the place l of check. *)
Returned(w, l) ==
  /\ pc[w] = l /\ at[w] = "done"
  /\ Move(w, "out")
  /\ UNCHANGED <<step, mode, entered, left, syncVars, masterVars, wround>>

Throw(w) == Throws /\ Finish(w, "throw")

(* Only the first worker initializes and checks the counter. *)
CheckInit(w) ==
  /\ Returned(w, "check")
  /\ \/ Continue(w, "start")
     \/ w = First /\ Errors /\ Continue(w, "init_failed")
     \/ w = First /\ (Throw(w) \/ Hang(w))

CheckInitFailed(w) ==
  /\ Returned(w, "init_failed")
  /\ Continue(w, "loop_failed")

(* The counter increased, or the transactions went through, or one threw. *)
CheckLoop(w) ==
  /\ Returned(w, "start")
  /\ \/ Continue(w, "finish")
     \/ Errors /\ Continue(w, "loop_failed")
     \/ Throw(w)
     \/ Hang(w)

CheckLoopFailed(w) ==
  /\ Returned(w, "loop_failed")
  /\ Finish(w, "error")

CheckFinish(w) ==
  /\ Returned(w, "finish")
  /\ \/ Finish(w, "ok")
     \/ w = First /\ ((\E o \in Outcomes : Finish(w, o)) \/ Hang(w))

-----------------------------------------------------------------------------
(* Sync::worker_notify                                                     *)

WorkerError(w) ==
  /\ pc[w] = "error"
  /\ errmsg' = TRUE
  /\ status' = "Abort"
  /\ Goto(w, "notify")
  /\ UNCHANGED <<nbready, raised, local, total, masterVars, wround, outcome, failed,
                 barrierVars>>

(* A worker that threw returns from its thread once it has notified. *)
AfterNotify(w) == IF outcome[w] = "throw" THEN "exit" ELSE "wait"

WorkerDone(w) ==
  /\ pc[w] = "notify"
  /\ nbready' = nbready + 1
  /\ Goto(w, IF nbready + 1 = Cardinal THEN "last" ELSE AfterNotify(w))
  /\ UNCHANGED <<status, errmsg, raised, local, total, masterVars, wround, outcome,
                 failed, barrierVars>>

LastResets(w) ==
  /\ pc[w] = "last"
  /\ nbready' = 0
  /\ Goto(w, "verdict")
  /\ UNCHANGED <<status, errmsg, raised, local, total, masterVars, wround, outcome,
                 failed, barrierVars>>

(* Mutant: the failure of the other workers is forgotten. *)
VerdictOfLast(w) ==
  /\ pc[w] = "verdict"
  /\ status' = IF outcome[w] # "ok" THEN "Fail" ELSE "Done"
  /\ Goto(w, "stop")
  /\ UNCHANGED <<nbready, errmsg, raised, local, total, masterVars, wround, outcome,
                 failed, barrierVars>>

(* Between the load and the store nobody else writes the status. *)
Verdict(w) ==
  /\ pc[w] = "verdict"
  /\ status' = IF status = "Abort" THEN "Fail" ELSE "Done"
  /\ Goto(w, "stop")
  /\ UNCHANGED <<nbready, errmsg, raised, local, total, masterVars, wround, outcome,
                 failed, barrierVars>>

(* runtime.stop(): total += now - local, and total is never reset. *)
ChronoStop(w) ==
  /\ pc[w] = "stop"
  /\ total' = total \cup {<<local, wround[w]>>}
  /\ Goto(w, "raise")
  /\ UNCHANGED <<status, nbready, errmsg, raised, local, masterVars, wround, outcome,
                 failed, barrierVars>>

LatchRaise(w) ==
  /\ pc[w] = "raise"
  /\ raised' = TRUE
  /\ Goto(w, AfterNotify(w))
  /\ UNCHANGED <<status, nbready, errmsg, local, total, masterVars, wround, outcome,
                 failed, barrierVars>>

-----------------------------------------------------------------------------
(* Specification                                                           *)

Master ==
  \/ MasterNotify \/ ChronoStart \/ LatchWait \/ MasterResult \/ MasterJoin \/ Joined

Check(w) ==
  \/ CallBarrier(w) \/ InBarrier(w)
  \/ CheckInit(w) \/ CheckInitFailed(w) \/ CheckLoop(w) \/ CheckLoopFailed(w)
  \/ CheckFinish(w)

Worker(w) ==
  /\ mpc # "threw"   \* main prints the exception and calls exit
  /\ \/ WorkerSeesWait(w) \/ WorkerQuits(w) \/ WorkerReady(w) \/ ResetReady(w)
     \/ StatusRun(w) \/ WorkerSeesRun(w)
     \/ InitOrRun(w) \/ Check(w)
     \/ WorkerError(w) \/ WorkerDone(w) \/ LastResets(w) \/ Verdict(w)
     \/ ChronoStop(w) \/ LatchRaise(w)

(* A worker threw in check: the others may wait for it at a barrier.  Or it *)
(* is in a transaction that does not return.                               *)
Stuck ==
  \/ NbRepeats + 2 \in failed /\ \E w \in Workers : outcome[w] = "throw"
  \/ \E w \in Workers : pc[w] = "hung"

Ended == (mpc \in {"returned", "threw"} \/ Stuck) /\ UNCHANGED vars

Next == Master \/ LatchTimeout \/ SpawnFails \/ (\E w \in Workers : Worker(w)) \/ Ended

Spec == Init /\ [][Next]_vars

-----------------------------------------------------------------------------
(* Properties                                                              *)

(* Every variable keeps its type; in particular the master never finds the *)
(* status that master_wait calls unreachable.                              *)
GradingTypeOK ==
  /\ BarrierTypeOK
  /\ status \in {"Wait", "Run", "Abort", "Done", "Fail", "Quit"}
  /\ nbready \in 0 .. Cardinal
  /\ errmsg \in BOOLEAN /\ raised \in BOOLEAN
  /\ local \in {0} \cup Rounds /\ total \subseteq ({0} \cup Rounds) \X Rounds
  /\ mpc \in {"notify", "start", "latch", "result", "join", "joining", "returned", "threw"}
  /\ round \in Rounds
  /\ maxtick \in [Jobs -> BOOLEAN] /\ error \in BOOLEAN
  /\ pc \in [Workers -> {"wait", "count", "reset", "release", "spin", "init", "run",
                        "error", "notify", "last", "verdict", "stop", "raise", "exit", "hung"}
                       \cup BarrierCalls]
  /\ wround \in [Workers -> {0} \cup Rounds]
  /\ outcome \in [Workers -> {"ok", "error", "throw"}]
  /\ failed \subseteq Rounds

(* worker_wait starts the workers together: when one has begun a round every *)
(* other one has begun it too or is spinning, counted in, on its start.  No *)
(* worker misses a round or goes through one twice, though all of them poll *)
(* the same status word.                                                   *)
StartTogether ==
  \A w, u \in Workers :
    wround[w] > wround[u] => wround[w] = wround[u] + 1 /\ pc[u] = "spin"

(* What master_wait returns is about the round the master started: every    *)
(* worker has finished its part, and the status is Fail, with a message, if *)
(* and only if one of them failed, whichever was last (worker_notify).      *)
ResultOfRound ==
  raised \/ mpc = "result" =>
    /\ \A w \in Workers : wround[w] = round /\ pc[w] \in {"wait", "exit"}
    /\ status = (IF round \in failed THEN "Fail" ELSE "Done")
    /\ round \in failed => errmsg

(* The runtime that master_wait returns is of the round the master started: *)
(* nothing that was measured in an earlier round is part of it (comment at  *)
(* Sync::runtime).  The code violates it: nothing calls Chrono::reset.      *)
RuntimeOfRound ==
  mpc = "result" => \A segment \in total : segment[2] = round

=============================================================================
