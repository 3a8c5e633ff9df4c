------------------------------ MODULE BoundedRun ------------------------------
(***************************************************************************)
(* bounded_run of grading/common.hpp: a function runs in a thread of its   *)
(* own (the runner) and the caller waits for its signal, on a condition    *)
(* variable and without a predicate, no longer than a given time.          *)
(***************************************************************************)
EXTENDS Integers

VARIABLES
  caller, \* where the caller is; "off" when bounded_run is not active
  runner, \* where the runner is
  holder  \* the thread that has bounded_run's mutex

boundedVars == <<caller, runner, holder>>

BoundedInit == caller = "off" /\ runner = "none" /\ holder = "none"

Caller(l, m) == caller = l /\ caller' = m
Runner(l, m) == runner = l /\ runner' = m

-----------------------------------------------------------------------------
(* The caller                                                              *)

(* The mutex is taken before the runner exists. *)
Call ==
  /\ caller \in {"off", "returned"}
  /\ caller' = "spawn" /\ holder' = "caller" /\ runner' = "none"

Spawn ==
  /\ Caller("spawn", "wait")
  /\ runner' = "func"
  /\ UNCHANGED holder

(* cv.wait_for releases the mutex... *)
WaitFor ==
  /\ Caller("wait", "sleeping")
  /\ holder' = "none"
  /\ UNCHANGED runner

(* ... until the time is over... *)
Overtime == Caller("sleeping", "overtime") /\ UNCHANGED <<runner, holder>>

(* ... or without any reason... *)
SpuriousWakeUp == Caller("sleeping", "awake") /\ UNCHANGED <<runner, holder>>

(* ... and takes it again.  A caller that was awoken may be told that the  *)
(* time was over by then.                                                  *)
WaitReturns ==
  /\ holder = "none" /\ holder' = "caller"
  /\ \/ Caller("awake", "join")
     \/ Caller("awake", "detach")
     \/ Caller("overtime", "detach")
  /\ UNCHANGED runner

Join ==
  /\ Caller("join", "returned")
  /\ runner = "exit"
  /\ holder' = "none"
  /\ UNCHANGED runner

(* The exception releases the mutex and ends the life of it and of cv. *)
Detach ==
  /\ Caller("detach", "threw")
  /\ holder' = "none"
  /\ UNCHANGED runner

-----------------------------------------------------------------------------
(* The runner.  It stops where it would use a mutex that is gone.          *)

FuncReturns == Runner("func", "lock") /\ UNCHANGED <<caller, holder>>

FuncHangs == Runner("func", "hung") /\ UNCHANGED <<caller, holder>>

RunnerLocks ==
  /\ Runner("lock", "notify")
  /\ caller # "threw"
  /\ holder = "none" /\ holder' = "runner"
  /\ UNCHANGED caller

(* Mutant: the runner does not tell the caller. *)
NotifyNobody == Runner("notify", "unlock") /\ UNCHANGED <<caller, holder>>

Notify ==
  /\ Runner("notify", "unlock")
  /\ caller' = IF caller = "sleeping" THEN "awake" ELSE caller
  /\ UNCHANGED holder

RunnerUnlocks ==
  /\ Runner("unlock", "exit")
  /\ holder' = "none"
  /\ UNCHANGED caller

-----------------------------------------------------------------------------

CallerStep == Spawn \/ WaitFor \/ Overtime \/ WaitReturns \/ Join \/ Detach
RunnerStep == FuncReturns \/ RunnerLocks \/ Notify \/ RunnerUnlocks

(* The caller joins, with the mutex in its hand, a runner that needs it. *)
JoinsTooEarly == caller = "join" /\ runner # "exit"

BoundedTypeOK ==
  /\ caller \in {"off", "spawn", "wait", "sleeping", "awake", "overtime", "join", "detach",
                 "returned", "threw"}
  /\ runner \in {"none", "func", "hung", "lock", "notify", "unlock", "exit"}
  /\ holder \in {"none", "caller", "runner"}

=============================================================================
