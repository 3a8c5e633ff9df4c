------------------------------ MODULE Evaluation ------------------------------
(***************************************************************************)
(* main of grading/grading.cpp: the evaluation of one library after the    *)
(* other, the reference first.  A library is loaded, its memory created    *)
(* (with bounded_run), measured (Grading), destroyed (with bounded_run)    *)
(* and unloaded.  The time-outs of all but the first depend on the times   *)
(* measured for the first.                                                 *)
(*                                                                         *)
(* Creation and destruction may fail or never return, and measure may do   *)
(* all that Grading lets it do.                                            *)
(***************************************************************************)
EXTENDS Grading, BoundedRun

CONSTANTS
  NbLibraries,  \* argc - 2
  Ticks,        \* times that measure may return
  SlowFactor,   \* slow_factor
  InvalidTick,  \* Chrono::invalid_tick
  TickRange     \* ticks are computed modulo TickRange

ASSUME EvaluationAssumption ==
  /\ {NbLibraries, TickRange} \subseteq Nat \ {0}
  /\ {SlowFactor, InvalidTick} \subseteq Nat
  /\ Ticks \subseteq 0 .. TickRange - 1 /\ InvalidTick < TickRange

VARIABLES
  place,   \* where main is
  library, \* the library that is evaluated
  loaded,  \* its code is mapped (dlopen)
  limit,   \* limit[j]: whether maxtick_init, _perf, _chck differ from invalid_tick
  exit,    \* the exit status, "terminate" for std::terminate, "none" before
  passed   \* history: the libraries of which no worker failed in any round

mainVars == <<place, library, loaded, limit, exit, passed>>
allVars  == <<vars, boundedVars, mainVars>>

EvaluationInit ==
  /\ MeasureInit /\ maxtick = [j \in Jobs |-> FALSE]
  /\ BoundedInit
  /\ place = "load" /\ library = 1 /\ loaded = FALSE
  /\ limit = [j \in Jobs |-> FALSE]
  /\ exit = "none" /\ passed = {}

Unmeasured == UNCHANGED vars
Alone      == UNCHANGED <<vars, boundedVars>>

Place(l, m) == place = l /\ place' = m

Exit(code) == exit' = code /\ place' = "ended"

-----------------------------------------------------------------------------
(* TransactionalLibrary                                                    *)

Load ==
  /\ Place("load", "create")
  /\ loaded' = TRUE
  /\ Alone /\ UNCHANGED <<library, limit, exit, passed>>

(* The path or the module is missing, or a symbol of the module that was   *)
(* loaded; then there is no object whose destructor would unload it.       *)
LoadFails ==
  /\ place = "load"
  /\ loaded' \in BOOLEAN
  /\ Exit("1")
  /\ Alone /\ UNCHANGED <<library, limit, passed>>

-----------------------------------------------------------------------------
(* TransactionalMemory: creation and destruction                           *)

Create ==
  /\ Place("create", "creating")
  /\ Call
  /\ Unmeasured /\ UNCHANGED <<library, loaded, limit, exit, passed>>

(* tm_create returns invalid_shared: the exception TransactionCreate       *)
(* leaves the thread it is thrown in.                                      *)
CreateFails ==
  /\ place = "creating" /\ runner = "func"
  /\ Exit("terminate")
  /\ Alone /\ UNCHANGED <<library, loaded, limit, passed>>

(* A new Sync, a new workload and new workers, with the time-outs known by *)
(* now: MeasureInit in the next state.                                     *)
MeasureStarts ==
  /\ step' = 0 /\ mode' = "enter"
  /\ at' = [w \in Workers |-> "out"]
  /\ entered' = [w \in Workers |-> 0] /\ left' = [w \in Workers |-> 0]
  /\ status' = "Done" /\ nbready' = 0 /\ errmsg' = FALSE
  /\ raised' = FALSE /\ local' = 0 /\ total' = {}
  /\ mpc' = "notify" /\ round' = 1 /\ maxtick' = limit /\ error' = FALSE
  /\ pc' = [w \in Workers |-> "wait"]
  /\ wround' = [w \in Workers |-> 0]
  /\ outcome' = [w \in Workers |-> "ok"] /\ failed' = {}

Created ==
  /\ Place("creating", "measure") /\ caller = "returned"
  /\ MeasureStarts
  /\ UNCHANGED <<boundedVars, library, loaded, limit, exit, passed>>

(* The exception leaves the constructor of the workload, main unloads the  *)
(* library and prints the message.                                         *)
CreateOverrun ==
  /\ Place("creating", "unload") /\ caller = "threw"
  /\ Alone /\ UNCHANGED <<library, loaded, limit, exit, passed>>

Destroy ==
  /\ Place("destroy", "destroying")
  /\ Call
  /\ Unmeasured /\ UNCHANGED <<library, loaded, limit, exit, passed>>

Destroyed ==
  /\ Place("destroying", "unload") /\ caller = "returned"
  /\ Alone /\ UNCHANGED <<library, loaded, limit, exit, passed>>

(* The exception leaves a destructor. *)
DestroyOverrun ==
  /\ place = "destroying" /\ caller = "threw"
  /\ Exit("terminate")
  /\ Alone /\ UNCHANGED <<library, loaded, limit, passed>>

Unload ==
  /\ Place("unload", "next")
  /\ loaded' = FALSE
  /\ Alone /\ UNCHANGED <<library, limit, exit, passed>>

(* Creation was overdue, or measure returned an error. *)
ReturnError ==
  /\ place = "next" /\ (caller = "threw" \/ error)
  /\ Exit("1")
  /\ Alone /\ UNCHANGED <<library, loaded, limit, passed>>

NextLibrary ==
  /\ place = "next" /\ caller # "threw" /\ ~error
  /\ IF library < NbLibraries
     THEN library' = library + 1 /\ place' = "load" /\ UNCHANGED exit
     ELSE Exit("0") /\ UNCHANGED library
  /\ Alone /\ UNCHANGED <<loaded, limit, passed>>

-----------------------------------------------------------------------------
(* The result of measure                                                   *)

(* Mutant: a limit may become the value that says there is none. *)
LimitUnlucky(tick) == (SlowFactor * tick) % TickRange

(* slow_factor * tick, and one more when that is invalid_tick *)
Limit(tick) ==
  LET slow == (SlowFactor * tick) % TickRange
  IN  IF slow = InvalidTick THEN (slow + 1) % TickRange ELSE slow

(* The first library that is measured well is the reference. *)
SetLimits ==
  IF limit["init"]
  THEN UNCHANGED limit
  ELSE \E tick \in [Jobs -> Ticks] :
         limit' = [j \in Jobs |-> Limit(tick[j]) # InvalidTick]

Report ==
  /\ Place("measure", "destroy") /\ mpc = "returned"
  /\ IF error THEN UNCHANGED limit ELSE SetLimits
  /\ passed' = IF failed = {} THEN passed \cup {library} ELSE passed
  /\ Alone /\ UNCHANGED <<library, loaded, exit>>

(* Mutant: the exception unwinds as any other. *)
MeasureThrewUnwinds ==
  /\ Place("measure", "unload") /\ mpc = "threw"
  /\ Alone /\ UNCHANGED <<library, loaded, limit, exit, passed>>

(* An exception of measure: nothing is destroyed or unloaded. *)
MeasureThrew ==
  /\ place = "measure" /\ mpc = "threw"
  /\ Exit("2")
  /\ Alone /\ UNCHANGED <<library, loaded, limit, passed>>

-----------------------------------------------------------------------------
(* Specification.  No thread takes a step when the process has ended.      *)

Alive == exit = "none"

Main ==
  /\ Alive
  /\ \/ Load \/ Create \/ Created \/ CreateOverrun
     \/ Report \/ MeasureThrew \/ Destroy \/ Destroyed \/ DestroyOverrun
     \/ Unload \/ ReturnError \/ NextLibrary

Fails == Alive /\ (LoadFails \/ CreateFails)

Bounded(A) == Alive /\ A /\ Unmeasured /\ UNCHANGED mainVars
Measure(A) == Alive /\ place = "measure" /\ A /\ UNCHANGED <<boundedVars, mainVars>>

EvaluationNext ==
  \/ Main \/ Fails
  \/ Bounded(CallerStep) \/ Bounded(RunnerStep)
  \/ Bounded(SpuriousWakeUp) \/ Bounded(FuncHangs)
  \/ Measure(Master) \/ Measure(LatchTimeout) \/ Measure(SpawnFails)
  \/ \E w \in Workers : Measure(Worker(w))

EvaluationSpec == EvaluationInit /\ [][EvaluationNext]_allVars

(* Every thread is scheduled and time passes, so that a time-out comes;    *)
(* nothing fails for certain, and a function may hang.                     *)
EvaluationFair ==
  /\ EvaluationSpec
  /\ WF_allVars(Main)
  /\ WF_allVars(Bounded(CallerStep)) /\ WF_allVars(Bounded(RunnerStep))
  /\ WF_allVars(Measure(Master)) /\ WF_allVars(Measure(LatchTimeout))
  /\ \A w \in Workers : WF_allVars(Measure(Worker(w)))

-----------------------------------------------------------------------------
(* Properties                                                              *)

(* Every variable keeps its type; the latch, the barrier and bounded_run   *)
(* included.                                                               *)
TypeOK ==
  /\ GradingTypeOK /\ BoundedTypeOK
  /\ place \in {"load", "create", "creating", "measure", "destroy", "destroying", "unload",
                "next", "ended"}
  /\ library \in 1 .. NbLibraries /\ loaded \in BOOLEAN
  /\ limit \in [Jobs -> BOOLEAN]
  /\ exit \in {"none", "0", "1", "2", "terminate"}
  /\ passed \subseteq 1 .. NbLibraries

(* A thread that runs code of the library: a worker in a call of the       *)
(* workload, or the runner in tm_create or tm_destroy.                     *)
InLibrary ==
  \/ \E w \in Workers : pc[w] \in {"init", "run", "start", "hung"}
  \/ runner \in {"func", "hung"}

(* The library is not unloaded while a thread runs its code ("cannot       *)
(* unload library with running threads"): threads that were given up end   *)
(* with the process.  Except when creation is overdue: main unwinds        *)
(* through the destructor of the library, with the runner still inside.    *)
LoadedWhileUsed ==
  Alive /\ InLibrary => loaded \/ (place = "next" /\ caller = "threw")

(* The exit status is 0 only if every library went through all rounds      *)
(* without a failing worker, and 1 or 2 only if one did not.               *)
ExitStatus ==
  /\ exit = "0" => passed = 1 .. NbLibraries
  /\ exit \in {"1", "2"} => passed # 1 .. NbLibraries

(* Whatever a tested library does, hang or throw in any call, main comes   *)
(* to an end: the time-outs computed from the reference see to that.  It   *)
(* may not when the reference gets stuck, or when bounded_run joins after  *)
(* a wake-up without a reason.                                             *)
EvaluationEnds == <>(~Alive \/ JoinsTooEarly \/ (library = 1 /\ Stuck))

(* bounded_run bounds the time its caller waits ("Run some function for    *)
(* some bounded time").  The code violates it: a wake-up without a reason  *)
(* is taken for the signal, and the caller joins with the mutex in hand.   *)
RunBounded == caller = "sleeping" ~> caller \in {"returned", "threw"} \/ ~Alive

=============================================================================
