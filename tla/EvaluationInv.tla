---------------------------- MODULE EvaluationInv ----------------------------
(***************************************************************************)
(* The inductive invariant of the grading program, from the inside out:    *)
(* the barrier (SpinBarrier.tla), a measurement (Grading.tla), bounded_run *)
(* and main (Evaluation.tla).  What the runs check follows from it         *)
(* (EvaluationProofs.tla).                                                 *)
(***************************************************************************)
EXTENDS Evaluation

-----------------------------------------------------------------------------
(* The barrier                                                             *)

(* The threads that Barrier::step counts. *)
Inside == {w \in Workers : at[w] \in {"wait", "open", "leave"}}

(* The threads go through the barrier in two halves: in the first they come *)
(* in, until one of them finds itself the last; in the second they leave.   *)
Halves ==
  /\ mode = "enter" =>
       /\ \A w \in Workers : at[w] \in {"out", "wait", "open", "drain", "done"}
       /\ Inside = Workers => \E w \in Workers : at[w] = "open"
  /\ mode = "leave" =>
       /\ \A w \in Workers : at[w] \in {"wait", "leave", "drain", "close"}
       /\ Inside = {} => \E w \in Workers : at[w] = "close"
  /\ \A w, u \in Workers : w # u =>
       /\ at[w] = "open" => at[u] = "wait"
       /\ at[w] = "close" => at[u] = "drain"

(* Everybody came as often as he was let through, and once more while he   *)
(* waits; who has left has left as often as anybody, and while some leave  *)
(* all have come as often.                                                 *)
Turns ==
  /\ \A w \in Workers :
       entered[w] = left[w] + (IF at[w] \in {"wait", "open"} THEN 1 ELSE 0)
  /\ \A w, u \in Workers :
       /\ mode = "enter" => left[w] = left[u]
       /\ mode = "leave" => entered[w] = entered[u]

BarrierInv == BarrierTypeOK /\ step = Cardinality(Inside) /\ Halves /\ Turns

-----------------------------------------------------------------------------
(* A measurement: the workers' round                                       *)

Resting == {"wait", "exit"}

AtWork == {"init", "run", "error", "notify", "last", "verdict", "hung"} \cup BarrierCalls

(* All are between two rounds, after r of them. *)
Between(r) == \A w \in Workers : wround[w] = r /\ pc[w] \in Resting

(* Sync::Wait: the workers count themselves in; the last of them resets the *)
(* counter and is about to let all of them go.                              *)
Gathering ==
  status = "Wait" =>
    /\ mpc \in {"start", "latch", "threw"} /\ ~raised
    /\ \A w \in Workers : wround[w] = round - 1 /\ pc[w] \in {"wait", "count", "reset", "release", "spin"}
    /\ \A w, u \in Workers : w # u /\ pc[w] \in {"reset", "release"} => pc[u] = "spin"
    /\ IF \E w \in Workers : pc[w] = "release"
       THEN nbready = 0
       ELSE nbready = Cardinality({w \in Workers : pc[w] \in {"reset", "spin"}})
    /\ failed = {}

(* Sync::Run, and Sync::Abort once a message is there: the workers come out *)
(* of the spin loop, work, and count themselves out.                        *)
Working ==
  status \in {"Run", "Abort"} =>
    /\ mpc \in {"start", "latch", "threw"} /\ ~raised
    /\ \A w \in Workers : \/ wround[w] = round - 1 /\ pc[w] = "spin"
                          \/ wround[w] = round /\ pc[w] \in AtWork \cup Resting
    /\ \A w, u \in Workers : w # u /\ pc[w] \in {"last", "verdict"} =>
         wround[u] = round /\ pc[u] \in Resting
    /\ IF \E w \in Workers : pc[w] = "verdict"
       THEN nbready = 0
       ELSE nbready = Cardinality({w \in Workers : pc[w] \in {"last"} \cup Resting})
    /\ round \in failed <=> status = "Abort" \/ \E w \in Workers : pc[w] = "error"

(* Sync::Done and Sync::Fail: the last worker stops the clock and raises    *)
(* the latch, the master takes the result and goes on, or stops.            *)
Decided ==
  status \in {"Done", "Fail"} =>
    /\ nbready = 0
    /\ \A w \in Workers : pc[w] \in Resting \cup {"stop", "raise"}
    /\ IF mpc = "notify"
       THEN Between(round - 1) /\ ~raised /\ status = "Done" /\ failed = {}
       ELSE \/ mpc = "threw" /\ Between(round - 1) /\ ~raised /\ status = "Done" /\ failed = {}
            \/ /\ \A w \in Workers : wround[w] = round
               /\ \A w \in Workers : pc[w] \in {"stop", "raise"} =>
                    /\ ~raised /\ mpc \in {"start", "latch", "threw"}
                    /\ \A u \in Workers \ {w} : pc[u] \in Resting
               /\ raised => mpc \in {"start", "latch"}
               /\ mpc \in {"start", "latch", "threw", "result", "join"}
               /\ status = "Fail" <=> round \in failed

(* Sync::Quit *)
Quitting ==
  /\ status = "Quit" <=> mpc \in {"joining", "returned"}
  /\ status = "Quit" => Between(round) /\ ~raised

(* Who fails fails in the round that is measured, and leaves a message; who *)
(* threw is gone; the master knows of it in the end.                        *)
Failures ==
  /\ failed \subseteq {round}
  /\ status \in {"Abort", "Fail"} => errmsg
  /\ \A w \in Workers :
       /\ outcome[w] = "throw" => wround[w] \in failed
       /\ pc[w] = "exit" /\ status # "Quit" => outcome[w] = "throw"
  /\ mpc \in {"join", "joining", "returned"} => (error <=> failed # {})

GradingInv ==
  /\ GradingTypeOK
  /\ BarrierInv
  /\ Gathering /\ Working /\ Decided /\ Quitting /\ Failures

-----------------------------------------------------------------------------
(* main                                                                    *)

(* The function of bounded_run has returned when its caller does. *)
RunnerDone ==
  /\ caller \in {"off", "spawn"} => runner = "none"
  /\ caller = "returned" => runner = "exit"

WorkersRest == \A w \in Workers : pc[w] \in Resting

(* What is loaded, and who may be in it. *)
Placed ==
  Alive =>
    /\ loaded <=> place \notin {"load", "next"}
    /\ place \in {"load", "create"} => caller \in {"off", "returned"}
    /\ place \in {"measure", "destroy"} => caller = "returned"
    /\ place \in {"unload", "next"} => caller \in {"returned", "threw"}
    /\ place # "measure" => WorkersRest
    /\ place \in {"destroy", "destroying"} => mpc = "returned"
    /\ place \in {"unload", "next"} /\ caller = "returned" => mpc = "returned"
    /\ place # "ended"

(* The libraries before this one passed; this one did if measure says so. *)
Verdicts ==
  Alive =>
    IF \/ place \in {"load", "create", "creating", "measure"}
       \/ place \in {"unload", "next"} /\ caller = "threw"
    THEN passed = 1 .. library - 1
    ELSE passed = IF error THEN 1 .. library - 1 ELSE 1 .. library

MainInv == TypeOK /\ GradingInv /\ RunnerDone /\ Placed /\ Verdicts /\ ExitStatus

=============================================================================
