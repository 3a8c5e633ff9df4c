----------------------------- MODULE SpinBarrier -----------------------------
(***************************************************************************)
(* Barrier of grading/common.hpp: a counter that goes up while threads     *)
(* enter and down while they leave, and a mode that the last one switches. *)
(* A step is one access to one of the two atomics.                         *)
(***************************************************************************)
EXTENDS Integers, FiniteSets

CONSTANT Workers

ASSUME WorkersAssumption == IsFiniteSet(Workers) /\ Workers # {}

VARIABLES
  step,    \* Barrier::step
  mode,    \* Barrier::mode
  at,      \* at[w]: where thread w is in sync()
  entered, \* history: number of times w was counted in
  left     \* history: number of times w was let through

barrierVars == <<step, mode, at, entered, left>>

Cardinal == Cardinality(Workers)

BarrierInit ==
  /\ step = 0
  /\ mode = "enter"
  /\ at = [w \in Workers |-> "out"]
  /\ entered = [w \in Workers |-> 0]
  /\ left = [w \in Workers |-> 0]

Move(w, l) == at' = [at EXCEPT ![w] = l]

(* step.fetch_add: the last thread opens, the others wait. *)
Enter(w) ==
  /\ at[w] = "out"
  /\ step' = step + 1
  /\ Move(w, IF step + 1 = Cardinal THEN "open" ELSE "wait")
  /\ entered' = [entered EXCEPT ![w] = @ + 1]
  /\ UNCHANGED <<mode, left>>

LetThrough(w) ==
  /\ Move(w, "leave")
  /\ left' = [left EXCEPT ![w] = @ + 1]

SetLeave(w) ==
  /\ at[w] = "open"
  /\ mode' = "leave"
  /\ LetThrough(w)
  /\ UNCHANGED <<step, entered>>

SeeLeave(w) ==
  /\ at[w] = "wait" /\ mode = "leave"
  /\ LetThrough(w)
  /\ UNCHANGED <<step, mode, entered>>

(* step.fetch_sub: the last thread closes, the others wait. *)
Leave(w) ==
  /\ at[w] = "leave"
  /\ step' = step - 1
  /\ Move(w, IF step - 1 = 0 THEN "close" ELSE "drain")
  /\ UNCHANGED <<mode, entered, left>>

SetEnter(w) ==
  /\ at[w] = "close"
  /\ mode' = "enter"
  /\ Move(w, "done")
  /\ UNCHANGED <<step, entered, left>>

(* Mutant: a thread does not wait for the others to have left. *)
DoNotDrain(w) ==
  /\ at[w] = "drain"
  /\ Move(w, "done")
  /\ UNCHANGED <<step, mode, entered, left>>

SeeEnter(w) ==
  /\ at[w] = "drain" /\ mode = "enter"
  /\ Move(w, "done")
  /\ UNCHANGED <<step, mode, entered, left>>

BarrierStep(w) ==
  \/ SetLeave(w) \/ SeeLeave(w) \/ Leave(w) \/ SetEnter(w) \/ SeeEnter(w)

BarrierTypeOK ==
  /\ step \in 0 .. Cardinal
  /\ mode \in {"enter", "leave"}
  /\ at \in [Workers -> {"out", "wait", "open", "leave", "drain", "close", "done"}]
  /\ entered \in [Workers -> Nat] /\ left \in [Workers -> Nat]

(* No thread is let through before every thread has come, in every use of   *)
(* the barrier, also when some enter again before others have left.         *)
BarrierSync == \A w, u \in Workers : left[w] <= entered[u]

=============================================================================
