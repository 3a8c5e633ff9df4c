----------------------------- MODULE SyncThreads -----------------------------
(***************************************************************************)
(* What the programs of sync-examples share: main, which creates the       *)
(* threads and joins them, the loop over the rounds of each thread, and    *)
(* the exclusive lock of lock.c.  The program is chosen at the start.      *)
(*                                                                         *)
(* A step is one access to a shared variable, as compiled without          *)
(* optimisation (the Makefile asks for none), or a call of lock.c.         *)
(***************************************************************************)
EXTENDS Integers, FiniteSets

CONSTANTS
  RUNS,    \* rounds of each thread
  THREADS  \* threads of a counter or of an election

ASSUME SyncAssumption == {RUNS, THREADS} \subseteq Nat \ {0} /\ THREADS >= 2

Counters  == {"counter1", "counter2", "counter3", "counter4"}
Elections == {"election1", "election2", "election3", "election4"}
ProCons   == {"procon1", "procon2", "procon3", "procon4"}
Programs  == Counters \cup Elections \cup ProCons

VARIABLES
  program,  \* the program that runs
  created,  \* the number of threads that main has created
  verdict,  \* what main prints: "correct" or "wrong", "none" before
  pc,       \* pc[t]: the next step of thread t
  r,        \* r[t]: its round
  owner,    \* lock_t::mutex: the thread that has it, 0 for none
  sleeping  \* lock_t::cv: the threads that wait for a signal

threadVars == <<program, created, verdict, pc, r, owner, sleeping>>

Tids   == 1 .. THREADS   \* tid of elect
Rounds == 0 .. RUNS - 1

(* The producer is created before the consumer, the others in order.       *)
Producer == 1
Consumer == 2
Team     == IF program \in ProCons THEN {Producer, Consumer} ELSE Tids

(* The first step of a round. *)
Top ==
  CASE program \in {"counter1", "counter3"}                          -> "read"
    [] program \in {"election1", "election3"}                        -> "test"
    [] program \in {"counter2", "election2", "procon2", "procon4"}   -> "acquire"
    [] program \in {"counter4", "election4"}                         -> "update"
    [] program = "procon1"                                           -> "half1"
    [] program = "procon3"                                           -> "poll"

ThreadsInit ==
  /\ program \in Programs
  /\ created = 0 /\ verdict = "none"
  /\ pc = [t \in Tids |-> "unborn"]
  /\ r = [t \in Tids |-> 0]
  /\ owner = 0 /\ sleeping = {}

-----------------------------------------------------------------------------
(* main                                                                    *)

Create ==
  /\ created < Cardinality(Team)
  /\ created' = created + 1
  /\ pc' = [pc EXCEPT ![created + 1] = Top]
  /\ UNCHANGED <<program, verdict, r, owner, sleeping>>

(* Every join has returned; looksCorrect is the program's final check.     *)
JoinAndCheck(looksCorrect) ==
  /\ verdict = "none" /\ created = Cardinality(Team)
  /\ \A t \in Team : pc[t] = "exit"
  /\ verdict' = IF looksCorrect THEN "correct" ELSE "wrong"
  /\ UNCHANGED <<program, created, pc, r, owner, sleeping>>

-----------------------------------------------------------------------------
(* Steps of a thread.  They leave main alone, and say what they do with    *)
(* the lock: a step that is not a call of lock.c has LockUntouched.        *)

Runs(t, p, l) == program = p /\ pc[t] = l /\ UNCHANGED <<program, created, verdict>>

Goto(t, l) == pc' = [pc EXCEPT ![t] = l] /\ UNCHANGED r

NextRound(t) ==
  /\ r' = [r EXCEPT ![t] = @ + 1]
  /\ pc' = [pc EXCEPT ![t] = IF r[t] + 1 < RUNS THEN Top ELSE "exit"]

LockUntouched == UNCHANGED <<owner, sleeping>>

(* Mutant: a thread does not wait for the lock. *)
LockAcquireAtOnce(t) == owner' = t /\ UNCHANGED sleeping

LockAcquire(t) ==
  /\ owner = 0
  /\ owner' = t
  /\ UNCHANGED sleeping

LockRelease(t) ==
  /\ owner = t
  /\ owner' = 0
  /\ UNCHANGED sleeping

(* pthread_cond_wait releases the lock and waits in one step.  The thread  *)
(* takes the lock again, as any other, when it is no longer sleeping.      *)
LockWait(t) ==
  /\ owner = t
  /\ owner' = 0
  /\ sleeping' = sleeping \cup {t}

(* Mutant: the signal is lost. *)
LockWakeUpLost == UNCHANGED <<owner, sleeping>>

LockWakeUp == sleeping' = {} /\ UNCHANGED owner

(* A wait may also end without a signal. *)
SpuriousWakeUp(t) ==
  /\ t \in sleeping
  /\ sleeping' = sleeping \ {t}
  /\ UNCHANGED <<program, created, verdict, pc, r, owner>>

-----------------------------------------------------------------------------

ThreadsTypeOK ==
  /\ program \in Programs
  /\ created \in 0 .. THREADS
  /\ verdict \in {"none", "correct", "wrong"}
  /\ pc \in [Tids -> {"unborn", "acquire", "read", "write", "release", "update", "test",
                      "claim", "count", "poll", "half1", "half2", "publish", "asleep",
                      "wake", "exit"}]
  /\ r \in [Tids -> 0 .. RUNS]
  /\ owner \in {0} \cup Tids /\ sleeping \subseteq Tids

=============================================================================
