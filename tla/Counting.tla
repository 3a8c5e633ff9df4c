------------------------------- MODULE Counting -------------------------------
(***************************************************************************)
(* The counters and the leader elections of sync-examples: threads that    *)
(* repeat a read-modify-write of a shared variable, guarded by a lock, by  *)
(* an atomic operation, or by nothing.                                     *)
(***************************************************************************)
EXTENDS SyncThreads

VARIABLES
  counter,    \* the shared counter
  local,      \* local[t]: the value of counter that thread t has read
  leader,     \* leader[n]: the leader of round n, 0 for none
  nb_leaders  \* nb_leaders[n]: the threads that took themselves for it

countingVars == <<counter, local, leader, nb_leaders>>

CountingInit ==
  /\ counter = 0
  /\ local = [t \in Tids |-> 0]
  /\ leader = [n \in Rounds |-> 0]
  /\ nb_leaders = [n \in Rounds |-> 0]

-----------------------------------------------------------------------------
(* The two halves of counter++                                             *)

ReadCounter(t) ==
  /\ local' = [local EXCEPT ![t] = counter]
  /\ UNCHANGED <<counter, leader, nb_leaders>>

WriteCounter(t) ==
  /\ counter' = local[t] + 1
  /\ local' = [local EXCEPT ![t] = 0]   \* dead until it is read again
  /\ UNCHANGED <<leader, nb_leaders>>

Counter1(t) ==
  \/ Runs(t, "counter1", "read") /\ ReadCounter(t) /\ Goto(t, "write") /\ LockUntouched
  \/ Runs(t, "counter1", "write") /\ WriteCounter(t) /\ NextRound(t) /\ LockUntouched

Counter2(t) ==
  \/ /\ Runs(t, "counter2", "acquire")
     /\ LockAcquire(t) /\ Goto(t, "read") /\ UNCHANGED countingVars
  \/ Runs(t, "counter2", "read") /\ ReadCounter(t) /\ Goto(t, "write") /\ LockUntouched
  \/ Runs(t, "counter2", "write") /\ WriteCounter(t) /\ Goto(t, "release") /\ LockUntouched
  \/ /\ Runs(t, "counter2", "release")
     /\ LockRelease(t) /\ NextRound(t) /\ UNCHANGED countingVars

(* As counter1, with atomic accesses. *)
Counter3(t) ==
  \/ Runs(t, "counter3", "read") /\ ReadCounter(t) /\ Goto(t, "write") /\ LockUntouched
  \/ Runs(t, "counter3", "write") /\ WriteCounter(t) /\ NextRound(t) /\ LockUntouched

Counter4(t) ==
  /\ Runs(t, "counter4", "update")
  /\ counter' = counter + 1
  /\ NextRound(t) /\ LockUntouched
  /\ UNCHANGED <<local, leader, nb_leaders>>

-----------------------------------------------------------------------------
(* The steps of an election in the round of thread t                       *)

NoLeader(t) == leader[r[t]] = 0 /\ UNCHANGED countingVars
HasLeader(t) == leader[r[t]] # 0 /\ UNCHANGED countingVars

Claim(t) ==
  /\ leader' = [leader EXCEPT ![r[t]] = t]
  /\ UNCHANGED <<counter, local, nb_leaders>>

CountLeader(t) ==
  /\ nb_leaders' = [nb_leaders EXCEPT ![r[t]] = @ + 1]
  /\ UNCHANGED <<counter, local, leader>>

Election1(t) ==
  \/ Runs(t, "election1", "test") /\ NoLeader(t) /\ Goto(t, "claim") /\ LockUntouched
  \/ Runs(t, "election1", "test") /\ HasLeader(t) /\ NextRound(t) /\ LockUntouched
  \/ Runs(t, "election1", "claim") /\ Claim(t) /\ Goto(t, "count") /\ LockUntouched
  \/ Runs(t, "election1", "count") /\ CountLeader(t) /\ NextRound(t) /\ LockUntouched

Election2(t) ==
  \/ /\ Runs(t, "election2", "acquire")
     /\ LockAcquire(t) /\ Goto(t, "test") /\ UNCHANGED countingVars
  \/ Runs(t, "election2", "test") /\ NoLeader(t) /\ Goto(t, "claim") /\ LockUntouched
  \/ Runs(t, "election2", "test") /\ HasLeader(t) /\ Goto(t, "release") /\ LockUntouched
  \/ Runs(t, "election2", "claim") /\ Claim(t) /\ Goto(t, "count") /\ LockUntouched
  \/ Runs(t, "election2", "count") /\ CountLeader(t) /\ Goto(t, "release") /\ LockUntouched
  \/ /\ Runs(t, "election2", "release")
     /\ LockRelease(t) /\ NextRound(t) /\ UNCHANGED countingVars

(* As election1, with atomic accesses. *)
Election3(t) ==
  \/ Runs(t, "election3", "test") /\ NoLeader(t) /\ Goto(t, "claim") /\ LockUntouched
  \/ Runs(t, "election3", "test") /\ HasLeader(t) /\ NextRound(t) /\ LockUntouched
  \/ Runs(t, "election3", "claim") /\ Claim(t) /\ Goto(t, "count") /\ LockUntouched
  \/ Runs(t, "election3", "count") /\ CountLeader(t) /\ NextRound(t) /\ LockUntouched

(* The test and the claim are one step, compare-and-exchange. *)
Election4(t) ==
  \/ /\ Runs(t, "election4", "update")
     /\ leader[r[t]] = 0 /\ Claim(t) /\ Goto(t, "count") /\ LockUntouched
  \/ Runs(t, "election4", "update") /\ HasLeader(t) /\ NextRound(t) /\ LockUntouched
  \/ Runs(t, "election4", "count") /\ CountLeader(t) /\ NextRound(t) /\ LockUntouched

CountOrElect(t) ==
  \/ Counter1(t) \/ Counter2(t) \/ Counter3(t) \/ Counter4(t)
  \/ Election1(t) \/ Election2(t) \/ Election3(t) \/ Election4(t)

-----------------------------------------------------------------------------

CountedUp == counter = RUNS * THREADS

OneLeaderEach == \A n \in Rounds : nb_leaders[n] = 1

CountingTypeOK ==
  /\ counter \in 0 .. RUNS * THREADS
  /\ local \in [Tids -> 0 .. RUNS * THREADS]
  /\ leader \in [Rounds -> {0} \cup Tids]
  /\ nb_leaders \in [Rounds -> 0 .. THREADS]

(* The variables without atomic type that the next step of t reads or writes. *)
CountingReads(t) ==
  CASE program \in {"counter1", "counter2"} /\ pc[t] = "read"    -> {<<"counter", 0>>}
    [] program \in {"election1", "election2"} /\ pc[t] = "test"  -> {<<"leader", r[t]>>}
    [] OTHER -> {}

CountingWrites(t) ==
  CASE program \in {"counter1", "counter2"} /\ pc[t] = "write"   -> {<<"counter", 0>>}
    [] program \in {"election1", "election2"} /\ pc[t] = "claim" -> {<<"leader", r[t]>>}
    [] OTHER -> {}

=============================================================================
