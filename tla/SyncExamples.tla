----------------------------- MODULE SyncExamples -----------------------------
(***************************************************************************)
(* The twelve programs of sync-examples, one at a time.  Their comments    *)
(* and their README call some correct and the others incorrect.            *)
(***************************************************************************)
EXTENDS Counting, ProducerConsumer

vars == <<threadVars, countingVars, bufferVars>>

Init == ThreadsInit /\ CountingInit /\ BufferInit

LooksCorrect ==
  CASE program \in Counters  -> CountedUp
    [] program \in Elections -> OneLeaderEach
    [] program \in ProCons   -> AllSame

Main == (Create \/ JoinAndCheck(LooksCorrect)) /\ UNCHANGED <<countingVars, bufferVars>>

Thread(t) ==
  \/ CountOrElect(t) /\ UNCHANGED bufferVars
  \/ ProduceOrConsume(t) /\ UNCHANGED countingVars

WakesAlone(t) == SpuriousWakeUp(t) /\ UNCHANGED <<countingVars, bufferVars>>

Ended == verdict # "none" /\ UNCHANGED vars

Next == Main \/ (\E t \in Tids : Thread(t) \/ WakesAlone(t)) \/ Ended

Spec == Init /\ [][Next]_vars

(* Every thread runs, and one that waits for a lock that is free again and *)
(* again gets it: the mutex does not starve a waiter for ever.             *)
FairSpec == Spec /\ WF_vars(Main) /\ \A t \in Tids : SF_vars(Thread(t))

-----------------------------------------------------------------------------
(* Properties                                                              *)

(* Every variable keeps its type. *)
TypeOK == ThreadsTypeOK /\ CountingTypeOK /\ BufferTypeOK

Correct == {"counter2", "counter4", "election2", "election4", "procon2", "procon3", "procon4"}

(* The programs whose comments say "Correct" never fail their own check:   *)
(* no increment is lost, each round has one leader, and every datum        *)
(* arrives whole and in its round, with a buffer that is used again.       *)
CommentedCorrect == verdict = "wrong" => program \notin Correct

(* In those programs no two threads are about to access the same plain     *)
(* variable or slot, one of them writing: the lock, or the order of the    *)
(* atomic counts, keeps them apart.  Accesses have one order here.  That   *)
(* is less than the absence of data races by the rules of C11: the load at *)
(* procon3.c:37 is relaxed, so that by them nothing orders the copy out of *)
(* a slot (line 60) before the next copy into it (line 43).                *)
NoSimultaneousAccess ==
  program \in Correct =>
    \A t, u \in Team : t # u =>
      (CountingWrites(t) \cup BufferWrites(t)) \cap
        (CountingWrites(u) \cup BufferWrites(u) \cup CountingReads(u) \cup BufferReads(u)) = {}

(* All threads end and main prints a verdict: in particular neither side   *)
(* of the buffer sleeps through the last signal it gets, though procon4    *)
(* signals after it has released the lock.                                 *)
AllJoined == <>(verdict # "none")

=============================================================================
