--------------------------- MODULE ProducerConsumer ---------------------------
(***************************************************************************)
(* The producer and the consumer of sync-examples, around a circular       *)
(* buffer.  A datum has two halves, copied one after the other, so that a  *)
(* copy made while the other thread writes can be seen.                    *)
(***************************************************************************)
EXTENDS SyncThreads

CONSTANT BUFFER_SIZE

ASSUME BufferAssumption == BUFFER_SIZE \in Nat \ {0}

VARIABLES
  buffer,          \* buffer[i]: the halves of slot i
  produced_until,  \* number of data produced
  consumed_until,  \* number of data consumed
  produced,        \* produced[n]: what the producer made in round n
  consumed         \* consumed[n]: what the consumer found in round n

bufferVars == <<buffer, produced_until, consumed_until, produced, consumed>>

Halves == {"half1", "half2"}
Slots  == 0 .. BUFFER_SIZE - 1
Both(d) == [h \in Halves |-> d]

(* rand(): the datum of round n is n + 1, told apart from all others. *)
Datum(n) == n + 1

BufferInit ==
  /\ buffer = [i \in Slots |-> Both(0)]
  /\ produced_until = 0 /\ consumed_until = 0
  /\ produced = [n \in Rounds |-> 0]
  /\ consumed = [n \in Rounds |-> Both(0)]

-----------------------------------------------------------------------------

Slot(t) == r[t] % BUFFER_SIZE

(* One half of buffer[r % BUFFER_SIZE] = produced[r] ... *)
CopyIn(h) ==
  /\ produced' = [produced EXCEPT ![r[Producer]] = Datum(r[Producer])]
  /\ buffer' = [buffer EXCEPT ![Slot(Producer)][h] = Datum(r[Producer])]
  /\ UNCHANGED <<produced_until, consumed_until, consumed>>

(* ... and of consumed[r] = buffer[r % BUFFER_SIZE]. *)
CopyOut(h) ==
  /\ consumed' = [consumed EXCEPT ![r[Consumer]][h] = buffer[Slot(Consumer)][h]]
  /\ UNCHANGED <<buffer, produced_until, consumed_until, produced>>

Copy(t, h) == IF t = Producer THEN CopyIn(h) ELSE CopyOut(h)

(* Mutant: the producer starts one datum early. *)
MayGoEarly(t) ==
  IF t = Producer THEN consumed_until + BUFFER_SIZE >= r[t] ELSE produced_until > r[t]

MayGo(t) ==
  IF t = Producer THEN consumed_until + BUFFER_SIZE > r[t] ELSE produced_until > r[t]

(* Mutant: both counts go up. *)
PublishBoth(t) ==
  /\ produced_until' = produced_until + 1
  /\ consumed_until' = consumed_until + 1
  /\ UNCHANGED <<buffer, produced, consumed>>

(* produced_until++ or consumed_until++ *)
Publish(t) ==
  /\ produced_until' = IF t = Producer THEN produced_until + 1 ELSE produced_until
  /\ consumed_until' = IF t = Consumer THEN consumed_until + 1 ELSE consumed_until
  /\ UNCHANGED <<buffer, produced, consumed>>

ProCon1(t) ==
  \/ Runs(t, "procon1", "half1") /\ Copy(t, "half1") /\ Goto(t, "half2") /\ LockUntouched
  \/ Runs(t, "procon1", "half2") /\ Copy(t, "half2") /\ NextRound(t) /\ LockUntouched

(* Copy and publish, as soon as the thread may. *)
Work(t, p, after) ==
  \/ Runs(t, p, "half1") /\ Copy(t, "half1") /\ Goto(t, "half2") /\ LockUntouched
  \/ Runs(t, p, "half2") /\ Copy(t, "half2") /\ Goto(t, "publish") /\ LockUntouched
  \/ Runs(t, p, "publish") /\ Publish(t) /\ Goto(t, after) /\ LockUntouched

(* The lock is given back and taken again until the thread may go. *)
ProCon2(t) ==
  \/ /\ Runs(t, "procon2", "acquire")
     /\ LockAcquire(t) /\ Goto(t, "poll") /\ UNCHANGED bufferVars
  \/ /\ Runs(t, "procon2", "poll")
     /\ MayGo(t) /\ Goto(t, "half1") /\ LockUntouched /\ UNCHANGED bufferVars
  \/ /\ Runs(t, "procon2", "poll")
     /\ ~MayGo(t)
     /\ LockRelease(t) /\ Goto(t, "acquire") /\ UNCHANGED bufferVars
  \/ Work(t, "procon2", "release")
  \/ /\ Runs(t, "procon2", "release")
     /\ LockRelease(t) /\ NextRound(t) /\ UNCHANGED bufferVars

(* The counts are atomic.  A poll that fails changes nothing.  A store to  *)
(* the buffer cannot be made before the relaxed load on which it depends   *)
(* has let the producer go, so that accesses happen in program order.      *)
ProCon3(t) ==
  \/ /\ Runs(t, "procon3", "poll")
     /\ MayGo(t) /\ Goto(t, "half1") /\ LockUntouched /\ UNCHANGED bufferVars
  \/ Runs(t, "procon3", "half1") /\ Copy(t, "half1") /\ Goto(t, "half2") /\ LockUntouched
  \/ Runs(t, "procon3", "half2") /\ Copy(t, "half2") /\ Goto(t, "publish") /\ LockUntouched
  \/ Runs(t, "procon3", "publish") /\ Publish(t) /\ NextRound(t) /\ LockUntouched

(* A thread that may not go sleeps until the other one has published.      *)
ProCon4(t) ==
  \/ /\ Runs(t, "procon4", "acquire")
     /\ LockAcquire(t) /\ Goto(t, "poll") /\ UNCHANGED bufferVars
  \/ /\ Runs(t, "procon4", "poll")
     /\ MayGo(t) /\ Goto(t, "half1") /\ LockUntouched /\ UNCHANGED bufferVars
  \/ /\ Runs(t, "procon4", "poll")
     /\ ~MayGo(t) /\ LockWait(t) /\ Goto(t, "asleep") /\ UNCHANGED bufferVars
  \/ /\ Runs(t, "procon4", "asleep") /\ t \notin sleeping
     /\ LockAcquire(t) /\ Goto(t, "poll") /\ UNCHANGED bufferVars
  \/ Work(t, "procon4", "release")
  \/ /\ Runs(t, "procon4", "release")
     /\ LockRelease(t) /\ Goto(t, "wake") /\ UNCHANGED bufferVars
  \/ /\ Runs(t, "procon4", "wake")
     /\ LockWakeUp /\ NextRound(t) /\ UNCHANGED bufferVars

ProduceOrConsume(t) == ProCon1(t) \/ ProCon2(t) \/ ProCon3(t) \/ ProCon4(t)

-----------------------------------------------------------------------------

(* are_same, round after round *)
AllSame == \A n \in Rounds : consumed[n] = Both(produced[n])

BufferTypeOK ==
  /\ buffer \in [Slots -> [Halves -> 0 .. RUNS]]
  /\ produced_until \in 0 .. RUNS /\ consumed_until \in 0 .. RUNS
  /\ produced \in [Rounds -> 0 .. RUNS]
  /\ consumed \in [Rounds -> [Halves -> 0 .. RUNS]]

(* The variables without atomic type that the next step of t reads or writes. *)
Own(t)   == <<IF t = Producer THEN "produced_until" ELSE "consumed_until", 0>>
Other(t) == <<IF t = Producer THEN "consumed_until" ELSE "produced_until", 0>>

BufferReads(t) ==
  CASE t = Consumer /\ pc[t] \in Halves -> {<<"buffer", Slot(t)>>}
    [] program \in {"procon2", "procon4"} /\ pc[t] = "poll" -> {Other(t)}
    [] OTHER -> {}

BufferWrites(t) ==
  CASE t = Producer /\ pc[t] \in Halves -> {<<"buffer", Slot(t)>>}
    [] program \in {"procon2", "procon4"} /\ pc[t] = "publish" -> {Own(t)}
    [] OTHER -> {}

=============================================================================
