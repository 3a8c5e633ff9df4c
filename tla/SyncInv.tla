------------------------------- MODULE SyncInv -------------------------------
(***************************************************************************)
(* The inductive invariant of the programs of sync-examples: where the     *)
(* threads are, who has the lock, and what counter, leader and buffer hold *)
(* then.  What the run checks follows from it (SyncProofs.tla).            *)
(***************************************************************************)
EXTENDS SyncExamples

-----------------------------------------------------------------------------
(* The threads                                                             *)

(* The steps of a round in the program. *)
Steps ==
  CASE program \in {"counter1", "counter3"}   -> {"read", "write"}
    [] program = "counter2"                   -> {"acquire", "read", "write", "release"}
    [] program = "counter4"                   -> {"update"}
    [] program \in {"election1", "election3"} -> {"test", "claim", "count"}
    [] program = "election2"                  -> {"acquire", "test", "claim", "count", "release"}
    [] program = "election4"                  -> {"update", "count"}
    [] program = "procon1"                    -> {"half1", "half2"}
    [] program = "procon2"                    -> {"acquire", "poll", "half1", "half2", "publish",
                                                  "release"}
    [] program = "procon3"                    -> {"poll", "half1", "half2", "publish"}
    [] program = "procon4"                    -> {"acquire", "poll", "half1", "half2", "publish",
                                                  "release", "wake", "asleep"}

(* main creates the threads in order; each makes RUNS rounds and exits. *)
Lives ==
  /\ created <= Cardinality(Team)
  /\ \A t \in Tids :
       /\ pc[t] \in {"unborn", "exit"} \cup Steps
       /\ pc[t] = "unborn" <=> created < t
       /\ pc[t] = "unborn" => r[t] = 0
       /\ pc[t] = "exit" <=> r[t] = RUNS

Locked == {"counter2", "election2", "procon2", "procon4"}

Inside == {"read", "write", "test", "claim", "count", "poll", "half1", "half2", "publish", "release"}

(* The lock is held by the thread between its acquire and its release. *)
OneInside == program \in Locked => \A t \in Tids : owner = t <=> pc[t] \in Inside

(* main's verdict is right for the programs that are. *)
Verdict == program \in Correct => verdict # "wrong"

-----------------------------------------------------------------------------
(* The counters                                                            *)

(* The rounds <<t, n>> whose increment has been made. *)
Increments ==
  {x \in Tids \X Rounds : x[2] < r[x[1]] \/ (x[2] = r[x[1]] /\ pc[x[1]] = "release")}

(* The correct programs lose no increment, the others make none up. *)
CounterInv ==
  /\ program \in {"counter2", "counter4"} => counter = Cardinality(Increments)
  /\ program = "counter2" => \A t \in Tids : pc[t] = "write" => local[t] = counter
  /\ program \in {"counter1", "counter3"} =>
       /\ counter <= Cardinality(Increments)
       /\ \A t \in Tids : pc[t] = "write" => local[t] <= Cardinality(Increments)

-----------------------------------------------------------------------------
(* The elections                                                           *)

(* The threads that have come through round n. *)
Passed(n) == {t \in Tids : r[t] > n}

(* The leader of round n has yet to count itself. *)
Uncounted(n) == \E t \in Tids : leader[n] = t /\ r[t] = n /\ pc[t] = "count"

(* A round that a thread has passed has a leader, who counts itself once;  *)
(* in the programs that are not correct a thread counts itself at most     *)
(* once a round.                                                           *)
LeaderInv ==
  /\ program \in {"election2", "election4"} =>
       /\ \A n \in Rounds :
            /\ nb_leaders[n] = IF leader[n] = 0 \/ Uncounted(n) THEN 0 ELSE 1
            /\ Passed(n) # {} => leader[n] # 0
       /\ \A t \in Tids :
            /\ pc[t] = "claim" => leader[r[t]] = 0
            /\ pc[t] = "count" => leader[r[t]] = t
            /\ pc[t] = "release" => leader[r[t]] # 0
  /\ program \in {"election1", "election3"} =>
       \A n \in Rounds : nb_leaders[n] <= Cardinality(Passed(n))

-----------------------------------------------------------------------------
(* The producer and the consumer                                           *)

(* The number of data that t has published. *)
Done(t) == IF pc[t] \in {"release", "wake"} THEN r[t] + 1 ELSE r[t]

(* t has been let go and has not yet published. *)
Going(t) == pc[t] \in {"half1", "half2", "publish"}

(* The counts are those of the threads' rounds; the producer is ahead of   *)
(* the consumer, by at most the size of the buffer, and who has been let   *)
(* go still may.                                                           *)
CountsInv ==
  /\ produced_until = Done(Producer) /\ consumed_until = Done(Consumer)
  /\ consumed_until <= produced_until /\ produced_until <= consumed_until + BUFFER_SIZE
  /\ \A t \in {Producer, Consumer} : Going(t) => MayGo(t)

(* The slots between the two counts hold the data produced and not yet     *)
(* consumed, those consumed have arrived, and half a copy is half right.   *)
DataInv ==
  /\ \A n \in Rounds :
       /\ n < produced_until => produced[n] = Datum(n)
       /\ n < consumed_until => consumed[n] = Both(Datum(n))
       /\ consumed_until <= n /\ n < produced_until => buffer[n % BUFFER_SIZE] = Both(Datum(n))
  /\ pc[Producer] = "half2" => buffer[Slot(Producer)]["half1"] = Datum(r[Producer])
  /\ pc[Producer] = "publish" =>
       buffer[Slot(Producer)] = Both(Datum(r[Producer])) /\ produced[r[Producer]] = Datum(r[Producer])
  /\ pc[Consumer] = "half2" => consumed[r[Consumer]]["half1"] = Datum(r[Consumer])
  /\ pc[Consumer] = "publish" => consumed[r[Consumer]] = Both(Datum(r[Consumer]))

BufferInv ==
  /\ program \in {"procon2", "procon3", "procon4"} => CountsInv /\ DataInv
  /\ program \notin {"procon2", "procon3", "procon4"} => produced_until = 0 /\ consumed_until = 0

-----------------------------------------------------------------------------

IInv == TypeOK /\ Lives /\ OneInside /\ Verdict /\ CounterInv /\ LeaderInv /\ BufferInv

=============================================================================
