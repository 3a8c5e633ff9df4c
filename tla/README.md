# A formal model of a word-based software transactional memory

The repository holds a transactional memory library (`353607/`), the program that
grades it (`grading/`), a lock-based reference (`reference/`) and some course
examples. This directory is its verification project: TLA+ modules translated from
the code, TLC configurations that check them on small instances, and TLAPS proofs.

All paths below are relative to the root of the repository.

## The system

| component | state it keeps | operations | talks to |
|---|---|---|---|
| Transaction protocol, `353607/tm.c` | `global_version`; per transaction `rv`, read set, write set with its Bloom filter | `tm_begin`, `tm_read`, `tm_write`, `tm_end` | versioned locks and words of segments, by shared memory |
| Versioned locks, `353607/versioned_lock.c` | one `atomic_int` per word: version and lock bit | `vl_init`, `vl_try_lock`, `vl_read_version`, `vl_unlock`, `vl_unlock_update` | |
| Segments, `353607/tm.c` | `va_arr`, `va_n`, `empty_spots` under `virtual_memory_lock`; `to_free` under `to_free_lock`; `cleanup_lock` (readers-writer) | `tm_create`, `tm_destroy`, `tm_alloc`, `tm_free`, the end of `tm_end`, `delete_segment` | every transaction holds `cleanup_lock` for reading |
| Bloom filter `353607/bloom.c`, addresses `353607/macros.h` | a bit set; none | `bf_init`, `bf_add`, `bf_in`; `index_from_va`, `va_from_index`, `offset_from_va` | write-set search; every access |
| Reference, `reference/` | one readers-writer lock, a list of segments | the same interface | |
| Grading synchronisation, `grading/grading.cpp`, `common.hpp` | `Sync.status`, `nbready`, `Latch`, `Barrier`, `Chrono` | `master_notify/wait/join`, `worker_wait/notify`, `sync`, `bounded_run` | master and workers, by atomics and a condition variable |
| Grading main, `grading/grading.cpp` | the library that is loaded, the time limits, the exit status | load, create, `measure`, destroy, unload | all of the above, library after library |
| Workload, `grading/workload.hpp`, `transactional.hpp` | accounts in a list of segments, the counter of `check` | `short_tx`, `long_tx`, `alloc_tx`, `run`, `check`; `transactional` retries | the library, by its calls |
| Examples, `sync-examples/` | a counter, leaders, or a circular buffer with two counts | twelve programs, over the lock of `lock.c` | threads by locks, atomics or plain accesses |
| Template, playground, `submit.py` | | | |

What is hard about it, and what makes each part correct:

* **Protocol.** Reads take no lock; a commit locks, takes a ticket from the clock,
  validates and writes back word by word. Correct means: every transaction, also one
  that will abort, is given one state of the region (opacity); commits are
  serializable in the order of the tickets; every abort path gives back exactly the
  locks it has; no call waits.
* **Segments.** Transactions keep using addresses that a concurrent commit unlinks, so
  deletion waits for them. Correct means: nothing in use is deleted, no committed free
  is forgotten, a spot is handed out once, the read locks balance.
* **Grading.** One protocol of counters and flags starts and ends the runs of all the
  workers, with a time-out at the master. Correct means: no worker runs before all are
  ready, the master sees the result of this run, a failure reaches it and the exit
  status, no code is unloaded while it runs, and a library that hangs is given up.
* **Workload.** Retries must repeat the same request, and the checks must hold on any
  correct memory.
* **Examples.** Half of them are there to be wrong. Correct means: those that are called
  correct lose no update, keep two threads from the same plain variable, and never sleep
  through a signal.

`PROJECT.json` lists the hazards one by one, at their lines, with the properties that
would catch them.

## Modules

| module | what it is |
|---|---|
| `TL2.tla` | the transaction protocol and the versioned locks |
| `TL2Inv.tla` | the inductive invariant of `TL2.tla` |
| `TL2Words.tla` | under `TL2.tla`: the locks as ints, the filter of the write set as bits |
| `TL2ReadProofs.tla`, `TL2Proofs.tla` | proofs: types, begin, reads and writes; `tm_end`, the induction and the theorems, then those about `TL2Words.tla` and the order of the locks |
| `MC_TL2.tla`, `TL2_*.cfg` | instances of the protocol |
| `Segments.tla` | segments, addresses, allocation, deferred frees |
| `SegmentsInv.tla`, `SegmentsProofs.tla` | the inductive invariant of `Segments.tla`, and the proofs |
| `MC_Segments.tla`, `Segments_*.cfg` | instances of the segments |
| `AtomicMemory.tla` | the abstract specification: what `include/tm.h` promises a caller |
| `Reference.tla`, `MC_Reference.tla`, `Reference.cfg` | the reference library, which implements `AtomicMemory.tla` |
| `ReferenceInv.tla`, `ReferenceProofs.tla` | its inductive invariant, and the proof of the refinement |
| `Bank.tla`, `MC_Bank.tla`, `Bank.cfg` | the workload, over the memory of `AtomicMemory.tla` |
| `BankInv.tla`, `BankLists.tla`, `BankProofs.tla` | its inductive invariant; lemmas about sums, lists and what the transactions do to them; the steps and the theorems |
| `SpinBarrier.tla` | the barrier of `grading/common.hpp` |
| `Grading.tla`, `MC_Grading.tla`, `Grading_runtime.cfg` | master and workers of the grading program; extends `SpinBarrier.tla` |
| `BoundedRun.tla` | `bounded_run` of `grading/common.hpp` |
| `Evaluation.tla`, `MC_Evaluation.tla`, `Evaluation*.cfg` | main of the grading program; extends `Grading.tla` and `BoundedRun.tla` |
| `EvaluationInv.tla`, `EvaluationProofs.tla` | the inductive invariants of barrier, measurement and main, and the proofs |
| `SyncThreads.tla` | what the examples share: main, the loop over rounds, `lock.c` |
| `Counting.tla`, `ProducerConsumer.tla` | counters and elections; producers and consumers |
| `SyncExamples.tla`, `SyncExamples.cfg` | the twelve examples, one at a time |
| `SyncInv.tla`, `SyncProofs.tla` | their inductive invariant, and the proofs |

### TL2.tla

A step is one access to shared memory; what a call does privately is part of the step
of its last access. `pc[t]` says before which access thread `t` stands.

| state | code |
|---|---|
| `gv` | `tm->global_version` |
| `vl[w]` = `[ver, locked]` | the `atomic_int` of word `w`: version and lowest bit |
| `mem[w]` | the word's content, `Torn` while `memcpy` writes it |
| `tx[t]` = `[ro, rv, ws, rs]` | `struct tx_s`; `ws` maps a word to what was written |
| `loc[t]` | locals: versions and contents read, what the loops have left, `wv`, `next_rv` |
| `held[t]` | the locks taken by `tm_end` so far |
| `seen`, `suspect`, `hist`, `done` | history variables: what was given, what was committed |

`tm_read` of a read-write transaction is `RwRead`, `RwCopy`, `RwPost` (version, copy,
version again) per word; `ro_transaction_read` keeps its three loops over the request
(`RoPre`, `RoCopy`, `RoPost`), then `RoClock`, `RevalidateSets`, `RoRevalidated` where it
extends `rv`; `tm_write` is `TmWrite`. `tm_end` is `TmEnd`, `VlTryLock` and `VlCas` per
word, `Tick` or `TickValidate` and `Validate`, then `WriteBack`, `WriteBackEnd`,
`VlUnlockUpdate` per word; each way to fail is an action, `Fail` and `VlUnlock` give the
locks back. Writes in a multi-word call abort or go through word by word, as the loops do.

Abstractions: a word's content is a value of a small set; the growth of the arrays is left
out (a failing `malloc` is `AllocFails`; a failing `realloc` of the write set, `tm.c:519`, makes
`transaction_cleanup` read through NULL: the process ends, which is a behaviour that takes no
further step); versions are naturals, and the write set is
searched without its filter (both are the subject of `TL2Words.tla`). A reader's `memcpy`
that overlaps a writer's is a data race: the model lets it return the old content, the new
one or `Torn`, which stands for every mix. Atomics are sequentially consistent, as they are
in the code (`atomic_load` and the others without an explicit order).

### TL2Words.tla

Adds no state: it says what the two things `TL2.tla` abstracts from would do in each of its
states. `Word(l)` is the int that stands for a lock; `WordReadVersion`, `WordRefused`,
`WordTryLock`, `WordUnlock`, `WordUnlockUpdate` are the lines of `versioned_lock.c` over an
int of `IntRange` values, and `LockWords` compares them with every answer and every change
of a lock in `TL2.tla`. `BfAdd` and `BfIn` are `bloom.c` with the bitset as a set of bits.
`1 << pos` is an int shift by up to 63, which C does not define; `Mask` is what the
compiler makes of it on x86-64 (shift by `pos % 32`, sign extension of bit 31).
`OwnWritesFound` says that a transaction's own writes pass the filter and that the search by
address finds the right one.

### Segments.tla

`va[s]` is what `va_arr[s]` points to, `empty` the linked list, `readers` and `writer` the
two sides of `cleanup_lock`. `TmAlloc`, `PopSpot`, `PopSpotEnd`, `NewSpot`, `SegmentInit`
are `tm_alloc`, with its failure path `SegmentInitFails`, `PushSpot` (no mutex); `TmFree`
defers; `TmEnd` writes back, `AppendLock`, `AppendFree`, `RdUnlock`, `BatchFull`, `WrLock`,
`DeleteSegment`, `BatchDone` are the rest of `tm_end`. The contents of the region are the
set `linked` of segments it points to; `reach[t]` over-approximates the addresses a
transaction can have: what was linked at any time since its `tm_begin`. Two facts are
taken over from the protocol, where they are checked and proved: reads return committed
contents that are not older than `tm_begin`, and of two transactions that unlink the same
segment one aborts. `FreesWrite` states what the workload does: a transaction that frees
also writes (`Shared::free` clears the pointer).

`linked`, `reach`, `mine` and the lists of frees hold addresses, as the program does:
`VaFromIndex` makes them from the index of a spot, `IndexFromVa` leads back to it wherever a
segment is used or deleted. Offsets are left out. `VaSize` is below `AddressRange`: the code
allows index 65535 too, whose address would be 0.

### AtomicMemory.tla and Reference.tla

`AtomicMemory` gives each transaction a snapshot and a view of its own; it may commit when
nothing it used has changed since the snapshot, and may abort at any time. `used` may hold
more words than the transaction touched (an implementation may guard more than it must).

`Reference` has the lock (`readers`, `writer`), the words, written in place, and the fields
`prev`, `next` of the segments. `tm_alloc` and `tm_free` take a step per store to the list:
`NewNode`, `LinkBack`, `LinkHead`, `ZeroSegment`; `UnlinkPrev`, `UnlinkNext`, `FreeNode`.
`Publish` and `ClearPointer` are the write that `Shared<T*>::alloc` and `free` do next. The
refinement mapping (`Atomic`) takes as committed memory the words themselves, or, while a
writer is at work, what they were when it began (the history variable `pre`); every word
counts as used. What `malloc` returns and what `free` leaves is `Garbage`. Calls that fail
change nothing and have no action.

### Bank.tla

Runs on the begin, commit and abort of `AtomicMemory` (`M`), where a word is a whole segment
`[count, next, parity, accounts]`. A body takes a step per visited segment (`LongVisit`,
`AllocVisit`, `ShortVisit`), then does its work (`RemoveAccount`, `RemoveSegment`,
`AddAccount`, `AddSegment`, `Transfer`). After every step `TxRetry` may send it back to
`TxBegin`, with new locals (`loc`) but with the captured arguments (`req`) as the try left them.
`TxEnd` is the destructor, `After` what the caller does with the result. Random choices are
free choices. `TxBeginFails` and `AddSegmentNoMem` are the exceptions that are not retried:
the worker is lost, and the others may wait for it for ever (`Ended`).

`check` follows: `CheckStart`, `CheckLoop`, `CheckEnd` are its barriers (their steps are in
`SpinBarrier.tla`), `CounterInitBody`, `FetchBody`, `DecreaseBody` and two `CounterTestBody`
its transactions. The counter lies where the first segment has its count, so that the
properties of the list are about the states before (`Checking`).

### SpinBarrier.tla and Grading.tla

A step is one access to an atomic (`step`, `mode`; `status`, `nbready`, `errmsg`), a latch
operation, or a call of the workload, of which only the outcome is kept: no error, an error
message, an exception. The master is `MasterNotify`, `ChronoStart`, `LatchWait` or
`LatchTimeout`, `MasterResult`, round after round, then `MasterJoin`, `Joined`. A worker is
`worker_wait` (`WorkerSeesWait` to `WorkerSeesRun`), the call, and `worker_notify`
(`WorkerError` to `LatchRaise`). `check` is its barriers and the places where it fails.
`total` is the set of time segments the chronometer has added up. The relaxed accesses are
taken as sequentially consistent. Most are ordered by the release of `Run` and the
acquire-release of `nbready`; formally a worker that sees `Wait` by a relaxed load is not
ordered after the reset of `nbready` in `worker_notify` (`grading.cpp:133`), and the code relies
on the hardware there. `Stuck` says where the workers may wait for ever: one of them
threw inside `check`, or hangs in the library. `maxtick` says for which jobs the master has a
time-out.

### BoundedRun.tla and Evaluation.tla

`bounded_run` is `Call`, `Spawn`, `WaitFor`, then `Notify`, `SpuriousWakeUp` or `Overtime`, then
`WaitReturns`, which needs the mutex, and `Join` or `Detach`; the runner is `FuncReturns` or
`FuncHangs`, `RunnerLocks`, `Notify`, `RunnerUnlocks`. A runner that outlives its caller would
use a mutex that is gone; the model stops it there.

`Evaluation` is the loop of `main` around `measure`: `Load`, `Create`, `Created`, `Report`,
`Destroy`, `Destroyed`, `Unload`, `NextLibrary`, and every way out: `LoadFails` and `ReturnError`
(status 1), `MeasureThrew` (status 2), `CreateFails` and `DestroyOverrun` (an exception leaves a
thread or a destructor, and the process is terminated). `Limit` computes the time-outs of the
tested libraries from the times of the first one, modulo the range of ticks.

### SyncThreads.tla to SyncExamples.tla

One module for the threads and the lock, one for each of the two kinds of programs, and one
action per program (`Counter1` to `ProCon4`); the program is chosen in `Init`. A step is one
access to a shared variable; `counter++` is two, and a datum is copied in two halves, so that
a copy of a slot that is being written shows. The Makefile asks for no optimisation, so that
plain loops do load each time. `CountingReads`, `BufferWrites` and the others name what the
next step of a thread accesses, for `NoSimultaneousAccess`. All accesses have one order, the
relaxed load of `procon3.c:37` included; what C11 would call a data race is not judged.

## Runs

| run | instance | shows |
|---|---|---|
| `TL2_rw` | 2 threads, 3 words of 2 segments, 2 transactions | locks, memory, opacity, serializability, lock order, the inductive invariant, the ints of the locks, the filter |
| `TL2_ro` | 2 writers, one of them also a reader, 2 words, requests of 1 and 2 words, fairness | what a read-only transaction is given across revalidations; every call returns |
| `TL2_ro_atomic` | reader and writer, 3 transactions | **violated**: the word that triggers revalidation can be older than the rest |
| `segments_free` | 3 threads, 3 spots, batches of 2, 5 transactions | no use after free, no lost free, spots distinct, read locks balance, no deadlock |
| `segments_nomem` | 2 threads, one allocates and runs out of memory | the failure paths never give a spot out twice in that case |
| `segments_spots` | two threads run out of memory | **violated**: a spot is handed out while it is in use |
| `reference` | 2 threads, 2 pointers, 3 segments | implements `AtomicMemory`; list and heap agree; no dangling address |
| `bank` | 2 workers, 2 transactions each, 3 segments of 2 accounts, 2 turns of `check` | money is conserved, the shape of the list, no false alarm, the counter ends at zero |
| `evaluation` | 2 libraries, 3 workers, init, 2 runs, check; any call may fail, throw or hang; fairness | rounds start together, results are of their round, the barriers hold, no code is unloaded while it runs, the exit status, `main` ends |
| `evaluation_bounded` | 1 library, 2 workers, nothing fails | **violated**: a wake-up without a reason makes `bounded_run` wait for ever |
| `grading_runtime` | 2 workers, nothing fails | **violated**: the runtime of a round holds the rounds before |
| `sync_examples` | 3 threads (or producer and consumer), 3 rounds, 2 slots; fairness | the programs called correct are; all programs end |

Bounds. Two words are enough for a snapshot to be torn and for two locks to be taken in
two orders; two conflicting transactions are enough for every pair of accesses to race;
`TL2_rw` has a third word so that a validation can succeed after another commit. `MaxTx` bounds
transactions, not their length: a transaction may read and write as often as it likes. The
safety that `TL2_ro` checks is proved without bounds; what is only checked there is
`CallsReturn`, and two transactions that meet in every step are what could hold a call up.
Its three words lie in two segments, two of them at the same offset, so that `ws_item_cmp` finds
words it orders and words it cannot tell apart. `IntRange` of 8 makes version 1 the last that
fits in an int with its lock bit: `LockWords` is checked up to that edge, and the clock goes
past it; the theorem takes the bound away. A batch of
two over three spots makes a batch outlive the transaction that started it, reuses spots
within the bound, and lets a reader delay a deletion. `reference` has no bound on time: three
segments are what it takes to free one in the middle; the plain word only gets zero, changes
are seen in the pointers. In `bank` four transactions make a segment come, fill, empty and go,
and two turns of two workers let one decrement fall between the other's reading and its own.
Three workers give `evaluation` one that is last, one that is late and one in between; two
runs follow each other directly; the second library is the first with time-outs. The ticks 3
and 7 give a limit that is fine and one that would be `InvalidTick`. Three rounds over two
slots make the producer wait, and use a slot again. For the safety properties the proofs take
the bounds away.

Fairness. `FairSpec` of `TL2.tla` asks weak fairness of the steps inside calls, per thread:
the operating system schedules every runnable thread, and no step of a call waits for
another thread. Nothing forces a thread to make a call. `Segments.tla` claims no liveness:
`cleanup_lock` is created with default attributes, under which readers may overtake a
waiting writer for ever; that it is never blocked for good when memory suffices is the
deadlock check of `segments_free`. `segments_nomem` switches this check off because
there a failed `tm_begin` keeps the read lock and a deletion really waits for ever.
In `Evaluation.tla` every worker, the runner, `measure` and `main` are scheduled fairly (they spin,
or wait on a condition variable that is signalled under its mutex), and a time-out comes when
it is due: time passes. That nothing fails and nobody hangs is not assumed. `EvaluationEnds`
leaves out two cases in which the code really does not end: the reference, measured without
time-outs, hangs or throws in `check`, or `bounded_run` joins too early. In
`SyncExamples.tla` fairness is strong, per thread: a mutex that is free again and again is
some time given to each thread that waits for it, which pthread mutexes do in practice
(`procon2` polls under the lock and relies on it). Deadlock is checked there, in `bank` and in
`segments_free`; the two `evaluation` runs switch it off, because `main` may wait for ever where
`EvaluationEnds` says so.

## Findings

1. `tm.c:454`: `next_rv` is loaded after word `i` was checked, and word `i` is not among
   the words revalidated. A read-only transaction can return the old content of `i` with
   new contents of others, and commit (`TL2_ro_atomic`). Loading the clock before the
   check of the word, or reading the word again, closes it. `Opacity` and `Serializable`
   therefore leave this one word out, and only for as long as it is the last one a
   revalidation was done for (`suspect`): the next revalidation covers it.
2. `common.hpp:187`: the chronometer of `Sync` is never reset, so that the time of each
   repetition, and of the check, includes all before it (`grading_runtime`). The ratios and the
   time limits that `main` computes are made from these sums.
3. `common.hpp:281`: `bounded_run` waits without a predicate. After a wake-up without a reason it
   joins the runner with the mutex in hand that the runner needs, and the time is not
   bounded any more (`evaluation_bounded`).
4. `tm.c:580`: the failure path of `tm_alloc` changes `empty_spots` without the mutex
   (`segments_spots`).

Other weak points, with no run of their own:

* `tm.c:269`: frees of a transaction that wrote nothing are dropped (`FreesWrite` keeps this out
  of `segments_free`).
* `tm.c:104`: `ws_item_cmp` cuts the difference of two addresses to an `int` and orders words by
  offset only: two transactions can each hold the lock the other fails on, over words at the same
  offset of two segments (`TL2_rw` reaches such states; `NoCrossedLocks` says that there are no
  others, below 2 GiB). It costs aborts and no safety, since locks are tried and not waited for.
* `tm.c:520`: when `realloc` fails, `ws` is NULL and `transaction_cleanup` dereferences it
  (`tm.c:731`). The `malloc`s at `tm.c:579`, `663` and `670` are not tested either. In all of these
  the process ends; the models have no action for it.
* `tm.c:166`: when the first `segment_init` fails, `tm_cleanup` leaves out the segment it has begun
  (`va_n` is still 0). There is no region then, and nothing to model.
* `tm.c:418`: `tm_read` ignores a failing `add_to_readset`, which has lost the read set.
* `tm.c:222`: `tm_begin` keeps the read lock when `malloc` fails; a failed `segment_init`
  leaves a pointer that `tm_destroy` frees again; aborted transactions leak what they allocated.
* `versioned_lock.c:29`: from 2^30 commits on `version << 1` leaves the range of an int.
* `macros.h:45`: segment 65535, which `VA_SIZE` admits, gets the address 0.
* `workload.hpp:248`: a retried `short_tx` looks for other accounts than it was given.
* `grading.cpp:310`: when the creation of the memory is overdue, the library is unloaded while
  the runner is in it, which the comment at line 342 says cannot be; `LoadedWhileUsed` names
  this exception. A creation that fails, or a destruction that is overdue, terminates the
  process.
* `grading.cpp:245`: workers that were detached go on using variables of `measure` until the
  process exits.

## Proofs

A theorem holds for every value of the constants that its module's named assumption admits;
what it assumes beyond that is said here. In each part none of the properties is inductive;
the `*Inv.tla` module has the strengthening, with a comment on each conjunct, and the proof
has one step per action.

### The protocol

For any sets of threads, words and values, any addresses and any number of transactions:

* `TypeCorrect`, `LocksOwned`, `MemoryUpToDate`, `Opaque`, `CommitsSerializable`,
  `ReadsCommitted`, `WritesGuarded`: the safety properties of `TL2.tla`, except `RoAtomic`,
  which fails;
* `InductiveInvariant`: all of them but the action property `WritesGuarded` are
  consequences of `IInv`; that one follows from it step by step;
* `LocksAreWords`: the ints of `versioned_lock.c` answer and change as the locks of `TL2.tla` do,
  for any range of an int, in every step in which the clock is below a quarter of it;
* `LocksNotCrossed`: two transactions in `tm_end` that each hold the lock the other fails on do so
  over words of the same offset, in whatever segments the words lie. `NoCrossedLocks` excepts
  write sets with a word at half the range of an int or beyond, on which `ws_item_cmp` is no
  order. No call waits for a lock, so that a crossing costs aborts only;
* `WritesFound`: the filter lets the transaction's own writes pass and the search by address
  finds them, for any finite set of words with addresses of their own.

`Opacity` says that what was read is the content at
version `rv`; a later commit could still take a ticket up to `rv` if it already had one. So
`IInv` says that a read is *settled*: no commit up to `rv` wrote the word since, and no
thread that validates with a ticket up to `rv` holds its lock (`Settled`, `Snapshot`). A step
that settles a new read needs that an unlocked word holds its newest content (`Latest`),
that a lock has one owner whose `rv` is not older than the word (`Owners`), that nothing is
ahead of the clock (`Clock`) and that a copy is good while the version is unchanged
(`Copies`). The read set accounts for what was given (`ReadSet`), so that validation, which
settles the words it has gone over (`Validation`), settles the reads; `Phase` ties the locks to the
program counter. `TL2ReadProofs.tla` has types, begin, reads
and writes, `TL2Proofs.tla` aborts and `tm_end`. TLC checks `IInv` in `TL2_rw`.

`LocksAreWords` rests on the same invariant: `Clock` bounds each version by the clock, hence
each int by half its range; `Owners` says that only a locked word is unlocked, so that the
subtraction takes the lock bit and nothing else. `LocksNotCrossed` adds one conjunct: no
offset of what `tm_end` has locked is above one of what it has left. It rests on `CmpIsDifference`:
the comparison is the difference of the offsets, whatever the segments. `WritesFound` is an induction over the fold
that builds the filter. The induction theorems of the library cannot be instantiated here, so
that this one, as those over lists below, takes the least size for which the claim would fail
(`Least`).

### Segments

* `TypeCorrect`, `DeletedAlone` (while a thread deletes segments no transaction runs), whatever
  allocation fails;
* `ReadLockPerTransaction`, `SpotHandedOutOnce`, `NoDanglingSegment`, `DeletedUnreachable`,
  `DestroyedOnce`, if `NoMemory = {}`: as long as memory does not run out. With it they are false,
  and the code is why: a failed `tm_begin` keeps its read lock (`tm.c:222`), a failed
  `segment_init` pushes a spot without the mutex and leaves a pointer behind (`tm.c:580`,
  `segments_spots`);
* `NoFreeForgotten`, if moreover `FreesWrite`: `tm.c:269` drops the frees of a transaction that
  wrote nothing.

The argument: every running transaction has a read lock and the write lock excludes them
(`Shape`), so that whoever deletes is alone. What a committed transaction freed is unlinked
and stays live until then (`Doomed`), what a transaction allocated is its own (`MineMine`); so
an address in somebody's hands is never one that a batch deletes. That the lists of frees
name each spot once is `SpotsDistinct` with the two.

### Reference

* `TypesKept`, `ListWhole`, `NobodyDangles`, and `AtomicMemoryImplemented`: the whole refinement,
  `Spec => ImplementsAtomicMemory`, for any number of threads and segments.

`LockInv` says who is inside, `AddressOf` and `PointerInv` that every pointer in memory, and
every address a transaction has, leads to a segment that lives, `CallOf` what holds in the middle
of `tm_alloc` and `tm_free`. The list is a function from positions to segments (`IsList`); between the
stores of an allocation or a free it is the list without the node (`ListOf`, `PrevWithout`). A
step of a transaction maps to the same step of `AtomicMemory`, the stores to the list and the
lock's to stutters; the writer's commit finds `used` unchanged because it is alone.

### Bank

* `BankTypes`, `BankMoneyConserved`, `BankListShape`, `BankNoFalseAlarm`, all from
  `BankInvariantHolds`: for any finite sets of workers and segments, any number of accounts in a
  segment, any opening balance, any number of transactions and of turns of `check`, and whether
  or not memory runs out.

It is a proof about the workload over `AtomicMemory`: what `bank` asks of a library is no more than
that module promises. The list is again a function from positions to segments (`IsList`), and
`BankLists.tla` shows that the recursion of `List` visits just that. Between two transactions the
memory is *sound* (`Sound`): a list, full up to its last segment, nobody in debt, parities and
balances add up to what was opened. A body works on its own snapshot, which is sound too, and the
invariant says how far it is: `Walk` has it at a position of the list, with all before it in `used`
and counted (`LongTx`, `AllocTx`); the accounts of a transfer are accounts of the snapshot
(`ShortTx`). A commit puts the used segments of the view over the memory, when none of them has
changed since the snapshot. If the transaction has been through the whole list, memory and
snapshot are the same list and the view replaces it (`AllMerged`); a transfer may have seen
a part only, and is then one in the present memory (`TransferMerged`), which is sound as well.

The rounds do not overlap: `PhaseInv` says that while one worker is in `init` none is in `run`, and
that `check` goes through `CounterSet`, `CountDown` and `CountedDown`. In between the counter is the
sum of the turns the workers have left (`CountDown`), and what a worker knows of it is never below
it: so that no worker finds it larger than before, and only the last turn leaves zero.

The sums are the fold `SumFunction` of the community modules. What it adds up is one function, chosen
by its equation, on all subsets of a finite set; `FoldExists` and `FoldSame` show that there is one, for
a smallest set that would have none.

### Grading

* `TypesKept`, `NobodyEarly` (the barrier), `RoundsTogether`, `ResultTrue`, `NoneInUnloaded`,
  `ExitTrue`: all safety properties of `Evaluation.tla` and of what it extends, for any number of
  workers, rounds and libraries, whatever fails, throws, hangs or is overdue.

From the inside out: the barrier has two halves, told apart by `mode`, in which `step` counts
those inside, and each thread has come as often as the others or once more (`Halves`, `Turns`).
For each value of `Sync.status` one conjunct says where master and workers can be and what
`nbready` counts (`Gathering`, `Working`, `Decided`, `Quitting`); `Placed` says where `main` is when a
runner may be in the library.

### Examples

* `TypesKept`, `CorrectAsCommented`, `NoneAtOnceInCorrect`: for any number of threads and rounds and
  any size of the buffer.

`OneInside` ties the lock to the program counter. The counter is the number of pairs of a
thread and a round in which it has made its increment (`Increments`), and at most that in the
incorrect programs; a round that a thread has passed has a leader that counts itself once
(`LeaderInv`). The producer is ahead of the consumer by at most the size of the buffer, so
that the slot it writes is none of those in between (`CountsInv`, `SlotsApart`), which hold
what was produced (`DataInv`).

### Only model-checked

Liveness (`CallsReturn`, `EvaluationEnds`, `AllJoined`), which the provers cannot do under
fairness, and the absence of deadlock, which is about `ENABLED`. Every other property of a passing run
has a theorem, some under the conditions named above. The four violations are counterexamples and need no proof.

## Not modelled

* The template (`template/tm.c`): every call is a `TODO` that returns a constant. The playground:
  a manual test in which each thread repeats one transaction; what it calls is in `TL2.tla` and
  `Segments.tla`. `submit.py`: a network client.
* `include/tm.h`, `include/tm.hpp`: declarations.
* `transactional.hpp`: the typed wrappers `Shared<>`, whose reads and writes are those of the
  bodies in `Bank.tla`, and the checks of `assert_mode`, which is off in the build.
* Growth of the arrays of a transaction, sizes and contents of segments, offsets inside them,
  segments past `VA_SIZE`.
* The command line, printing, the random numbers and the text of messages.
* Failing calls of pthread in the examples. In `procon3` the effects of the relaxed load at line
  37: by the rules of C11 nothing orders the consumer's copy out of a slot (line 60) before the
  producer's next copy into it (line 43), so that the two are a data race there; on hardware the
  stores depend on the load. `NoSimultaneousAccess` is about interleavings only.
* The crashes on an untested or mishandled allocation (`tm.c:520`, `579`, `663`, `670`), and a
  `tm_create` that fails.
* What a detached thread does with variables that are gone: undefined, and the models stop
  the thread there.

## Plan

1. Modelling: done for every component with behaviour of its own; see the lists above for
   what is abstracted.
2. Proofs: done for the safety properties of every passing run, and for the refinement of
   `AtomicMemory` by the reference.
3. `TL2` against `AtomicMemory`: a step towards it is `Opacity`, which says what the view of a
   transaction is; the exception of the first finding has to be built into the specification.
4. The bounds of `CallsReturn`, as safety: how many steps a call can still take, as a number that
   each step makes smaller, would be a theorem where liveness is not.
