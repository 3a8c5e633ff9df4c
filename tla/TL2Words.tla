------------------------------ MODULE TL2Words ------------------------------
(***************************************************************************)
(* The bits under TL2.tla: a versioned lock of 353607/versioned_lock.c is  *)
(* one atomic int, the version above the lock bit, and the write set has a *)
(* filter, 353607/bloom.c, that decides whether it is searched at all.     *)
(* Both are functions of the state of TL2.tla.                             *)
(***************************************************************************)
EXTENDS TL2Inv, FiniteSetsExt

CONSTANT Align  \* tm->align

ASSUME AlignAssumption == Align \in 1 .. 32768

-----------------------------------------------------------------------------
(* versioned_lock.c over an int of IntRange values.                        *)

(* What is left of n in an int. *)
ToInt(n) == LET m == n % IntRange IN IF 2 * m < IntRange THEN m ELSE m - IntRange

LockBit(word) == word % 2

WordInit == 0

(* Mutant: the lock bit is not looked at. *)
WordReadVersionUnlocked(word) == word \div 2

WordReadVersion(word) == IF LockBit(word) = 1 THEN -1 ELSE word \div 2

(* prev & 0x1 || (prev >> 1) > rv *)
WordRefused(word, rv) == LockBit(word) = 1 \/ word \div 2 > rv

(* prev | 0x1 *)
WordTryLock(word) == word + 1 - LockBit(word)

(* atomic_fetch_sub(vl, 1) *)
WordUnlock(word) == ToInt(word - 1)

(* version << 1 *)
WordUnlockUpdate(version) == ToInt(2 * version)

(* The int that stands for the record l of TL2.tla. *)
Word(l) == 2 * l.ver + IF l.locked THEN 1 ELSE 0

(* The tests answer what those of TL2.tla do, for every read version... *)
WordsAnswer ==
  /\ Word(VlInit) = WordInit
  /\ \A w \in Words :
       /\ WordReadVersion(Word(vl[w])) = VlReadVersion(vl[w])
       /\ \A rv \in 0 .. gv : WordRefused(Word(vl[w]), rv) <=> Stale(vl[w], rv)

(* ... and each change of a lock is the one its function makes. *)
WordsChange ==
  \A w \in Words : vl'[w] # vl[w] =>
    \E t \in Threads :
      \/ /\ pc[t] = "cas" /\ ~WordRefused(Word(vl[w]), tx[t].rv)
         /\ Word(vl'[w]) = WordTryLock(Word(vl[w]))
      \/ pc[t] = "release" /\ Word(vl'[w]) = WordUnlock(Word(vl[w]))
      \/ pc[t] = "unlock" /\ Word(vl'[w]) = WordUnlockUpdate(loc[t].wv)

(* The clock leaves room for the shift: it is below a quarter of the range of *)
(* an int.                                                                    *)
ClockFits == 4 * gv < IntRange

(* As long as the clock fits, the record of version and lock bit that TL2.tla *)
(* works with is the int of versioned_lock.c: a fetch_sub never borrows from  *)
(* a version, a stored version never comes back negative or locked, and -1    *)
(* stands for "locked" and for nothing else.                                  *)
LockWords == [][ClockFits /\ ClockFits' => WordsAnswer /\ WordsChange]_vars

-----------------------------------------------------------------------------
(* bloom.c: the bitset as the set of its bits.                             *)

NumHashes == 5
BitsetSize == 64

(* The least i with 1 << i >= align. *)
BfAlign == Min({i \in 0 .. 15 : 2 ^ i >= Align})

(* Only the low bits of an address reach the position in the bitset: words of *)
(* the same offset in two segments have the same bits.                        *)
Hash(data, seed) == (((data % IntRange) \div (2 ^ BfAlign) + seed) * 1607) \div 32

(* 1 << pos is an int: the processor shifts by pos modulo 32, and the sign *)
(* of bit 31 goes on to bit 63.                                            *)
Mask(pos) == LET bit == pos % 32 IN IF bit = 31 THEN 31 .. 63 ELSE {bit}

Masks(x) == {Mask(Hash(x, i * 31) % BitsetSize) : i \in 0 .. NumHashes - 1}

BfIn(bitset, x) == \A m \in Masks(x) : m \cap bitset # {}

(* Mutant: the seed is not spread. *)
BfAddUnspread(bitset, x) ==
  bitset \cup UNION {Mask(Hash(x, i) % BitsetSize) : i \in 0 .. NumHashes - 1}

BfAdd(bitset, x) == bitset \cup UNION Masks(x)

(* The filter of a transaction that wrote S, whatever the order. *)
Filter(S) == FoldSet(LAMBDA w, bitset : BfAdd(bitset, Addr[w]), {}, S)

(* What tm_read and tm_write look up is found: a transaction never misses its *)
(* own write, nor enters a word in its write set twice (it would fail on the  *)
(* lock it holds itself); and the search by address finds no other word.      *)
OwnWritesFound ==
  \A t \in Threads : \A w \in Written(t) :
    /\ BfIn(Filter(Written(t)), Addr[w])
    /\ \A u \in Written(t) : Addr[u] = Addr[w] => u = w

=============================================================================
