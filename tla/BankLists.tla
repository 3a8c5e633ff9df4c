----------------------------- MODULE BankLists ------------------------------
(***************************************************************************)
(* Lemmas about the operators of Bank.tla and BankInv.tla, for any         *)
(* memory: what SumFunction adds up, what the accounts of a segment and    *)
(* the segments of a list are worth, what List visits, what the changes    *)
(* that the transactions make leave of a sound memory, and what the memory *)
(* is after a commit when what the transaction used is still current.      *)
(*                                                                         *)
(* The induction theorems of the library take an operator as a parameter,  *)
(* so that an induction here takes the least number, or a smallest set,    *)
(* for which the claim would fail (Least, Smallest).                       *)
(***************************************************************************)
EXTENDS BankInv, FiniteSetTheorems, WellFoundedInduction, TLAPS

-----------------------------------------------------------------------------
(* Sums *)

(* Induction on the natural numbers, as a fact about sets of them. *)
LEMMA Least ==
  ASSUME NEW T \in SUBSET Nat, T # {}
  PROVE  \E x \in T : \A y \in T : x <= y
<1> DEFINE R == {p \in Nat \X Nat : p[1] < p[2]}
<1>1. IsWellFoundedOn(R, Nat)
  BY NatLessThanWellFounded DEF OpToRel
<1>2. \E x \in T : \A y \in T : ~ (<<y, x>> \in R)
  <2> HIDE DEF R
  <2> QED  BY <1>1, WFMin
<1>3. PICK x \in T : \A y \in T : ~ (<<y, x>> \in R)
  BY <1>2
<1>4. ASSUME NEW y \in T PROVE x <= y
  <2>1. <<y, x>> \in Nat \X Nat /\ ~ (<<y, x>> \in R)
    BY <1>3
  <2>2. ~ (y < x)
    BY <2>1
  <2> QED  BY <2>2
<1> QED  BY <1>4

(* The same for the subsets of a finite set: a smallest one. *)
LEMMA Smallest ==
  ASSUME NEW D, IsFiniteSet(D), NEW F \in SUBSET (SUBSET D), F # {}
  PROVE  \E s \in F : \A t \in F : Cardinality(s) <= Cardinality(t)
<1>1. \A s \in F : Cardinality(s) \in Nat
  BY FS_Subset, FS_CardinalityType
<1> DEFINE C == {Cardinality(s) : s \in F}
<1>2. C \in SUBSET Nat /\ C # {}
  BY <1>1
<1>3. PICK x \in C : \A y \in C : x <= y
  <2> HIDE DEF C
  <2> QED  BY <1>2, Least
<1> QED  BY <1>3

(* Taking an element out makes a finite set smaller. *)
LEMMA Smaller ==
  ASSUME NEW S, IsFiniteSet(S), NEW x \in S
  PROVE  /\ IsFiniteSet(S \ {x}) /\ Cardinality(S) \in Nat /\ Cardinality(S \ {x}) \in Nat
         /\ Cardinality(S \ {x}) = Cardinality(S) - 1
         /\ ~(Cardinality(S) <= Cardinality(S \ {x}))
<1>1. /\ IsFiniteSet(S \ {x}) /\ Cardinality(S \ {x}) = Cardinality(S) - 1
      /\ Cardinality(S) \in Nat /\ Cardinality(S \ {x}) \in Nat
  BY FS_RemoveElement, FS_CardinalityType
<1> QED  BY <1>1

(* What the fold behind SumFunction adds up, element by element. *)
Any(s) == CHOOSE x \in s : TRUE
IsFold(f, F, g) == g = [s \in F |-> IF s = {} THEN 0 ELSE f[Any(s)] + g[s \ {Any(s)}]]
Fold(f, D) == CHOOSE g : IsFold(f, SUBSET D, g)

LEMMA SumFold ==
  ASSUME NEW f, NEW D
  PROVE  SumFunctionOnSet(f, D) = Fold(f, D)[D]
  BY DEF SumFunctionOnSet, FoldFunctionOnSet, MapThenFoldSet, Fold, IsFold, Any

(* The recursive function behind the fold exists. *)
LEMMA FoldExists ==
  ASSUME NEW f, NEW D, IsFiniteSet(D)
  PROVE  IsFold(f, SUBSET D, Fold(f, D))
<1> DEFINE Upto(n) == {s \in SUBSET D : Cardinality(s) <= n}
           Bad == {n \in Nat : ~ \E g : IsFold(f, Upto(n), g)}
<1>1. \A s \in SUBSET D : IsFiniteSet(s) /\ Cardinality(s) \in Nat
  BY FS_Subset, FS_CardinalityType
<1>2. Bad = {}
  <2> SUFFICES ASSUME Bad # {} PROVE FALSE
    OBVIOUS
  <2>1. PICK n \in Bad : \A k \in Bad : n <= k
    BY Least
  <2>2. n # 0
    <3>1. \A s \in Upto(0) : s = {}
      <4> SUFFICES ASSUME NEW s \in SUBSET D, Cardinality(s) <= 0 PROVE s = {}
        OBVIOUS
      <4>1. Cardinality(s) = 0 /\ IsFiniteSet(s)
        BY <1>1
      <4> QED  BY <4>1, FS_EmptySet
    <3>2. IsFold(f, Upto(0), [s \in Upto(0) |-> 0])
      <4> HIDE DEF Upto
      <4> QED  BY <3>1 DEF IsFold
    <3> HIDE DEF Upto
    <3> QED  BY <3>2
  <2>3. n \in Nat /\ n - 1 \in Nat /\ ~(n <= n - 1)
    BY <2>2
  <2>4. PICK g : IsFold(f, Upto(n - 1), g)
    <3> HIDE DEF Upto
    <3> QED  BY <2>1, <2>3
  <2> DEFINE h == [s \in Upto(n) |-> IF s = {} THEN 0 ELSE f[Any(s)] + g[s \ {Any(s)}]]
  <2>5. ASSUME NEW s \in Upto(n), s # {}
        PROVE  s \ {Any(s)} \in Upto(n - 1) /\ s \ {Any(s)} \in Upto(n)
    <3>1. Any(s) \in s
      BY <2>5 DEF Any
    <3>2. Cardinality(s \ {Any(s)}) = Cardinality(s) - 1 /\ Cardinality(s) \in Nat
      BY <1>1, <3>1, Smaller
    <3>3. Cardinality(s) <= n
      OBVIOUS
    <3> QED  BY <2>3, <3>2, <3>3
  <2>6. ASSUME NEW s \in Upto(n - 1) PROVE s \in Upto(n) /\ g[s] = h[s]
    <3>1. s \in Upto(n)
      BY <1>1, <2>3
    <3> HIDE DEF Upto
    <3>2. g[s] = IF s = {} THEN 0 ELSE f[Any(s)] + g[s \ {Any(s)}]
      BY <2>4 DEF IsFold
    <3> QED  BY <3>1, <3>2
  <2>7. IsFold(f, Upto(n), h)
    <3> HIDE DEF Upto
    <3>1. \A s \in Upto(n) : s # {} => g[s \ {Any(s)}] = h[s \ {Any(s)}]
      <4> HIDE DEF h
      <4> QED  BY <2>5, <2>6
    <3>2. h = [s \in Upto(n) |-> IF s = {} THEN 0 ELSE f[Any(s)] + h[s \ {Any(s)}]]
      <4>1. \A s \in Upto(n) : h[s] = IF s = {} THEN 0 ELSE f[Any(s)] + h[s \ {Any(s)}]
        BY <3>1
      <4>2. h = [s \in Upto(n) |-> h[s]]
        OBVIOUS
      <4> HIDE DEF h
      <4> QED  BY <4>1, <4>2
    <3> QED  BY <3>2 DEF IsFold
  <2> HIDE DEF Upto, h
  <2> QED  BY <2>1, <2>7
<1>3. Upto(Cardinality(D)) = SUBSET D
  BY FS_Subset, FS_CardinalityType
<1>4. Cardinality(D) \in Nat
  BY FS_CardinalityType
<1>5. \E g : IsFold(f, SUBSET D, g)
  <2> HIDE DEF Upto
  <2> QED  BY <1>2, <1>3, <1>4
<1> QED  BY <1>5 DEF Fold

(* Two sums of the same numbers are the same. *)
LEMMA FoldSame ==
  ASSUME NEW f, NEW D, IsFiniteSet(D), NEW g, NEW E, IsFiniteSet(E),
         NEW S \in SUBSET (D \cap E), \A x \in S : f[x] = g[x]
  PROVE  Fold(f, D)[S] = Fold(g, E)[S]
<1> DEFINE Bad == {s \in SUBSET S : Fold(f, D)[s] # Fold(g, E)[s]}
<1>1. Bad = {}
  <2> SUFFICES ASSUME Bad # {} PROVE FALSE
    OBVIOUS
  <2>1. IsFiniteSet(S)
    BY FS_Subset
  <2>2. PICK s \in Bad : \A t \in Bad : Cardinality(s) <= Cardinality(t)
    BY <2>1, Smallest
  <2>3. s \in SUBSET S /\ IsFiniteSet(s) /\ Fold(f, D)[s] # Fold(g, E)[s]
    BY <2>1, <2>2, FS_Subset
  <2>4. /\ Fold(f, D)[s] = IF s = {} THEN 0 ELSE f[Any(s)] + Fold(f, D)[s \ {Any(s)}]
        /\ Fold(g, E)[s] = IF s = {} THEN 0 ELSE g[Any(s)] + Fold(g, E)[s \ {Any(s)}]
    <3>1. IsFold(f, SUBSET D, Fold(f, D)) /\ IsFold(g, SUBSET E, Fold(g, E))
      BY FoldExists
    <3>2. s \in SUBSET D /\ s \in SUBSET E
      BY <2>3
    <3> QED  BY <3>1, <3>2 DEF IsFold
  <2>5. s # {} /\ Any(s) \in s
    BY <2>3, <2>4 DEF Any
  <2>6. Fold(f, D)[s \ {Any(s)}] = Fold(g, E)[s \ {Any(s)}]
    <3>1. ~(Cardinality(s) <= Cardinality(s \ {Any(s)}))
      BY <2>3, <2>5, Smaller
    <3>2. s \ {Any(s)} \notin Bad
      BY <2>2, <3>1
    <3> QED  BY <2>3, <3>2
  <2> QED  BY <2>3, <2>4, <2>5, <2>6
<1> QED  BY <1>1

-----------------------------------------------------------------------------
LEMMA SumEmpty ==
  ASSUME NEW f PROVE SumFunctionOnSet(f, {}) = 0
<1>1. IsFold(f, SUBSET {}, Fold(f, {}))
  BY FoldExists, FS_EmptySet
<1>2. Fold(f, {})[{}] = 0
  BY <1>1 DEF IsFold
<1> QED  BY <1>2, SumFold

LEMMA SumSame ==
  ASSUME NEW D, IsFiniteSet(D), NEW f, NEW g, \A x \in D : f[x] = g[x]
  PROVE  SumFunctionOnSet(f, D) = SumFunctionOnSet(g, D)
  BY SumFold, FoldSame

(* A sum is the chosen number and the sum of the others. *)
LEMMA SumStep ==
  ASSUME NEW D, IsFiniteSet(D), D # {}, NEW f
  PROVE  /\ Any(D) \in D
         /\ SumFunctionOnSet(f, D) = f[Any(D)] + SumFunctionOnSet(f, D \ {Any(D)})
<1>1. Any(D) \in D
  BY DEF Any
<1>2. Fold(f, D)[D] = f[Any(D)] + Fold(f, D)[D \ {Any(D)}]
  <2>1. IsFold(f, SUBSET D, Fold(f, D)) /\ D \in SUBSET D
    BY FoldExists
  <2> QED  BY <2>1 DEF IsFold
<1>3. Fold(f, D)[D \ {Any(D)}] = Fold(f, D \ {Any(D)})[D \ {Any(D)}]
  <2>1. IsFiniteSet(D \ {Any(D)}) /\ D \ {Any(D)} \in SUBSET (D \cap (D \ {Any(D)}))
    BY <1>1, Smaller
  <2> QED  BY <2>1, FoldSame
<1> QED  BY <1>1, <1>2, <1>3, SumFold

LEMMA SumType ==
  ASSUME NEW D, IsFiniteSet(D), NEW f, \A x \in D : f[x] \in Int
  PROVE  SumFunctionOnSet(f, D) \in Int
<1> DEFINE Bad == {s \in SUBSET D : SumFunctionOnSet(f, s) \notin Int}
<1> SUFFICES ASSUME Bad # {} PROVE FALSE
  OBVIOUS
<1>1. PICK s \in Bad : \A t \in Bad : Cardinality(s) <= Cardinality(t)
  BY Smallest
<1>2. s \in SUBSET D /\ IsFiniteSet(s) /\ SumFunctionOnSet(f, s) \notin Int
  BY <1>1, FS_Subset
<1>3. s # {}
  BY <1>2, SumEmpty
<1>4. Any(s) \in s /\ SumFunctionOnSet(f, s) = f[Any(s)] + SumFunctionOnSet(f, s \ {Any(s)})
  BY <1>2, <1>3, SumStep
<1>5. SumFunctionOnSet(f, s \ {Any(s)}) \in Int
  <2>1. ~(Cardinality(s) <= Cardinality(s \ {Any(s)}))
    BY <1>2, <1>4, Smaller
  <2>2. s \ {Any(s)} \notin Bad
    BY <1>1, <2>1
  <2> QED  BY <1>2, <2>2
<1> QED  BY <1>2, <1>4, <1>5

(* A sum is one of its numbers and the sum of the others. *)
LEMMA SumSplit ==
  ASSUME NEW D, IsFiniteSet(D), NEW f, \A x \in D : f[x] \in Int, NEW x \in D
  PROVE  SumFunctionOnSet(f, D) = f[x] + SumFunctionOnSet(f, D \ {x})
<1> DEFINE Splits(s, e) == SumFunctionOnSet(f, s) = f[e] + SumFunctionOnSet(f, s \ {e})
           Bad == {s \in SUBSET D : \E e \in s : ~Splits(s, e)}
<1> SUFFICES ASSUME Bad # {} PROVE FALSE
  OBVIOUS
<1>1. PICK s \in Bad : \A t \in Bad : Cardinality(s) <= Cardinality(t)
  BY Smallest
<1>2. s \in SUBSET D /\ IsFiniteSet(s) /\ \E e \in s : ~Splits(s, e)
  BY <1>1, FS_Subset
<1>3. PICK e \in s : ~Splits(s, e)
  BY <1>2
<1> DEFINE y == Any(s)
<1>4. y \in s /\ Splits(s, y)
  BY <1>2, SumStep
<1> HIDE DEF y
<1>5. y # e
  BY <1>3, <1>4
<1>6. ASSUME NEW a \in s, NEW b \in s, a # b
      PROVE  Splits(s \ {a}, b)
  <2>1. ~(Cardinality(s) <= Cardinality(s \ {a}))
    BY <1>2, Smaller
  <2>2. s \ {a} \notin Bad
    BY <1>1, <2>1
  <2>3. s \ {a} \in SUBSET D /\ b \in s \ {a}
    BY <1>2, <1>6
  <2> QED  BY <2>2, <2>3
<1>7. Splits(s \ {y}, e) /\ Splits(s \ {e}, y)
  BY <1>4, <1>5, <1>6
<1>8. (s \ {y}) \ {e} = (s \ {e}) \ {y}
  OBVIOUS
<1>9. SumFunctionOnSet(f, (s \ {e}) \ {y}) \in Int /\ f[e] \in Int /\ f[y] \in Int
  <2>1. IsFiniteSet((s \ {e}) \ {y}) /\ \A z \in (s \ {e}) \ {y} : f[z] \in Int
    BY <1>2, FS_Subset
  <2> QED  BY <1>2, <1>4, <2>1, SumType
<1>10. Splits(s, e)
  <2>1. SumFunctionOnSet(f, s) = f[y] + (f[e] + SumFunctionOnSet(f, (s \ {e}) \ {y}))
    BY <1>4, <1>7, <1>8
  <2>2. f[e] + SumFunctionOnSet(f, s \ {e}) = f[e] + (f[y] + SumFunctionOnSet(f, (s \ {e}) \ {y}))
    BY <1>7
  <2> QED  BY <1>9, <2>1, <2>2
<1> QED  BY <1>3, <1>10

(* One number changes. *)
LEMMA SumChange ==
  ASSUME NEW D, IsFiniteSet(D), NEW x \in D, NEW f, NEW g, \A y \in D : f[y] \in Int /\ g[y] \in Int,
         \A y \in D \ {x} : g[y] = f[y]
  PROVE  SumFunctionOnSet(g, D) = SumFunctionOnSet(f, D) + g[x] - f[x]
<1>1. IsFiniteSet(D \ {x}) /\ SumFunctionOnSet(f, D \ {x}) \in Int
  BY FS_Subset, SumType
<1>2. SumFunctionOnSet(f, D) = f[x] + SumFunctionOnSet(f, D \ {x})
  BY SumSplit
<1>3. SumFunctionOnSet(g, D) = g[x] + SumFunctionOnSet(g, D \ {x})
  BY SumSplit
<1>4. SumFunctionOnSet(g, D \ {x}) = SumFunctionOnSet(f, D \ {x})
  BY <1>1, SumSame
<1> QED  BY <1>1, <1>2, <1>3, <1>4

(* A sum of natural numbers is at least each of them, and none if all are 0. *)
LEMMA SumNat ==
  ASSUME NEW D, IsFiniteSet(D), NEW f, \A x \in D : f[x] \in Nat
  PROVE  /\ SumFunctionOnSet(f, D) \in Nat
         /\ \A x \in D : f[x] <= SumFunctionOnSet(f, D)
<1> DEFINE Bad == {s \in SUBSET D : SumFunctionOnSet(f, s) \notin Nat}
<1>1. Bad = {}
  <2> SUFFICES ASSUME Bad # {} PROVE FALSE
    OBVIOUS
  <2>1. PICK s \in Bad : \A t \in Bad : Cardinality(s) <= Cardinality(t)
    BY Smallest
  <2>2. s \in SUBSET D /\ IsFiniteSet(s) /\ SumFunctionOnSet(f, s) \notin Nat
    BY <2>1, FS_Subset
  <2>3. s # {}
    <3>1. SumFunctionOnSet(f, {}) \in Nat
      BY SumEmpty
    <3> QED  BY <2>2, <3>1
  <2>4. Any(s) \in s /\ SumFunctionOnSet(f, s) = f[Any(s)] + SumFunctionOnSet(f, s \ {Any(s)})
    BY <2>2, <2>3, SumStep
  <2>5. SumFunctionOnSet(f, s \ {Any(s)}) \in Nat
    <3>1. ~(Cardinality(s) <= Cardinality(s \ {Any(s)}))
      BY <2>2, <2>4, Smaller
    <3>2. s \ {Any(s)} \notin Bad
      BY <2>1, <3>1
    <3> QED  BY <2>2, <3>2
  <2> QED  BY <2>2, <2>4, <2>5
<1>2. ASSUME NEW x \in D PROVE f[x] <= SumFunctionOnSet(f, D)
  <2>1. SumFunctionOnSet(f, D) = f[x] + SumFunctionOnSet(f, D \ {x})
    BY SumSplit
  <2>2. SumFunctionOnSet(f, D \ {x}) \in Nat
    BY <1>1
  <2> QED  BY <2>1, <2>2
<1> QED  BY <1>1, <1>2

(* The same number at every element. *)
LEMMA SumConstant ==
  ASSUME NEW D, IsFiniteSet(D), NEW n \in Nat, NEW f, \A x \in D : f[x] = n
  PROVE  SumFunctionOnSet(f, D) = n * Cardinality(D)
<1> DEFINE Bad == {s \in SUBSET D : SumFunctionOnSet(f, s) # n * Cardinality(s)}
<1> SUFFICES ASSUME Bad # {} PROVE FALSE
  OBVIOUS
<1>1. PICK s \in Bad : \A t \in Bad : Cardinality(s) <= Cardinality(t)
  BY Smallest
<1>2. s \in SUBSET D /\ IsFiniteSet(s) /\ SumFunctionOnSet(f, s) # n * Cardinality(s)
  BY <1>1, FS_Subset
<1>3. s # {}
  BY <1>2, SumEmpty, FS_EmptySet
<1> DEFINE r == s \ {Any(s)}
<1>4. Any(s) \in s /\ SumFunctionOnSet(f, s) = f[Any(s)] + SumFunctionOnSet(f, r)
  BY <1>2, <1>3, SumStep
<1>5. /\ Cardinality(s) \in Nat /\ Cardinality(r) = Cardinality(s) - 1
      /\ ~(Cardinality(s) <= Cardinality(r))
  BY <1>2, <1>4, Smaller
<1>6. SumFunctionOnSet(f, r) = n * Cardinality(r)
  <2>1. r \notin Bad
    BY <1>1, <1>5
  <2> QED  BY <1>2, <2>1
<1> HIDE DEF r
<1>7. SumFunctionOnSet(f, s) = n + n * (Cardinality(s) - 1)
  BY <1>2, <1>4, <1>5, <1>6
<1> QED  BY <1>2, <1>5, <1>7

-----------------------------------------------------------------------------
(* Segments *)

LEMMA Sorts ==
  /\ First \in Addresses /\ Null \notin Addresses /\ Null \notin Segments /\ Segs \subseteq Addresses
  /\ IsFiniteSet(Addresses) /\ Cardinality(Segs) \in Nat /\ Cardinality(Addresses) = Cardinality(Segs) + 1
  /\ NbAccounts \in Nat \ {0} /\ InitBalance \in Nat
  /\ IsFiniteSet(Places) /\ Cardinality(Places) = NbAccounts /\ 0 \in Places
  /\ IsFiniteSet(Workers) /\ Uid0 \in Workers
<1>1. IsFiniteSet(Places) /\ Cardinality(Places) = NbAccounts /\ 0 \in Places
  BY BankAssumption, FS_Interval DEF Places
<1>2. Addresses = Segs \cup {First} /\ IsFiniteSet(Segs) /\ First \notin Segs
  BY BankAssumption DEF Addresses
<1>3. IsFiniteSet(Addresses) /\ Cardinality(Addresses) = Cardinality(Segs) + 1
  BY <1>2, FS_AddElement
<1>4. Cardinality(Segs) \in Nat
  BY <1>2, FS_CardinalityType
<1> QED  BY <1>1, <1>2, <1>3, <1>4, BankAssumption

(* The places of a segment that are accounts. *)
Open(c) == {j \in Places : j < c}

LEMMA OpenPlaces ==
  ASSUME NEW c \in Nat
  PROVE  /\ IsFiniteSet(Open(c)) /\ Open(c) \subseteq Places
         /\ (c \in 1 .. NbAccounts => c - 1 \in Open(c) /\ Open(c) \ {c - 1} = Open(c - 1) /\ c - 1 \in Places)
<1>1. Open(c) \subseteq Places
  BY DEF Open
<1>2. IsFiniteSet(Open(c))
  BY <1>1, Sorts, FS_Subset
<1>3. ASSUME c \in 1 .. NbAccounts
      PROVE  c - 1 \in Open(c) /\ Open(c) \ {c - 1} = Open(c - 1) /\ c - 1 \in Places
  BY <1>3, Sorts DEF Open, Places
<1> QED  BY <1>1, <1>2, <1>3

LEMMA BalancesOf ==
  ASSUME NEW s \in Segments
  PROVE  Balances(s) = SumFunctionOnSet([i \in Open(s.count) |-> s.accounts[i]], Open(s.count))
  BY DEF Balances, SumFunction, Open

(* Only the accounts below the count matter. *)
LEMMA BalancesSum ==
  ASSUME NEW s \in Segments
  PROVE  /\ Balances(s) = SumFunctionOnSet(s.accounts, Open(s.count))
         /\ Balances(s) \in Int
<1>1. s.count \in Nat /\ \A i \in Open(s.count) : s.accounts[i] \in Int
  BY DEF Segments, Open
<1>2. IsFiniteSet(Open(s.count))
  BY <1>1, OpenPlaces
<1>3. SumFunctionOnSet([i \in Open(s.count) |-> s.accounts[i]], Open(s.count)) = SumFunctionOnSet(s.accounts, Open(s.count))
  BY <1>2, SumSame
<1>4. SumFunctionOnSet(s.accounts, Open(s.count)) \in Int
  BY <1>1, <1>2, SumType
<1> QED  BY <1>3, <1>4, BalancesOf

(* The last account taken off, or put on. *)
LEMMA BalancesLast ==
  ASSUME NEW s \in Segments, NEW r \in Segments, s.count \in 1 .. NbAccounts, r.count = s.count - 1,
         \A i \in Open(r.count) : r.accounts[i] = s.accounts[i]
  PROVE  Balances(s) = Balances(r) + s.accounts[s.count - 1]
<1>1. /\ IsFiniteSet(Open(s.count)) /\ s.count - 1 \in Open(s.count)
      /\ Open(s.count) \ {s.count - 1} = Open(r.count)
  <2>1. s.count \in Nat
    BY Sorts
  <2> QED  BY <2>1, OpenPlaces
<1>2. \A i \in Open(s.count) : s.accounts[i] \in Int
  BY DEF Segments, Open
<1>3. SumFunctionOnSet(s.accounts, Open(s.count))
        = s.accounts[s.count - 1] + SumFunctionOnSet(s.accounts, Open(r.count))
  BY <1>1, <1>2, SumSplit
<1>4. SumFunctionOnSet(s.accounts, Open(r.count)) = SumFunctionOnSet(r.accounts, Open(r.count))
  <2>1. IsFiniteSet(Open(r.count))
    BY OpenPlaces DEF Segments
  <2> QED  BY <2>1, SumSame
<1> QED  BY <1>1, <1>2, <1>3, <1>4, BalancesSum

(* One account changes. *)
LEMMA BalancesChange ==
  ASSUME NEW s \in Segments, NEW i \in Places, i < s.count, NEW r \in Segments, r.count = s.count,
         \A j \in Places \ {i} : r.accounts[j] = s.accounts[j]
  PROVE  Balances(r) = Balances(s) + r.accounts[i] - s.accounts[i]
<1>1. IsFiniteSet(Open(s.count)) /\ i \in Open(s.count) /\ Open(s.count) \subseteq Places
  BY OpenPlaces DEF Segments, Open
<1>2. \A j \in Open(s.count) : s.accounts[j] \in Int /\ r.accounts[j] \in Int
  BY <1>1 DEF Segments
<1>3. SumFunctionOnSet(r.accounts, Open(s.count))
        = SumFunctionOnSet(s.accounts, Open(s.count)) + r.accounts[i] - s.accounts[i]
  BY <1>1, <1>2, SumChange
<1> QED  BY <1>3, BalancesSum

LEMMA BalancesNone ==
  ASSUME NEW s \in Segments, s.count = 0
  PROVE  Balances(s) = 0
<1>1. Open(0) = {}
  BY Sorts DEF Open, Places
<1> QED  BY <1>1, BalancesSum, SumEmpty

-----------------------------------------------------------------------------
(* Sums over segments *)

Worth(s) == s.parity + Balances(s)

LEMMA Contents ==
  ASSUME NEW m \in Memories, NEW s \in Allocated(m)
  PROVE  /\ m[s] \in Segments /\ s \in Addresses
         /\ m[s].count \in Nat /\ m[s].next \in Segs \cup {Null} /\ m[s].parity \in Int
         /\ m[s].accounts \in [Places -> Int] /\ Worth(m[s]) \in Int
<1>1. m[s] \in Segments /\ s \in Addresses
  BY DEF Allocated, Memories
<1>2. Balances(m[s]) \in Int
  BY <1>1, BalancesSum
<1> QED  BY <1>1, <1>2 DEF Segments, Worth

(* Money and Number are sums over the segments. *)
LEMMA MoneySum ==
  ASSUME NEW m \in Memories, NEW S \in SUBSET Allocated(m)
  PROVE  /\ IsFiniteSet(S)
         /\ Money(m, S) = SumFunctionOnSet([s \in S |-> Worth(m[s])], S) /\ Money(m, S) \in Int
         /\ Number(m, S) = SumFunctionOnSet([s \in S |-> m[s].count], S) /\ Number(m, S) \in Nat
<1>1. IsFiniteSet(S)
  BY Sorts, FS_Subset DEF Allocated
<1>2. Money(m, S) = SumFunctionOnSet([s \in S |-> Worth(m[s])], S)
  BY DEF Money, SumFunction, Worth
<1>3. Number(m, S) = SumFunctionOnSet([s \in S |-> m[s].count], S)
  BY DEF Number, SumFunction
<1>4. SumFunctionOnSet([s \in S |-> Worth(m[s])], S) \in Int
  BY <1>1, Contents, SumType
<1>5. SumFunctionOnSet([s \in S |-> m[s].count], S) \in Nat
  BY <1>1, Contents, SumNat
<1> QED  BY <1>1, <1>2, <1>3, <1>4, <1>5

LEMMA MoneyNone ==
  ASSUME NEW m \in Memories
  PROVE  Money(m, {}) = 0 /\ Number(m, {}) = 0
  BY MoneySum, SumEmpty

(* A segment more. *)
LEMMA MoneyAdd ==
  ASSUME NEW m \in Memories, NEW S \in SUBSET Allocated(m), NEW x \in Allocated(m) \ S
  PROVE  /\ Money(m, S \cup {x}) = Money(m, S) + Worth(m[x])
         /\ Number(m, S \cup {x}) = Number(m, S) + m[x].count
<1> DEFINE T == S \cup {x}
           f == [s \in T |-> Worth(m[s])]
           g == [s \in T |-> m[s].count]
<1>1. T \in SUBSET Allocated(m) /\ T \ {x} = S /\ x \in T
  OBVIOUS
<1>2. IsFiniteSet(T) /\ IsFiniteSet(S)
  BY <1>1, MoneySum
<1>3. \A s \in T : f[s] = Worth(m[s]) /\ g[s] = m[s].count /\ f[s] \in Int /\ g[s] \in Int
  <2>1. \A s \in T : Worth(m[s]) \in Int /\ m[s].count \in Int
    BY <1>1, Contents
  <2> HIDE DEF T
  <2> QED  BY <2>1
<1>4. Money(m, T) = SumFunctionOnSet(f, T) /\ Number(m, T) = SumFunctionOnSet(g, T)
  <2> HIDE DEF T
  <2> QED  BY <1>1, MoneySum
<1>5. /\ SumFunctionOnSet(f, S) = SumFunctionOnSet([s \in S |-> Worth(m[s])], S)
      /\ SumFunctionOnSet(g, S) = SumFunctionOnSet([s \in S |-> m[s].count], S)
  BY <1>2, SumSame
<1>6. SumFunctionOnSet(f, S) = Money(m, S) /\ SumFunctionOnSet(g, S) = Number(m, S)
  BY <1>5, MoneySum
<1> HIDE DEF T, f, g
<1>7. /\ SumFunctionOnSet(f, T) = f[x] + SumFunctionOnSet(f, T \ {x})
      /\ SumFunctionOnSet(g, T) = g[x] + SumFunctionOnSet(g, T \ {x})
  BY <1>1, <1>2, <1>3, SumSplit
<1>8. Money(m, T) = Worth(m[x]) + Money(m, S) /\ Number(m, T) = m[x].count + Number(m, S)
  BY <1>1, <1>3, <1>4, <1>6, <1>7
<1>9. Money(m, S) \in Int /\ Number(m, S) \in Int /\ Worth(m[x]) \in Int /\ m[x].count \in Int
  <2>1. Worth(m[x]) \in Int /\ m[x].count \in Nat
    BY <1>1, Contents
  <2>2. Money(m, S) \in Int /\ Number(m, S) \in Nat
    BY MoneySum
  <2> QED  BY <2>1, <2>2
<1> QED  BY <1>8, <1>9 DEF T

LEMMA MoneySame ==
  ASSUME NEW m \in Memories, NEW n \in Memories, NEW S \in SUBSET Allocated(m), \A s \in S : n[s] = m[s]
  PROVE  S \in SUBSET Allocated(n) /\ Money(n, S) = Money(m, S) /\ Number(n, S) = Number(m, S)
  BY DEF Allocated, Money, Number

(* One segment changes. *)
LEMMA MoneyChange ==
  ASSUME NEW m \in Memories, NEW n \in Memories, NEW x \in Allocated(m), n[x] # Null,
         \A s \in Addresses \ {x} : n[s] = m[s]
  PROVE  /\ Allocated(n) = Allocated(m)
         /\ Money(n, Allocated(n)) = Money(m, Allocated(m)) + Worth(n[x]) - Worth(m[x])
         /\ Number(n, Allocated(n)) = Number(m, Allocated(m)) + n[x].count - m[x].count
<1> DEFINE S == Allocated(m) \ {x}
<1>1. Allocated(n) = Allocated(m) /\ S \in SUBSET Allocated(m) /\ x \in Allocated(m) \ S /\ S \cup {x} = Allocated(m)
  BY DEF Allocated
<1>2. S \in SUBSET Allocated(n) /\ Money(n, S) = Money(m, S) /\ Number(n, S) = Number(m, S)
  <2>1. \A s \in S : n[s] = m[s]
    BY DEF Allocated
  <2> QED  BY <1>1, <2>1, MoneySame
<1> HIDE DEF S
<1>3. /\ Money(m, Allocated(m)) = Money(m, S) + Worth(m[x])
      /\ Number(m, Allocated(m)) = Number(m, S) + m[x].count
  BY <1>1, MoneyAdd
<1>4. /\ Money(n, Allocated(n)) = Money(n, S) + Worth(n[x])
      /\ Number(n, Allocated(n)) = Number(n, S) + n[x].count
  BY <1>1, <1>2, MoneyAdd
<1>5. /\ Money(m, S) \in Int /\ Number(m, S) \in Int /\ Worth(m[x]) \in Int /\ m[x].count \in Int
      /\ Worth(n[x]) \in Int /\ n[x].count \in Int
  <2>1. Worth(m[x]) \in Int /\ m[x].count \in Nat /\ Worth(n[x]) \in Int /\ n[x].count \in Nat
    BY <1>1, Contents
  <2>2. Money(m, S) \in Int /\ Number(m, S) \in Nat
    BY <1>1, MoneySum
  <2> QED  BY <2>1, <2>2
<1> QED  BY <1>1, <1>2, <1>3, <1>4, <1>5

-----------------------------------------------------------------------------
(* The list *)

LEMMA ListLength ==
  ASSUME NEW k \in Nat, NEW q \in [0 .. k -> Addresses],
         \A i, j \in 0 .. k : q[i] = q[j] => i = j
  PROVE  k \in 0 .. Cardinality(Segs)
<1>1. q \in Injection(0 .. k, Addresses)
  BY DEF Injection, IsInjective
<1>2. Cardinality(0 .. k) <= Cardinality(Addresses)
  BY <1>1, Sorts, FS_Injection
<1>3. Cardinality(0 .. k) = k + 1
  BY FS_Interval
<1> QED  BY <1>2, <1>3, Sorts

(* Who says that q is a list need not count it. *)
LEMMA ListIntro ==
  ASSUME NEW m \in Memories, NEW k \in Nat, NEW q, IsList(q, k, m)
  PROVE  Listed(m)
<1>1. q \in [0 .. k -> Addresses] /\ k \in 0 .. Cardinality(Segs)
  BY ListLength DEF IsList
<1> QED  BY <1>1 DEF Listed

LEMMA ListFacts ==
  ASSUME NEW m \in Memories, NEW k \in Nat, NEW q, IsList(q, k, m), NEW i \in 0 .. k
  PROVE  /\ q[i] \in Allocated(m) /\ q[i] # Null /\ q[i] \in Addresses
         /\ m[q[i]].next = Null <=> i = k
         /\ i # k => i + 1 \in 0 .. k /\ m[q[i]].next = q[i + 1]
<1>1. q[i] \in Allocated(m) /\ q[i] \in Addresses
  BY DEF IsList, Allocated
<1>2. m[q[i]].next = IF i = k THEN Null ELSE q[i + 1]
  BY DEF IsList
<1>3. i # k => i + 1 \in 0 .. k /\ q[i + 1] # Null
  <2> SUFFICES ASSUME i # k PROVE i + 1 \in 0 .. k /\ q[i + 1] # Null
    OBVIOUS
  <2>1. i + 1 \in 0 .. k
    OBVIOUS
  <2>2. q[i + 1] \in Addresses
    BY <2>1 DEF IsList
  <2> QED  BY <2>1, <2>2, Sorts
<1> QED  BY <1>1, <1>2, <1>3, Sorts

LEMMA Lists ==
  ASSUME NEW m \in Memories, Listed(m)
  PROVE  /\ First \in Allocated(m) /\ m[First] \in Segments
         /\ \E k \in Nat : \E q : IsList(q, k, m)
<1>1. PICK k \in 0 .. Cardinality(Segs) : \E q \in [0 .. k -> Addresses] : IsList(q, k, m)
  BY DEF Listed
<1>2. k \in Nat /\ 0 \in 0 .. k
  BY <1>1, Sorts
<1>3. PICK q : IsList(q, k, m)
  BY <1>1
<1>4. First \in Allocated(m)
  BY <1>2, <1>3 DEF IsList
<1> QED  BY <1>2, <1>3, <1>4, Contents

(* The walk of List goes through the list, and then stays at its end.       *)
Visits(m) == CHOOSE f :
  f = [n \in 0 .. Cardinality(Segs) |-> IF n = 0 THEN First ELSE Following(m, f[n - 1])]

LEMMA VisitsDef ==
  ASSUME NEW m
  PROVE  /\ List(m) = {Visits(m)[n] : n \in 0 .. Cardinality(Segs)} \ {Null}
         /\ Visits(m)[0] = First
         /\ \A n \in 1 .. Cardinality(Segs) : Visits(m)[n] = Following(m, Visits(m)[n - 1])
<1> DEFINE Is(f, n) == f = [i \in 0 .. n |-> IF i = 0 THEN First ELSE Following(m, f[i - 1])]
           Bad == {n \in Nat : ~ \E f : Is(f, n)}
<1>1. Bad = {}
  <2> SUFFICES ASSUME Bad # {} PROVE FALSE
    OBVIOUS
  <2>1. PICK n \in Bad : \A k \in Bad : n <= k
    BY Least
  <2>2. n # 0
    <3>1. Is([i \in 0 .. 0 |-> First], 0)
      OBVIOUS
    <3> QED  BY <3>1
  <2>3. n - 1 \in Nat /\ n \in Nat /\ n - 1 \notin Bad
    <3>1. n - 1 \in Nat /\ n \in Nat /\ ~(n <= n - 1)
      BY <2>2
    <3> HIDE DEF Bad
    <3> QED  BY <2>1, <3>1
  <2>4. PICK f : Is(f, n - 1)
    BY <2>3
  <2> DEFINE g == [i \in 0 .. n |-> IF i = n THEN Following(m, f[n - 1]) ELSE f[i]]
  <2>5. Is(g, n)
    <3>1. ASSUME NEW i \in 0 .. n
          PROVE  g[i] = IF i = 0 THEN First ELSE Following(m, g[i - 1])
      <4>1. CASE i = n
        BY <2>2, <2>3, <4>1
      <4>2. CASE i # n
        <5>1. i \in 0 .. n - 1 /\ (i = 0 \/ (i - 1 \in 0 .. n /\ i - 1 # n))
          BY <2>3, <4>2
        <5>2. f[i] = IF i = 0 THEN First ELSE Following(m, f[i - 1])
          BY <2>4, <5>1
        <5>3. g[i] = f[i] /\ (i = 0 \/ g[i - 1] = f[i - 1])
          BY <4>2, <5>1
        <5> QED  BY <5>2, <5>3
      <4> QED  BY <4>1, <4>2
    <3>2. g = [i \in 0 .. n |-> g[i]]
      OBVIOUS
    <3> HIDE DEF g
    <3> QED  BY <3>1, <3>2
  <2> QED  BY <2>1, <2>5
<1>2. Cardinality(Segs) \in Nat
  BY Sorts
<1>3. \E f : Is(f, Cardinality(Segs))
  BY <1>1, <1>2
<1>4. Is(Visits(m), Cardinality(Segs))
  BY <1>3 DEF Visits
<1>5. DOMAIN Visits(m) = 0 .. Cardinality(Segs)
  BY <1>4
<1>6. List(m) = {Visits(m)[n] : n \in DOMAIN Visits(m)} \ {Null}
  BY DEF List, Visits
<1>7. 0 \in 0 .. Cardinality(Segs) /\ \A n \in 1 .. Cardinality(Segs) : n \in 0 .. Cardinality(Segs) /\ n # 0
  BY <1>2
<1> QED  BY <1>4, <1>5, <1>6, <1>7

(* List visits what is allocated, and nothing else. *)
LEMMA ListWhole ==
  ASSUME NEW m \in Memories, Listed(m)
  PROVE  List(m) = Allocated(m)
<1> DEFINE N == Cardinality(Segs)
<1>1. PICK k \in 0 .. N : \E q \in [0 .. k -> Addresses] : IsList(q, k, m)
  BY DEF Listed
<1>2. PICK q : IsList(q, k, m)
  BY <1>1
<1>3. N \in Nat /\ k \in Nat
  BY <1>1, Sorts
<1> DEFINE At(n) == IF n <= k THEN q[n] ELSE Null
           Bad == {n \in 0 .. N : Visits(m)[n] # At(n)}
<1>4. Bad = {}
  <2> SUFFICES ASSUME Bad # {} PROVE FALSE
    OBVIOUS
  <2>1. PICK n \in Bad : \A j \in Bad : n <= j
    <3>1. Bad \in SUBSET Nat
      BY <1>3
    <3> HIDE DEF Bad
    <3> QED  BY <3>1, Least
  <2>2. n \in 0 .. N /\ Visits(m)[n] # At(n)
    BY <2>1
  <2>3. n # 0
    <3>1. At(0) = First
      BY <1>2, <1>3 DEF IsList
    <3> QED  BY <2>2, <3>1, VisitsDef
  <2>4. n - 1 \in 0 .. N /\ n \in 1 .. N /\ ~(n <= n - 1)
    BY <1>3, <2>2, <2>3
  <2>5. Visits(m)[n - 1] = At(n - 1)
    BY <2>1, <2>4
  <2>6. Visits(m)[n] = Following(m, At(n - 1))
    BY <2>4, <2>5, VisitsDef
  <2>7. CASE n - 1 <= k
    <3>1. n - 1 \in 0 .. k /\ (n - 1) + 1 = n /\ (n <= k <=> n - 1 # k)
      BY <1>3, <2>4, <2>7
    <3>2. /\ q[n - 1] \in Allocated(m) /\ q[n - 1] # Null
          /\ m[q[n - 1]].next = Null <=> n - 1 = k
          /\ n - 1 # k => m[q[n - 1]].next = q[(n - 1) + 1]
      BY <1>2, <1>3, <3>1, ListFacts
    <3>3. Following(m, At(n - 1)) = m[q[n - 1]].next
      BY <2>7, <3>2 DEF Following, Allocated
    <3> QED  BY <2>2, <2>6, <3>1, <3>2, <3>3
  <2>8. CASE ~(n - 1 <= k)
    <3>1. At(n - 1) = Null /\ At(n) = Null
      BY <1>3, <2>4, <2>8
    <3> QED  BY <2>2, <2>6, <3>1 DEF Following
  <2> QED  BY <2>7, <2>8
<1>5. \A n \in 0 .. N : Visits(m)[n] = At(n)
  BY <1>4
<1>6. List(m) = {At(n) : n \in 0 .. N} \ {Null}
  <2> HIDE DEF At
  <2> QED  BY <1>5, VisitsDef
<1>7. \A n \in 0 .. k : n \in 0 .. N /\ n <= k /\ q[n] # Null
  <2>1. \A n \in 0 .. k : n \in 0 .. N /\ n <= k
    BY <1>1, <1>3
  <2>2. \A n \in 0 .. k : q[n] # Null
    BY <1>2, <1>3, ListFacts
  <2> QED  BY <2>1, <2>2
<1>8. \A n \in 0 .. N : n <= k => n \in 0 .. k
  BY <1>3
<1>9. Allocated(m) = {q[n] : n \in 0 .. k}
  BY <1>2 DEF IsList
<1> QED  BY <1>6, <1>7, <1>8, <1>9

(* What is the same on the list of one is the same everywhere. *)
LEMMA SameMemory ==
  ASSUME NEW a \in Memories, NEW b \in Memories, Listed(a), Listed(b),
         \A s \in Allocated(a) : b[s] = a[s]
  PROVE  b = a
<1>1. PICK k \in Nat : \E q : IsList(q, k, a)
  BY Lists
<1>2. PICK q : IsList(q, k, a)
  BY <1>1
<1>3. PICK n \in Nat : \E r : IsList(r, n, b)
  BY Lists
<1>4. PICK r : IsList(r, n, b)
  BY <1>3
<1> DEFINE Bad == {i \in 0 .. n : ~(i <= k /\ r[i] = q[i])}
<1>5. Bad = {}
  <2> SUFFICES ASSUME Bad # {} PROVE FALSE
    OBVIOUS
  <2>1. PICK i \in Bad : \A j \in Bad : i <= j
    <3>1. Bad \in SUBSET Nat
      OBVIOUS
    <3> HIDE DEF Bad
    <3> QED  BY <3>1, Least
  <2>2. i \in 0 .. n /\ ~(i <= k /\ r[i] = q[i])
    BY <2>1
  <2>3. i # 0
    <3>1. r[0] = q[0]
      BY <1>2, <1>4 DEF IsList
    <3> QED  BY <1>1, <2>2, <3>1
  <2>4. i - 1 \in 0 .. n /\ ~(i <= i - 1) /\ (i - 1) + 1 = i /\ i - 1 # n
    BY <1>3, <2>2, <2>3
  <2>5. i - 1 <= k /\ r[i - 1] = q[i - 1]
    BY <2>1, <2>4
  <2>6. i - 1 \in 0 .. k
    BY <1>1, <2>4, <2>5
  <2>7. /\ q[i - 1] \in Allocated(a) /\ (a[q[i - 1]].next = Null <=> i - 1 = k)
        /\ i - 1 # k => i \in 0 .. k /\ a[q[i - 1]].next = q[i]
    BY <1>2, <2>4, <2>6, ListFacts
  <2>8. b[r[i - 1]].next = r[i] /\ b[r[i - 1]].next # Null
    <3>1. /\ b[r[i - 1]].next = Null <=> i - 1 = n
          /\ i - 1 # n => b[r[i - 1]].next = r[(i - 1) + 1]
      BY <1>3, <1>4, <2>4, ListFacts
    <3> QED  BY <2>4, <3>1
  <2> QED  BY <2>2, <2>5, <2>7, <2>8
<1>6. Allocated(b) \subseteq Allocated(a)
  <2>1. Allocated(b) = {r[i] : i \in 0 .. n} /\ Allocated(a) = {q[i] : i \in 0 .. k}
    BY <1>2, <1>4 DEF IsList
  <2>2. \A i \in 0 .. n : i \in 0 .. k /\ r[i] = q[i]
    BY <1>1, <1>3, <1>5
  <2> QED  BY <2>1, <2>2
<1>7. \A s \in Addresses : b[s] = a[s]
  BY <1>6 DEF Allocated
<1> QED  BY <1>7 DEF Memories

(* The links are as before. *)
LEMMA ListKept ==
  ASSUME NEW m \in Memories, NEW n \in Memories, Listed(m), Allocated(n) = Allocated(m),
         \A s \in Allocated(m) : n[s].next = m[s].next
  PROVE  Listed(n)
<1>1. PICK k \in Nat : \E q : IsList(q, k, m)
  BY Lists
<1>2. PICK q : IsList(q, k, m)
  BY <1>1
<1>3. \A i \in 0 .. k : n[q[i]].next = m[q[i]].next
  BY <1>2, ListFacts
<1>4. IsList(q, k, n)
  BY <1>2, <1>3 DEF IsList
<1> QED  BY <1>4, ListIntro

(* The list of one segment. *)
LEMMA ListOne ==
  ASSUME NEW s \in Segments, s.next = Null
  PROVE  Only(s) \in Memories /\ Listed(Only(s)) /\ Allocated(Only(s)) = {First}
<1>1. Only(s) \in Memories /\ Allocated(Only(s)) = {First} /\ Only(s)[First] = s
  BY Sorts DEF Only, Memories, Allocated
<1> DEFINE q == [i \in 0 .. 0 |-> First]
<1>2. IsList(q, 0, Only(s))
  <2>1. q \in [0 .. 0 -> Addresses] /\ \A i \in 0 .. 0 : i = 0 /\ q[i] = First
    BY Sorts
  <2>2. {q[i] : i \in 0 .. 0} = {First}
    BY <2>1
  <2> HIDE DEF q
  <2> QED  BY <1>1, <2>1, <2>2 DEF IsList
<1> QED  BY <1>1, <1>2, ListIntro

(* A segment more at the end. *)
LEMMA ListLonger ==
  ASSUME NEW m \in Memories, NEW k \in Nat, NEW q, IsList(q, k, m), NEW n \in Memories,
         NEW x \in Addresses \ Allocated(m), Allocated(n) = Allocated(m) \cup {x},
         n[x].next = Null, n[q[k]].next = x,
         \A s \in Allocated(m) \ {q[k]} : n[s].next = m[s].next
  PROVE  Listed(n)
<1> DEFINE r == [i \in 0 .. k + 1 |-> IF i = k + 1 THEN x ELSE q[i]]
<1>1. /\ q \in [0 .. k -> Addresses] /\ q[0] = First /\ (\A i, j \in 0 .. k : q[i] = q[j] => i = j)
      /\ Allocated(m) = {q[i] : i \in 0 .. k}
      /\ \A i \in 0 .. k : m[q[i]].next = IF i = k THEN Null ELSE q[i + 1]
  BY DEF IsList
<1>2. /\ k + 1 \in 0 .. k + 1 /\ r[k + 1] = x /\ 0 \in 0 .. k
      /\ \A i \in 0 .. k : i \in 0 .. k + 1 /\ r[i] = q[i] /\ i # k + 1
      /\ \A i \in 0 .. k + 1 : i = k + 1 \/ i \in 0 .. k
  OBVIOUS
<1>3. r \in [0 .. k + 1 -> Addresses] /\ r[0] = First
  BY <1>1, <1>2
<1> HIDE DEF r
<1>4. \A i \in 0 .. k : r[i] # x
  BY <1>1, <1>2
<1>5. \A i, j \in 0 .. k + 1 : r[i] = r[j] => i = j
  BY <1>1, <1>2, <1>4
<1>6. Allocated(n) = {r[i] : i \in 0 .. k + 1}
  BY <1>1, <1>2
<1>7. ASSUME NEW i \in 0 .. k + 1
      PROVE  n[r[i]].next = IF i = k + 1 THEN Null ELSE r[i + 1]
  <2>1. CASE i = k + 1
    BY <1>2, <2>1
  <2>2. CASE i = k
    <3>1. i \in 0 .. k /\ i # k + 1
      BY <2>2
    <3> QED  BY <1>2, <2>2, <3>1
  <2>3. CASE i \in 0 .. k /\ i # k
    <3>1. i + 1 \in 0 .. k /\ k \in 0 .. k
      BY <2>3
    <3>2. q[i] # q[k] /\ q[i] \in Allocated(m)
      BY <1>1, <2>3, <3>1
    <3>3. n[q[i]].next = q[i + 1]
      BY <1>1, <2>3, <3>2
    <3> QED  BY <1>2, <2>3, <3>1, <3>3
  <2> QED  BY <1>2, <2>1, <2>2, <2>3
<1>8. IsList(r, k + 1, n)
  BY <1>3, <1>5, <1>6, <1>7 DEF IsList
<1> QED  BY <1>8, ListIntro

(* The last segment goes. *)
LEMMA ListShorter ==
  ASSUME NEW m \in Memories, NEW k \in Nat \ {0}, NEW q, IsList(q, k, m), NEW n \in Memories,
         Allocated(n) = Allocated(m) \ {q[k]}, n[q[k - 1]].next = Null,
         \A s \in Allocated(n) \ {q[k - 1]} : n[s].next = m[s].next
  PROVE  Listed(n)
<1> DEFINE r == [i \in 0 .. k - 1 |-> q[i]]
<1>1. /\ q \in [0 .. k -> Addresses] /\ q[0] = First /\ (\A i, j \in 0 .. k : q[i] = q[j] => i = j)
      /\ Allocated(m) = {q[i] : i \in 0 .. k}
      /\ \A i \in 0 .. k : m[q[i]].next = IF i = k THEN Null ELSE q[i + 1]
  BY DEF IsList
<1>2. /\ k \in 0 .. k /\ 0 \in 0 .. k - 1 /\ k - 1 \in 0 .. k - 1
      /\ \A i \in 0 .. k - 1 : i \in 0 .. k /\ i # k /\ r[i] = q[i]
      /\ \A i \in 0 .. k : i = k \/ i \in 0 .. k - 1
  OBVIOUS
<1>3. r \in [0 .. k - 1 -> Addresses] /\ r[0] = First
  BY <1>1, <1>2
<1> HIDE DEF r
<1>4. \A i, j \in 0 .. k - 1 : r[i] = r[j] => i = j
  BY <1>1, <1>2
<1>5. \A i \in 0 .. k - 1 : q[i] # q[k] /\ q[i] \in Allocated(n)
  BY <1>1, <1>2
<1>6. Allocated(n) = {r[i] : i \in 0 .. k - 1}
  BY <1>1, <1>2, <1>5
<1>7. ASSUME NEW i \in 0 .. k - 1
      PROVE  n[r[i]].next = IF i = k - 1 THEN Null ELSE r[i + 1]
  <2>1. CASE i = k - 1
    BY <1>2, <2>1
  <2>2. CASE i # k - 1
    <3>1. i + 1 \in 0 .. k - 1 /\ i \in 0 .. k /\ k - 1 \in 0 .. k
      BY <2>2
    <3>2. q[i] # q[k - 1]
      BY <1>1, <2>2, <3>1
    <3>3. n[q[i]].next = q[i + 1]
      BY <1>1, <1>2, <1>5, <3>2
    <3> QED  BY <1>2, <2>2, <3>1, <3>3
  <2> QED  BY <2>1, <2>2
<1>8. IsList(r, k - 1, n)
  BY <1>3, <1>4, <1>6, <1>7 DEF IsList
<1>9. k - 1 \in Nat
  OBVIOUS
<1> QED  BY <1>8, <1>9, ListIntro

-----------------------------------------------------------------------------
(* What the transactions do to the memory *)

(* What init leaves behind. *)
LEMMA OpenedSound ==
  /\ Created \in Memories /\ Listed(Created) /\ Created[First].count = 0
  /\ Opened \in Memories /\ Sound(Opened) /\ Listed(Opened)
  /\ Opened[First].count = NbAccounts /\ Opened[First].accounts[0] = InitBalance
<1> DEFINE o == Segment(NbAccounts, Null, 0, [i \in Places |-> InitBalance])
<1>1. /\ Fresh \in Segments /\ Fresh.next = Null /\ Fresh.count = 0
      /\ o \in Segments /\ o.next = Null /\ o.count = NbAccounts /\ o.parity = 0
      /\ o.accounts = [i \in Places |-> InitBalance]
  <2>1. [i \in Places |-> 0] \in [Places -> Int] /\ [i \in Places |-> InitBalance] \in [Places -> Int]
    BY Sorts
  <2> QED  BY <2>1, Sorts DEF Fresh, Segment, Segments
<1> HIDE DEF o
<1>2. /\ Created \in Memories /\ Listed(Created)
      /\ Opened \in Memories /\ Listed(Opened) /\ Allocated(Opened) = {First}
  BY <1>1, ListOne DEF Created, Opened, o
<1>3. Created[First] = Fresh /\ Opened[First] = o
  BY Sorts DEF Created, Opened, Only, o
<1>4. Balances(o) = InitBalance * NbAccounts
  <2>1. Open(NbAccounts) = Places
    BY Sorts DEF Open, Places
  <2>2. SumFunctionOnSet(o.accounts, Places) = InitBalance * NbAccounts
    BY <1>1, Sorts, SumConstant
  <2> QED  BY <1>1, <2>1, <2>2, BalancesSum
<1>5. /\ Money(Opened, {First}) = Money(Opened, {}) + Worth(o)
      /\ Number(Opened, {First}) = Number(Opened, {}) + o.count
  <2>1. {} \in SUBSET Allocated(Opened) /\ First \in Allocated(Opened) \ {} /\ {} \cup {First} = {First}
    BY <1>2
  <2> QED  BY <1>2, <1>3, <2>1, MoneyAdd
<1>6. Worth(o) = InitBalance * NbAccounts
  BY <1>1, <1>4, Sorts DEF Worth
<1>7. Money(Opened, {First}) = InitBalance * Number(Opened, {First})
  BY <1>1, <1>2, <1>5, <1>6, MoneyNone, Sorts
<1>8. ~Indebted(o)
  BY <1>1, Sorts DEF Indebted
<1>9. o.count \in 1 .. NbAccounts /\ o.accounts[0] = InitBalance
  BY <1>1, Sorts
<1> QED  BY <1>1, <1>2, <1>3, <1>7, <1>8, <1>9 DEF Sound, Shaped

(* One segment changes, and its link stays. *)
LEMMA ShapedOne ==
  ASSUME NEW m \in Memories, Shaped(m), NEW x \in Allocated(m), NEW n \in Memories, n[x] # Null,
         \A s \in Addresses \ {x} : n[s] = m[s],
         n[x].next = m[x].next, n[x].count \in 1 .. NbAccounts, ~Indebted(n[x]),
         n[x].next # Null => n[x].count = NbAccounts
  PROVE  Shaped(n) /\ Allocated(n) = Allocated(m)
<1>1. Allocated(n) = Allocated(m)
  BY DEF Allocated
<1>2. \A s \in Allocated(m) : s # x => n[s] = m[s]
  BY DEF Allocated
<1>3. Listed(n)
  BY <1>1, <1>2, ListKept DEF Shaped
<1> QED  BY <1>1, <1>2, <1>3 DEF Shaped

LEMMA SoundOne ==
  ASSUME NEW m \in Memories, Sound(m), NEW x \in Allocated(m), NEW n \in Memories, n[x] # Null,
         \A s \in Addresses \ {x} : n[s] = m[s],
         n[x].next = m[x].next, n[x].count \in 1 .. NbAccounts, ~Indebted(n[x]),
         n[x].next # Null => n[x].count = NbAccounts,
         NEW d \in Int, n[x].count = m[x].count + d, Worth(n[x]) = Worth(m[x]) + InitBalance * d
  PROVE  Sound(n) /\ Allocated(n) = Allocated(m)
<1>1. Shaped(n) /\ Allocated(n) = Allocated(m)
  BY ShapedOne DEF Sound
<1> DEFINE mm == Money(m, Allocated(m))
           nm == Number(m, Allocated(m))
           mn == Money(n, Allocated(n))
           nn == Number(n, Allocated(n))
<1>2. mn = mm + Worth(n[x]) - Worth(m[x]) /\ nn = nm + n[x].count - m[x].count
  BY MoneyChange
<1>3. mm \in Int /\ nm \in Int /\ Worth(m[x]) \in Int /\ m[x].count \in Int /\ mm = InitBalance * nm
  <2>1. Worth(m[x]) \in Int /\ m[x].count \in Nat
    BY Contents
  <2>2. mm \in Int /\ nm \in Nat
    BY MoneySum
  <2> QED  BY <2>1, <2>2 DEF Sound
<1> HIDE DEF mm, nm, mn, nn
<1>4. InitBalance * d \in Int /\ InitBalance * nm \in Int
  BY <1>3, Sorts
<1>5. mn = InitBalance * nm + InitBalance * d /\ nn = nm + d
  BY <1>2, <1>3, <1>4
<1>6. InitBalance * nm + InitBalance * d = InitBalance * (nm + d)
  BY <1>3, Sorts
<1>7. mn = InitBalance * nn
  BY <1>5, <1>6
<1> QED  BY <1>1, <1>7 DEF Sound, mn, nn

(* RemoveAccount leaves a sound memory. *)
LEMMA SoundRemoved ==
  ASSUME NEW m \in Memories, Sound(m), NEW x \in Allocated(m), m[x].next = Null, m[x].count > 1
  PROVE  LET n == [m EXCEPT ![x].count = @ - 1, ![x].parity = NewParity(m[x])]
         IN n \in Memories /\ Sound(n)
<1> DEFINE n == [m EXCEPT ![x].count = @ - 1, ![x].parity = NewParity(m[x])]
           s == m[x]
           r == [s EXCEPT !.count = s.count - 1, !.parity = NewParity(s)]
<1>1. /\ s \in Segments /\ x \in Addresses /\ s.count \in 1 .. NbAccounts /\ ~Indebted(s)
      /\ s.count > 1 /\ s.next = Null
  BY Contents DEF Sound, Shaped
<1>2. s.count - 1 \in Places /\ s.accounts[s.count - 1] \in Int /\ s.parity \in Int
  <2>1. s.count - 1 \in Places
    BY <1>1, Sorts DEF Places
  <2> QED  BY <1>1, <2>1 DEF Segments
<1>3. NewParity(s) = s.parity + s.accounts[s.count - 1] - InitBalance /\ NewParity(s) \in Int
  BY <1>2, Sorts DEF NewParity
<1>4. n[x] = r /\ (\A a \in Addresses \ {x} : n[a] = m[a]) /\ DOMAIN n = Addresses
  BY <1>1 DEF Memories
<1>5. /\ r \in Segments /\ r.count = s.count - 1 /\ r.next = s.next /\ r.parity = NewParity(s)
      /\ r.accounts = s.accounts
  <2>1. s.count - 1 \in Nat
    BY <1>1, Sorts
  <2> DEFINE c == s.count - 1
             p == NewParity(s)
  <2>2. r = [s EXCEPT !.count = c, !.parity = p] /\ c \in Nat /\ p \in Int /\ s \in Segments
    BY <1>1, <1>3, <2>1
  <2> HIDE DEF r, s, c, p
  <2>3. r \in Segments /\ r.count = c /\ r.parity = p /\ r.next = s.next /\ r.accounts = s.accounts
    BY <2>2 DEF Segments
  <2> QED  BY <2>3 DEF c, p
<1> HIDE DEF r, s, n
<1>6. n \in Memories
  <2>1. \A a \in Addresses : n[a] \in {Null} \cup Segments
    BY <1>4, <1>5 DEF Memories
  <2>2. n = [a \in Addresses |-> n[a]]
    BY <1>4 DEF n, Memories
  <2> QED  BY <2>1, <2>2 DEF Memories
<1>7. Balances(s) = Balances(r) + s.accounts[s.count - 1]
  BY <1>1, <1>5, BalancesLast
<1>8. Worth(r) = Worth(s) + InitBalance * (-1)
  BY <1>1, <1>2, <1>3, <1>5, <1>7, BalancesSum, Sorts DEF Worth
<1>9. ~Indebted(r)
  BY <1>1, <1>5, Sorts, SMTT(30) DEF Indebted, Places, Segments
<1>10. r.count \in 1 .. NbAccounts /\ r # Null /\ r.count = s.count + (-1)
  BY <1>1, <1>5, Sorts
<1>11. Sound(n)
  BY <1>1, <1>4, <1>5, <1>6, <1>8, <1>9, <1>10, SoundOne DEF s
<1> QED  BY <1>6, <1>11 DEF n

(* AddAccount, on a last segment that has room. *)
LEMMA SoundAdded ==
  ASSUME NEW m \in Memories, Sound(m), NEW x \in Allocated(m), m[x].next = Null, m[x].count < NbAccounts
  PROVE  LET n == [m EXCEPT ![x].count = m[x].count + 1, ![x].accounts[m[x].count] = InitBalance]
         IN n \in Memories /\ Sound(n)
<1> DEFINE s == m[x]
           i == m[x].count
           n == [m EXCEPT ![x].count = i + 1, ![x].accounts[i] = InitBalance]
           r == [s EXCEPT !.count = i + 1, !.accounts[i] = InitBalance]
<1>1. /\ s \in Segments /\ x \in Addresses /\ s.count \in 1 .. NbAccounts /\ ~Indebted(s)
      /\ s.count < NbAccounts /\ s.next = Null /\ i = s.count
  BY Contents DEF Sound, Shaped
<1>2. i \in Places /\ s.parity \in Int /\ s.accounts \in [Places -> Int]
  <2>1. i \in Places
    BY <1>1, Sorts DEF Places
  <2> QED  BY <1>1, <2>1 DEF Segments
<1>4. n[x] = r /\ (\A a \in Addresses \ {x} : n[a] = m[a]) /\ DOMAIN n = Addresses
  BY <1>1 DEF Memories
<1> HIDE DEF s, i
<1>5. /\ r \in Segments /\ r.count = i + 1 /\ r.next = s.next /\ r.parity = s.parity
      /\ r.accounts = [s.accounts EXCEPT ![i] = InitBalance]
  <2>1. i + 1 \in Nat /\ InitBalance \in Int
    BY <1>1, Sorts
  <2> DEFINE c == i + 1
  <2>2. r = [s EXCEPT !.count = c, !.accounts[i] = InitBalance] /\ c \in Nat
    BY <2>1
  <2> HIDE DEF r, c
  <2>3. /\ r \in Segments /\ r.count = c /\ r.parity = s.parity /\ r.next = s.next
        /\ r.accounts = [s.accounts EXCEPT ![i] = InitBalance]
    BY <1>1, <1>2, <2>1, <2>2 DEF Segments
  <2> QED  BY <2>3 DEF c
<1> HIDE DEF r, n
<1>6. n \in Memories
  <2>1. \A a \in Addresses : n[a] \in {Null} \cup Segments
    BY <1>4, <1>5 DEF Memories
  <2>2. n = [a \in Addresses |-> n[a]]
    BY <1>4, ZenonT(40) DEF n, Memories
  <2> QED  BY <2>1, <2>2 DEF Memories
<1>7. r.accounts[i] = InitBalance /\ \A j \in Places : j # i => r.accounts[j] = s.accounts[j]
  BY <1>2, <1>5
<1>8. r.count \in 1 .. NbAccounts /\ r # Null /\ r.count = s.count + 1 /\ s.count = r.count - 1 /\ i = r.count - 1
  BY <1>1, <1>5, Sorts
<1>9. Balances(r) = Balances(s) + r.accounts[r.count - 1]
  <2>1. \A j \in Open(s.count) : s.accounts[j] = r.accounts[j]
    BY <1>1, <1>2, <1>7 DEF Open, Places
  <2> QED  BY <1>1, <1>5, <1>8, <2>1, BalancesLast
<1>10. Worth(r) = Worth(s) + InitBalance * 1
  <2>1. Balances(s) \in Int
    BY <1>1, BalancesSum
  <2>2. r.accounts[r.count - 1] = InitBalance
    BY <1>7, <1>8
  <2>3. Balances(r) = Balances(s) + InitBalance
    BY <1>9, <2>2
  <2> QED  BY <1>2, <1>5, <2>1, <2>3, Sorts DEF Worth
<1>11. ~Indebted(r)
  BY <1>1, <1>2, <1>5, <1>7, <1>8, Sorts, SMTT(30) DEF Indebted, Places
<1>12. Sound(n)
  <2>1. /\ n[x] # Null /\ n[x].next = m[x].next /\ n[x].count \in 1 .. NbAccounts /\ ~Indebted(n[x])
        /\ n[x].next = Null /\ n[x].count = m[x].count + 1 /\ Worth(n[x]) = Worth(m[x]) + InitBalance * 1
    BY <1>1, <1>4, <1>5, <1>8, <1>10, <1>11 DEF s
  <2>2. 1 \in Int
    OBVIOUS
  <2> QED  BY <1>4, <1>6, <2>1, <2>2, SoundOne
<1> QED  BY <1>6, <1>12 DEF n, i

(* The same accounts are worth the same. *)
LEMMA BalancesSame ==
  ASSUME NEW s \in Segments, NEW r \in Segments, r.count = s.count, r.accounts = s.accounts
  PROVE  Balances(r) = Balances(s)
  BY BalancesSum

(* One account that is all there is. *)
LEMMA BalancesFirst ==
  ASSUME NEW s \in Segments, s.count = 1
  PROVE  Balances(s) = s.accounts[0]
<1> DEFINE r == [s EXCEPT !.count = 0]
<1>1. r \in Segments /\ r.count = 0 /\ r.accounts = s.accounts
  BY DEF Segments
<1> HIDE DEF r
<1>2. s.count \in 1 .. NbAccounts /\ s.count - 1 = 0
  BY Sorts
<1>3. Balances(s) = Balances(r) + s.accounts[s.count - 1]
  BY <1>1, <1>2, BalancesLast
<1>4. s.accounts[0] \in Int
  BY Sorts DEF Segments
<1> QED  BY <1>1, <1>2, <1>3, <1>4, BalancesNone

(* RemoveSegment: the only account of the last segment goes, and the one *)
(* before takes its parity.                                                *)
LEMMA SoundShrunk ==
  ASSUME NEW m \in Memories, Sound(m), NEW k \in Nat \ {0}, NEW q, IsList(q, k, m),
         NEW x, x = q[k], NEW p, p = q[k - 1], m[x].count = 1
  PROVE  LET n == [m EXCEPT ![x] = Null, ![p].next = Null, ![p].parity = @ + NewParity(m[x])]
         IN n \in Memories /\ Sound(n)
<1> DEFINE n == [m EXCEPT ![x] = Null, ![p].next = Null, ![p].parity = @ + NewParity(m[x])]
           s == m[x]
           t == m[p]
           d == t.parity + NewParity(s)
           r == [t EXCEPT !.next = Null, !.parity = d]
<1>1. k \in 0 .. k /\ k - 1 \in 0 .. k /\ k - 1 # k
  OBVIOUS
<1>2. x \in Allocated(m) /\ p \in Allocated(m) /\ x # p
  BY <1>1, ListFacts DEF IsList
<1>3. s.next = Null /\ t.next # Null
  BY <1>1, ListFacts
<1>4. /\ s \in Segments /\ t \in Segments /\ x \in Addresses /\ p \in Addresses
      /\ s.count = 1 /\ t.count = NbAccounts /\ ~Indebted(t) /\ NbAccounts \in 1 .. NbAccounts
  BY <1>2, <1>3, Contents, Sorts DEF Sound, Shaped
<1>5. n[x] = Null /\ n[p] = r /\ (\A a \in Addresses \ {x, p} : n[a] = m[a]) /\ DOMAIN n = Addresses
  BY <1>2, <1>4 DEF Memories
<1>6. /\ s.parity \in Int /\ t.parity \in Int /\ s.accounts[0] \in Int
      /\ Balances(s) = s.accounts[0] /\ Balances(t) \in Int
  BY <1>4, BalancesSum, BalancesFirst, Sorts DEF Segments
<1> HIDE DEF n, s, t
<1>7. NewParity(s) = Worth(s) - InitBalance /\ Worth(s) \in Int /\ NewParity(s) \in Int /\ Worth(t) \in Int
  <2>1. NewParity(s) = s.parity + s.accounts[0] - InitBalance
    BY <1>4 DEF NewParity
  <2> QED  BY <1>6, <2>1, Sorts DEF Worth
<1>8. d \in Int /\ d = t.parity + (Worth(s) - InitBalance)
  BY <1>6, <1>7
<1> HIDE DEF d
<1>9. /\ r \in Segments /\ r.count = t.count /\ r.next = Null /\ r.parity = d /\ r.accounts = t.accounts
  BY <1>4, <1>8 DEF Segments
<1> HIDE DEF r
<1>10. n \in Memories
  <2>1. \A a \in Addresses : n[a] \in {Null} \cup Segments
    BY <1>5, <1>9 DEF Memories
  <2>2. n = [a \in Addresses |-> n[a]]
    BY <1>5 DEF n, Memories
  <2> QED  BY <2>1, <2>2 DEF Memories
<1>11. Allocated(n) = Allocated(m) \ {x}
  BY <1>2, <1>4, <1>5, <1>9, Sorts DEF Allocated
<1>12. \A a \in Allocated(n) \ {p} : n[a] = m[a] /\ a \in Allocated(m)
  BY <1>5, <1>11 DEF Allocated
<1>13. Shaped(n)
  <2>1. Listed(n)
    BY <1>5, <1>9, <1>10, <1>11, <1>12, ListShorter
  <2>2. ~Indebted(r)
    BY <1>4, <1>9 DEF Indebted
  <2> QED  BY <1>4, <1>5, <1>9, <1>12, <2>1, <2>2 DEF Sound, Shaped
<1> DEFINE A == Allocated(m)
           S == A \ {x, p}
           mm == Money(m, A)
           nm == Number(m, A)
           ms == Money(m, S)
           ns == Number(m, S)
<1>14. /\ S \in SUBSET A /\ A \ {x} \in SUBSET A /\ S \cup {p} = A \ {x} /\ (A \ {x}) \cup {x} = A
       /\ p \in A \ S /\ x \in A \ (A \ {x})
  BY <1>2
<1>15. /\ mm = Money(m, A \ {x}) + Worth(s) /\ nm = Number(m, A \ {x}) + s.count
       /\ Money(m, A \ {x}) = ms + Worth(t) /\ Number(m, A \ {x}) = ns + t.count
  <2>1. mm = Money(m, A \ {x}) + Worth(s) /\ nm = Number(m, A \ {x}) + s.count
    <3> HIDE DEF S
    <3> QED  BY <1>14, MoneyAdd, SMTT(30) DEF s
  <2>2. Money(m, A \ {x}) = ms + Worth(t) /\ Number(m, A \ {x}) = ns + t.count
    <3> HIDE DEF S
    <3> QED  BY <1>14, MoneyAdd DEF t
  <2> QED  BY <2>1, <2>2
<1>16. /\ Money(n, Allocated(n)) = ms + Worth(r) /\ Number(n, Allocated(n)) = ns + r.count
  <2>1. S \in SUBSET Allocated(n) /\ p \in Allocated(n) \ S /\ S \cup {p} = Allocated(n)
    BY <1>2, <1>11, <1>14
  <2>2. \A a \in S : n[a] = m[a]
    BY <1>12, <2>1
  <2> HIDE DEF S
  <2>3. Money(n, S) = ms /\ Number(n, S) = ns
    BY <1>10, <1>14, <2>2, MoneySame
  <2>4. /\ Money(n, Allocated(n)) = Money(n, S) + Worth(n[p])
        /\ Number(n, Allocated(n)) = Number(n, S) + n[p].count
    <3>1. /\ Money(n, S \cup {p}) = Money(n, S) + Worth(n[p])
          /\ Number(n, S \cup {p}) = Number(n, S) + n[p].count
      BY <1>10, <2>1, MoneyAdd
    <3> QED  BY <2>1, <3>1
  <2> QED  BY <1>5, <2>3, <2>4
<1>17. mm = InitBalance * nm /\ ms \in Int /\ ns \in Int /\ nm \in Int /\ mm \in Int
  <2>1. mm = InitBalance * nm
    BY DEF Sound
  <2>2. mm \in Int /\ nm \in Nat
    BY MoneySum
  <2>3. ms \in Int /\ ns \in Nat
    <3> HIDE DEF S
    <3> QED  BY <1>14, MoneySum
  <2> QED  BY <2>1, <2>2, <2>3
<1>18. Worth(r) = Worth(t) + Worth(s) - InitBalance
  <2>1. Balances(r) = Balances(t)
    BY <1>4, <1>9, BalancesSame
  <2> QED  BY <1>6, <1>7, <1>8, <1>9, <2>1, Sorts DEF Worth
<1> HIDE DEF mm, nm, ms, ns
<1>19. Money(n, Allocated(n)) = mm - InitBalance /\ Number(n, Allocated(n)) = nm - 1
  BY <1>4, <1>7, <1>9, <1>15, <1>16, <1>17, <1>18, Sorts
<1>20. InitBalance * nm - InitBalance = InitBalance * (nm - 1)
  BY <1>17, Sorts
<1>21. Sound(n)
  BY <1>13, <1>17, <1>19, <1>20 DEF Sound
<1> QED  BY <1>10, <1>21 DEF n

(* AddSegment: a segment with one account behind a full last one. *)
LEMMA SoundGrown ==
  ASSUME NEW m \in Memories, Sound(m), NEW k \in Nat, NEW q, IsList(q, k, m),
         NEW x, x = q[k], NEW new \in Segs, m[new] = Null, m[x].count = NbAccounts
  PROVE  LET n == [m EXCEPT ![x].next = new,
                            ![new] = [Fresh EXCEPT !.count = 1, !.accounts[0] = InitBalance]]
         IN n \in Memories /\ Sound(n)
<1> DEFINE n == [m EXCEPT ![x].next = new,
                          ![new] = [Fresh EXCEPT !.count = 1, !.accounts[0] = InitBalance]]
           t == m[x]
           r == [t EXCEPT !.next = new]
           f == [Fresh EXCEPT !.count = 1, !.accounts[0] = InitBalance]
<1>1. k \in 0 .. k
  OBVIOUS
<1>2. x \in Allocated(m) /\ new \notin Allocated(m) /\ new \in Addresses /\ x # new
  BY <1>1, ListFacts, Sorts DEF Allocated
<1>3. t \in Segments /\ x \in Addresses /\ t.count = NbAccounts /\ ~Indebted(t) /\ NbAccounts \in 1 .. NbAccounts
  BY <1>2, Contents, Sorts DEF Sound, Shaped
<1>4. n[x] = r /\ n[new] = f /\ (\A a \in Addresses \ {x, new} : n[a] = m[a]) /\ DOMAIN n = Addresses
  BY <1>2, <1>3 DEF Memories
<1>5. /\ f \in Segments /\ f.count = 1 /\ f.next = Null /\ f.parity = 0 /\ f.accounts[0] = InitBalance
      /\ \A i \in Places : f.accounts[i] = IF i = 0 THEN InitBalance ELSE 0
  <2>1. [i \in Places |-> 0] \in [Places -> Int] /\ 0 \in Places /\ InitBalance \in Int
    BY Sorts
  <2>2. /\ f.count = 1 /\ f.next = Null /\ f.parity = 0
        /\ f.accounts = [[i \in Places |-> 0] EXCEPT ![0] = InitBalance]
    BY DEF Fresh, Segment
  <2>3. f \in Segments
    BY <2>1 DEF Fresh, Segment, Segments
  <2> QED  BY <2>1, <2>2, <2>3
<1>6. r \in Segments /\ r.count = t.count /\ r.next = new /\ r.parity = t.parity /\ r.accounts = t.accounts
  <2> HIDE DEF t
  <2> QED  BY <1>3 DEF Segments
<1> HIDE DEF n, t, r, f
<1>7. n \in Memories
  <2>1. \A a \in Addresses : n[a] \in {Null} \cup Segments
    BY <1>4, <1>5, <1>6 DEF Memories
  <2>2. n = [a \in Addresses |-> n[a]]
    <3> DEFINE mx == [m EXCEPT ![x].next = new]
    <3>1. n = [mx EXCEPT ![new] = f]
      BY DEF n, f
    <3> HIDE DEF mx, f
    <3> QED  BY <1>4, <3>1
  <2> QED  BY <2>1, <2>2 DEF Memories
<1>8. Allocated(n) = Allocated(m) \cup {new} /\ \A a \in Allocated(m) \ {x} : n[a] = m[a]
  BY <1>2, <1>3, <1>4, <1>5, <1>6, Sorts DEF Allocated
<1>9. Shaped(n)
  <2>1. Listed(n)
    <3>1. n[new].next = Null /\ n[q[k]].next = new /\ \A a \in Allocated(m) \ {q[k]} : n[a].next = m[a].next
      BY <1>4, <1>5, <1>6, <1>8
    <3>2. new \in Addresses \ Allocated(m)
      BY <1>2
    <3> QED  BY <1>7, <1>8, <3>1, <3>2, ListLonger
  <2>2. ~Indebted(r)
    BY <1>3, <1>6 DEF Indebted
  <2>3. ~Indebted(f)
    BY <1>5, Sorts DEF Indebted
  <2>4. 1 \in 1 .. NbAccounts
    BY Sorts
  <2> QED  BY <1>3, <1>4, <1>5, <1>6, <1>8, <2>1, <2>2, <2>3, <2>4 DEF Sound, Shaped
<1> DEFINE A == Allocated(m)
           S == A \ {x}
           mm == Money(m, A)
           nm == Number(m, A)
           ms == Money(m, S)
           ns == Number(m, S)
<1>10. mm = ms + Worth(t) /\ nm = ns + t.count
  <2>1. S \in SUBSET A /\ x \in A \ S /\ S \cup {x} = A
    BY <1>2
  <2> HIDE DEF S
  <2> QED  BY <2>1, MoneyAdd DEF t
<1>11. /\ Money(n, A) = ms + Worth(r) /\ Number(n, A) = ns + r.count
  <2>1. S \in SUBSET A /\ S \in SUBSET Allocated(n) /\ x \in Allocated(n) \ S /\ S \cup {x} = A
    BY <1>2, <1>8
  <2>2. \A a \in S : n[a] = m[a]
    BY <1>8
  <2> HIDE DEF S
  <2>3. Money(n, S) = ms /\ Number(n, S) = ns
    BY <1>7, <2>1, <2>2, MoneySame
  <2> QED  BY <1>4, <1>7, <2>1, <2>3, MoneyAdd
<1>12. /\ Money(n, Allocated(n)) = Money(n, A) + Worth(f)
       /\ Number(n, Allocated(n)) = Number(n, A) + f.count
  <2>1. A \in SUBSET Allocated(n) /\ new \in Allocated(n) \ A /\ Allocated(n) = A \cup {new}
    BY <1>2, <1>8
  <2> QED  BY <1>4, <1>7, <2>1, MoneyAdd
<1>13. mm = InitBalance * nm /\ ms \in Int /\ ns \in Int /\ nm \in Int /\ mm \in Int /\ Worth(t) \in Int
  <2>1. mm = InitBalance * nm
    BY DEF Sound
  <2>2. mm \in Int /\ nm \in Nat
    BY MoneySum
  <2>3. S \in SUBSET A
    OBVIOUS
  <2>4. ms \in Int /\ ns \in Nat
    <3> HIDE DEF S
    <3> QED  BY <2>3, MoneySum
  <2>5. Worth(t) \in Int
    BY <1>2, Contents DEF t
  <2> QED  BY <2>1, <2>2, <2>4, <2>5
<1>14. Worth(r) = Worth(t) /\ Worth(f) = InitBalance
  <2>1. Balances(r) = Balances(t) /\ Balances(f) = InitBalance
    BY <1>3, <1>5, <1>6, BalancesSame, BalancesFirst
  <2> QED  BY <1>5, <1>6, <2>1, Sorts DEF Worth
<1> HIDE DEF mm, nm, ms, ns
<1>15. Money(n, Allocated(n)) = mm + InitBalance /\ Number(n, Allocated(n)) = nm + 1
  BY <1>3, <1>5, <1>6, <1>10, <1>11, <1>12, <1>13, <1>14, Sorts
<1>16. InitBalance * nm + InitBalance = InitBalance * (nm + 1)
  BY <1>13, Sorts
<1>17. Sound(n)
  BY <1>9, <1>13, <1>15, <1>16 DEF Sound
<1> QED  BY <1>7, <1>17 DEF n, f

(* One account changes. *)
LEMMA PaidOne ==
  ASSUME NEW m \in Memories, NEW p, IsPlace(m, p), NEW a \in Int
  PROVE  LET n == Paid(m, p, a) IN
         /\ n \in Memories /\ n[p[1]] # Null /\ Allocated(n) = Allocated(m)
         /\ \A s \in Addresses \ {p[1]} : n[s] = m[s]
         /\ n[p[1]].count = m[p[1]].count /\ n[p[1]].next = m[p[1]].next
         /\ n[p[1]].parity = m[p[1]].parity
         /\ n[p[1]].accounts[p[2]] = Balance(m, p) + a /\ Balance(m, p) \in Int
         /\ \A j \in Places \ {p[2]} : n[p[1]].accounts[j] = m[p[1]].accounts[j]
         /\ Worth(n[p[1]]) = Worth(m[p[1]]) + a
<1> DEFINE n == Paid(m, p, a)
           x == p[1]
           i == p[2]
           s == m[x]
           b == s.accounts[i] + a
           r == [s EXCEPT !.accounts[i] = b]
<1>1. x \in Allocated(m) /\ i \in Places /\ i < s.count
  BY DEF IsPlace
<1>2. s \in Segments /\ x \in Addresses /\ Worth(s) \in Int
  BY <1>1, Contents
<1>3. n[x] = r /\ (\A y \in Addresses \ {x} : n[y] = m[y]) /\ n = [y \in Addresses |-> n[y]]
  BY <1>2 DEF Memories, Paid
<1>4. s.accounts[i] \in Int /\ b \in Int /\ Balance(m, p) = s.accounts[i]
  <2>1. s.accounts[i] \in Int
    <3> HIDE DEF s, x, i
    <3> QED  BY <1>1, <1>2 DEF Segments
  <2> QED  BY <2>1 DEF Balance
<1> HIDE DEF n, s, b, x, i
<1>5. /\ r \in Segments /\ r.count = s.count /\ r.next = s.next /\ r.parity = s.parity
      /\ r.accounts = [s.accounts EXCEPT ![i] = b]
  BY <1>1, <1>2, <1>4 DEF Segments
<1> HIDE DEF r
<1>6. r.accounts[i] = b /\ \A j \in Places \ {i} : r.accounts[j] = s.accounts[j]
  BY <1>1, <1>2, <1>5 DEF Segments
<1>7. n \in Memories
  <2>1. \A y \in Addresses : n[y] \in {Null} \cup Segments
    BY <1>3, <1>5 DEF Memories
  <2> QED  BY <1>3, <2>1 DEF Memories
<1>8. n[x] # Null /\ Allocated(n) = Allocated(m)
  BY <1>1, <1>3, <1>5, Sorts DEF Allocated, s
<1>9. Worth(r) = Worth(s) + a
  <2>1. Balances(r) = Balances(s) + r.accounts[i] - s.accounts[i]
    BY <1>1, <1>2, <1>5, <1>6, BalancesChange
  <2>2. Balances(s) \in Int /\ s.parity \in Int
    BY <1>2, BalancesSum DEF Segments
  <2> QED  BY <1>4, <1>5, <1>6, <2>1, <2>2 DEF Worth, b
<1> QED  BY <1>2, <1>3, <1>4, <1>5, <1>6, <1>7, <1>8, <1>9 DEF n, s, b, x, i

LEMMA ShapedPaid ==
  ASSUME NEW m \in Memories, Shaped(m), NEW p, IsPlace(m, p), NEW a \in Int, Balance(m, p) + a >= 0
  PROVE  LET n == Paid(m, p, a) IN
         /\ n \in Memories /\ Shaped(n)
         /\ Money(n, Allocated(n)) = Money(m, Allocated(m)) + a
         /\ Number(n, Allocated(n)) = Number(m, Allocated(m))
         /\ \A q : IsPlace(m, q) => IsPlace(n, q) /\ Balance(n, q) >= 0
<1> DEFINE n == Paid(m, p, a)
           x == p[1]
<1>1. /\ n \in Memories /\ n[x] # Null /\ Allocated(n) = Allocated(m)
      /\ n[x].count = m[x].count /\ n[x].next = m[x].next
      /\ n[x].accounts[p[2]] = Balance(m, p) + a /\ Balance(m, p) \in Int
      /\ \A s \in Addresses \ {x} : n[s] = m[s]
      /\ \A j \in Places \ {p[2]} : n[x].accounts[j] = m[x].accounts[j]
      /\ Worth(n[x]) = Worth(m[x]) + a
  BY PaidOne
<1> HIDE DEF n
<1>2. x \in Allocated(m) /\ p[2] \in Places /\ p[2] < m[x].count
  BY DEF IsPlace
<1>3. /\ ~Indebted(m[x]) /\ m[x].count \in 1 .. NbAccounts
      /\ m[x].next # Null => m[x].count = NbAccounts
  BY <1>2 DEF Shaped
<1>4. ~Indebted(n[x])
  <2>1. ~(n[x].accounts[p[2]] < 0)
    BY <1>1
  <2> QED  BY <1>1, <1>3, <2>1 DEF Indebted
<1>5. Shaped(n)
  BY <1>1, <1>2, <1>3, <1>4, ShapedOne
<1> DEFINE mm == Money(m, Allocated(m))
           nm == Number(m, Allocated(m))
<1>6. /\ Money(n, Allocated(n)) = mm + Worth(n[x]) - Worth(m[x])
      /\ Number(n, Allocated(n)) = nm + n[x].count - m[x].count
  BY <1>1, <1>2, MoneyChange
<1>7. mm \in Int /\ nm \in Int /\ Worth(m[x]) \in Int /\ m[x].count \in Int
  <2>1. mm \in Int /\ nm \in Nat
    BY MoneySum
  <2>2. Worth(m[x]) \in Int /\ m[x].count \in Nat
    BY <1>2, Contents
  <2> QED  BY <2>1, <2>2
<1> HIDE DEF mm, nm
<1>8. Money(n, Allocated(n)) = mm + a /\ Number(n, Allocated(n)) = nm
  BY <1>1, <1>6, <1>7
<1>9. ASSUME NEW q, IsPlace(m, q)
      PROVE  IsPlace(n, q) /\ Balance(n, q) >= 0
  <2>1. IsPlace(n, q)
    BY <1>1, <1>9 DEF IsPlace, Allocated
  <2>2. Balance(n, q) = n[q[1]].accounts[q[2]] /\ n[q[1]] \in Segments
    BY <1>1, <2>1, Contents DEF Balance, IsPlace
  <2>3. n[q[1]].accounts[q[2]] \in Int /\ ~(n[q[1]].accounts[q[2]] < 0)
    <3>1. ~Indebted(n[q[1]])
      BY <1>5, <2>1 DEF Shaped, IsPlace
    <3> QED  BY <2>1, <2>2, <3>1 DEF Indebted, IsPlace, Segments
  <2> QED  BY <2>1, <2>2, <2>3
<1> QED  BY <1>1, <1>5, <1>8, <1>9 DEF n, mm, nm

(* Transfer moves a unit, and nobody gets into debt. *)
LEMMA SoundPaid ==
  ASSUME NEW m \in Memories, Sound(m), NEW send, NEW recv, IsPlace(m, send), IsPlace(m, recv),
         Balance(m, send) > 0
  PROVE  LET n == Paid(Paid(m, send, -1), recv, 1) IN n \in Memories /\ Sound(n)
<1>1. PICK v : v = Paid(m, send, -1)
  OBVIOUS
<1>2. /\ v \in Memories /\ Shaped(v) /\ IsPlace(v, recv) /\ Balance(v, recv) >= 0
      /\ Money(v, Allocated(v)) = Money(m, Allocated(m)) + (-1)
      /\ Number(v, Allocated(v)) = Number(m, Allocated(m))
  <2>1. -1 \in Int /\ Balance(m, send) + (-1) >= 0 /\ Shaped(m)
    <3>1. Balance(m, send) \in Int
      <4>1. 0 \in Int
        OBVIOUS
      <4> QED  BY <4>1, PaidOne
    <3> QED  BY <3>1 DEF Sound
  <2> QED  BY <1>1, <2>1, ShapedPaid
<1>3. PICK n : n = Paid(v, recv, 1)
  OBVIOUS
<1>4. /\ n \in Memories /\ Shaped(n)
      /\ Money(n, Allocated(n)) = Money(v, Allocated(v)) + 1
      /\ Number(n, Allocated(n)) = Number(v, Allocated(v))
  <2>1. 1 \in Int /\ Balance(v, recv) + 1 >= 0
    <3>1. Balance(v, recv) \in Int
      <4>1. v[recv[1]] \in Segments /\ recv[2] \in Places
        BY <1>2, Contents DEF IsPlace
      <4> QED  BY <4>1 DEF Balance, Segments
    <3> QED  BY <1>2, <3>1
  <2> QED  BY <1>2, <1>3, <2>1, ShapedPaid
<1>5. Money(m, Allocated(m)) \in Int
  BY MoneySum
<1>6. Money(n, Allocated(n)) = Money(m, Allocated(m)) /\ Number(n, Allocated(n)) = Number(m, Allocated(m))
  BY <1>2, <1>4, <1>5
<1> QED  BY <1>1, <1>3, <1>4, <1>6 DEF Sound

-----------------------------------------------------------------------------
(* What a commit makes of the memory *)

Merge(m, U, v) == [s \in Addresses |-> IF s \in U THEN v[s] ELSE m[s]]

LEMMA MergeType ==
  ASSUME NEW m \in Memories, NEW v \in Memories, NEW U
  PROVE  Merge(m, U, v) \in Memories
  BY DEF Merge, Memories

LEMMA PaidAlike ==
  ASSUME NEW m, NEW n, DOMAIN m = Addresses, DOMAIN n = Addresses,
         NEW p, p[1] \in Addresses, n[p[1]] = m[p[1]], NEW a
  PROVE  /\ DOMAIN Paid(m, p, a) = Addresses /\ DOMAIN Paid(n, p, a) = Addresses
         /\ \A s \in Addresses : n[s] = m[s] => Paid(n, p, a)[s] = Paid(m, p, a)[s]
         /\ \A s \in Addresses \ {p[1]} : Paid(m, p, a)[s] = m[s] /\ Paid(n, p, a)[s] = n[s]
  BY DEF Paid

(* Of what was used, nothing has changed: a transfer is one in the present. *)
LEMMA TransferMerged ==
  ASSUME NEW m \in Memories, Sound(m), NEW old \in Memories, NEW U \in SUBSET Addresses,
         \A s \in U : old[s] = m[s], NEW v \in Memories, NEW send, NEW recv, send[1] \in U, recv[1] \in U,
         Transferred(old, v, send, recv)
  PROVE  Sound(Merge(m, U, v))
<1>1. IsPlace(old, send) /\ IsPlace(old, recv)
  BY DEF Transferred
<1>2. IsPlace(m, send) /\ IsPlace(m, recv) /\ Balance(m, send) = Balance(old, send)
  BY <1>1 DEF IsPlace, Allocated, Balance
<1>3. CASE Balance(old, send) > 0
  <2> DEFINE x == send[1]
             y == recv[1]
             n == Paid(Paid(m, send, -1), recv, 1)
  <2>1. v = Paid(Paid(old, send, -1), recv, 1)
    BY <1>3 DEF Transferred
  <2>2. n \in Memories /\ Sound(n)
    BY <1>2, <1>3, SoundPaid
  <2>3. ASSUME NEW s \in Addresses PROVE n[s] = IF s \in U THEN v[s] ELSE m[s]
    <3>1. DOMAIN m = Addresses /\ DOMAIN old = Addresses
      BY DEF Memories
    <3> DEFINE a == Paid(m, send, -1)
               b == Paid(old, send, -1)
    <3>2. x \in Addresses /\ y \in Addresses /\ old[x] = m[x] /\ old[y] = m[y]
      OBVIOUS
    <3>3. /\ DOMAIN a = Addresses /\ DOMAIN b = Addresses
          /\ \A z \in Addresses : old[z] = m[z] => b[z] = a[z]
          /\ \A z \in Addresses \ {x} : a[z] = m[z] /\ b[z] = old[z]
      BY <3>1, <3>2, PaidAlike
    <3>4. a[y] = b[y]
      BY <3>2, <3>3
    <3>5. n = Paid(a, recv, 1) /\ v = Paid(b, recv, 1)
      BY <2>1
    <3> HIDE DEF a, b, n
    <3>6. /\ \A z \in Addresses : b[z] = a[z] => v[z] = n[z]
          /\ \A z \in Addresses \ {y} : n[z] = a[z] /\ v[z] = b[z]
      BY <3>2, <3>3, <3>4, <3>5, PaidAlike
    <3> QED  BY <3>3, <3>6
  <2> HIDE DEF n
  <2>4. n = Merge(m, U, v)
    BY <2>2, <2>3 DEF Memories, Merge
  <2> QED  BY <2>2, <2>4
<1>4. CASE ~(Balance(old, send) > 0)
  <2>1. v = old
    BY <1>4 DEF Transferred
  <2>2. Merge(m, U, v) = m
    BY <2>1 DEF Merge, Memories
  <2> QED  BY <2>2
<1> QED  BY <1>3, <1>4

(* A transaction that has seen the whole list, and it is still so, has seen *)
(* the memory.                                                              *)
LEMMA AllMerged ==
  ASSUME NEW m \in Memories, Listed(m), NEW old \in Memories, Listed(old), NEW U \in SUBSET Addresses,
         \A s \in U : old[s] = m[s], Allocated(old) \subseteq U,
         NEW v \in Memories, \A s \in Addresses \ U : v[s] = old[s]
  PROVE  Merge(m, U, v) = v
<1>1. m = old
  BY SameMemory
<1> QED  BY <1>1 DEF Merge, Memories

(* Nothing was changed. *)
LEMMA NoneMerged ==
  ASSUME NEW m \in Memories, NEW old \in Memories, NEW U \in SUBSET Addresses, \A s \in U : old[s] = m[s]
  PROVE  Merge(m, U, old) = m
  BY DEF Merge, Memories

=============================================================================
