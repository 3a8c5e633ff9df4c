--------------------------- MODULE ReferenceProofs ---------------------------
(***************************************************************************)
(* The steps of Reference.tla keep the invariant of ReferenceInv.tla, for  *)
(* any number of threads, words and segments, and are steps of             *)
(* AtomicMemory.tla.  First the doubly linked list, as a function from     *)
(* positions to segments; then the steps, one lemma each.                  *)
(***************************************************************************)
EXTENDS ReferenceInv, FiniteSetTheorems, WellFoundedInduction, TLAPS

(* Induction on the natural numbers, as a fact about sets of them. *)
LEMMA Least ==
  ASSUME NEW T \in SUBSET Nat, T # {}
  PROVE  \E x \in T : \A y \in T : x <= y
<1> DEFINE R == {p \in Nat \X Nat : p[1] < p[2]}
<1>1. IsWellFoundedOn(R, Nat)
  BY NatLessThanWellFounded DEF OpToRel
<1>2. \E x \in T : \A y \in T : ~ (<<y, x>> \in R)
  <2> HIDE DEF R
  <2> QED  BY <1>1, WFMin
<1>3. PICK x \in T : \A y \in T : ~ (<<y, x>> \in R)
  BY <1>2
<1>4. ASSUME NEW y \in T PROVE x <= y
  <2>1. <<y, x>> \in Nat \X Nat /\ ~ (<<y, x>> \in R)
    BY <1>3
  <2>2. ~ (y < x)
    BY <2>1
  <2> QED  BY <2>2
<1> QED  BY <1>4

LEMMA ZeroType ==
  Zero \in Values /\ Zero \notin Segs /\ Zero \in Links /\ Zero # Garbage /\ Zero # Free /\ Garbage # Free
  BY ReferenceAssumption DEF Links

-----------------------------------------------------------------------------
(* The list                                                                *)

(* A list is no longer than there are segments. *)
LEMMA ListLength ==
  ASSUME NEW S \in SUBSET Segs, NEW n \in Nat, NEW q \in [1 .. n -> S],
         \A i, j \in 1 .. n : q[i] = q[j] => i = j
  PROVE  n \in 0 .. Cardinality(Segs)
<1>1. q \in Injection(1 .. n, Segs)
  BY DEF Injection, IsInjective
<1>2. Cardinality(1 .. n) <= Cardinality(Segs)
  BY <1>1, ReferenceAssumption, FS_Injection
<1>3. Cardinality(1 .. n) = n /\ Cardinality(Segs) \in Nat
  BY FS_Interval, FS_CardinalityType, ReferenceAssumption
<1> QED  BY <1>2, <1>3

(* Links of segments that are not in the list do not matter. *)
LEMMA ListSame ==
  ASSUME NEW S, NEW first, NEW nx, NEW pv, NEW nx2, NEW pv2,
         List(S, first, nx, pv),
         \A s \in S : nx2[s] = nx[s] /\ pv2[s] = pv[s]
  PROVE  List(S, first, nx2, pv2)
<1>1. PICK n \in 0 .. Cardinality(Segs) : \E q \in [1 .. n -> S] : IsList(q, n, S, first, nx, pv)
  BY DEF List
<1>2. PICK q \in [1 .. n -> S] : IsList(q, n, S, first, nx, pv)
  BY <1>1
<1>3. IsList(q, n, S, first, nx2, pv2)
  BY <1>2 DEF IsList
<1> QED  BY <1>1, <1>3 DEF List

(* tm_alloc puts a segment at the head, once the old head knows of it. *)
LEMMA Prepend ==
  ASSUME NEW S \in SUBSET Segs, NEW s \in Segs \ S, NEW first, NEW nx, NEW pv, NEW pv2,
         List(S, first, nx, pv), nx[s] = first, pv[s] = Zero,
         pv2 = [u \in Segs |-> IF u = first THEN s ELSE pv[u]]
  PROVE  List(S \cup {s}, s, nx, pv2)
<1>1. PICK n \in 0 .. Cardinality(Segs) : \E q \in [1 .. n -> S] : IsList(q, n, S, first, nx, pv)
  BY DEF List
<1>2. PICK q \in [1 .. n -> S] : IsList(q, n, S, first, nx, pv)
  BY <1>1
<1>0. n \in Nat /\ n + 1 \in Nat
  BY FS_CardinalityType, ReferenceAssumption
<1> DEFINE T == S \cup {s}
           p == [i \in 1 .. n + 1 |-> IF i = 1 THEN s ELSE q[i - 1]]
<1>3. /\ \A i \in 1 .. n : q[i] \in S /\ q[i] # s
      /\ \A i \in 2 .. n + 1 : i - 1 \in 1 .. n /\ p[i] = q[i - 1]
      /\ p[1] = s
  BY <1>0, <1>2 DEF IsList
<1>4. p \in [1 .. n + 1 -> T]
  <2>1. \A i \in 1 .. n + 1 : (IF i = 1 THEN s ELSE q[i - 1]) \in T
    BY <1>0, <1>3
  <2> QED  BY <2>1
<1>5. \A i, j \in 1 .. n + 1 : p[i] = p[j] => i = j
  <2> SUFFICES ASSUME NEW i \in 1 .. n + 1, NEW j \in 1 .. n + 1, p[i] = p[j] PROVE i = j
    OBVIOUS
  <2>1. CASE i = 1 \/ j = 1
    <3>1. i = 1 /\ j = 1
      BY <1>0, <1>3, <2>1
    <3> QED  BY <3>1
  <2>2. CASE i # 1 /\ j # 1
    <3>1. i \in 2 .. n + 1 /\ j \in 2 .. n + 1
      BY <1>0, <2>2
    <3>2. i - 1 \in 1 .. n /\ j - 1 \in 1 .. n /\ q[i - 1] = q[j - 1]
      BY <1>3, <3>1
    <3>3. i - 1 = j - 1
      BY <1>2, <3>2 DEF IsList
    <3> QED  BY <1>0, <3>1, <3>3
  <2> QED  BY <2>1, <2>2
<1>6. \A u \in T : \E i \in 1 .. n + 1 : p[i] = u
  <2> SUFFICES ASSUME NEW u \in T PROVE \E i \in 1 .. n + 1 : p[i] = u
    OBVIOUS
  <2>1. CASE u = s
    BY <1>0, <1>3, <2>1
  <2>2. CASE u \in S
    <3>1. PICK i \in 1 .. n : q[i] = u
      BY <1>2, <2>2 DEF IsList
    <3>2. i + 1 \in 2 .. n + 1 /\ i + 1 \in 1 .. n + 1 /\ (i + 1) - 1 = i
      BY <1>0, <3>1
    <3>3. p[i + 1] = u
      BY <1>3, <3>1, <3>2
    <3> QED  BY <3>2, <3>3
  <2> QED  BY <2>1, <2>2
<1>7. first = IF n = 0 THEN Zero ELSE q[1]
  BY <1>2 DEF IsList
<1>8. \A i \in 1 .. n + 1 : nx[p[i]] = IF i = n + 1 THEN Zero ELSE p[i + 1]
  <2> SUFFICES ASSUME NEW i \in 1 .. n + 1
               PROVE  nx[p[i]] = IF i = n + 1 THEN Zero ELSE p[i + 1]
    OBVIOUS
  <2>1. CASE i = 1
    <3>1. n # 0 => 2 \in 2 .. n + 1 /\ p[2] = q[2 - 1]
      BY <1>0, <1>3
    <3> QED  BY <1>0, <1>3, <1>7, <2>1, <3>1
  <2>2. CASE i # 1
    <3>1. i \in 2 .. n + 1 /\ i - 1 \in 1 .. n /\ (i - 1 = n <=> i = n + 1) /\ (i - 1) + 1 = i
      BY <1>0, <2>2
    <3>2. nx[q[i - 1]] = IF i - 1 = n THEN Zero ELSE q[i]
      BY <1>2, <3>1 DEF IsList
    <3>3. i # n + 1 => p[i + 1] = q[i]
      <4>1. i # n + 1 => i + 1 \in 2 .. n + 1 /\ (i + 1) - 1 = i
        BY <1>0, <3>1
      <4> QED  BY <1>3, <4>1
    <3>4. p[i] = q[i - 1]
      BY <1>3, <3>1
    <3> HIDE DEF p
    <3> QED  BY <3>1, <3>2, <3>3, <3>4
  <2> QED  BY <2>1, <2>2
<1>9. \A i \in 1 .. n + 1 : pv2[p[i]] = IF i = 1 THEN Zero ELSE p[i - 1]
  <2> SUFFICES ASSUME NEW i \in 1 .. n + 1 PROVE pv2[p[i]] = IF i = 1 THEN Zero ELSE p[i - 1]
    OBVIOUS
  <2>1. CASE i = 1
    <3>1. s # first
      BY <1>0, <1>3, <1>7, ZeroType
    <3> QED  BY <1>3, <2>1, <3>1
  <2>2. CASE i # 1
    <3>1. i \in 2 .. n + 1 /\ i - 1 \in 1 .. n /\ n # 0 /\ 1 \in 1 .. n
      BY <1>0, <2>2
    <3>2. p[i] = q[i - 1] /\ q[i - 1] \in Segs
      BY <1>3, <3>1
    <3>3. CASE i = 2
      BY <1>3, <1>7, <3>1, <3>2, <3>3
    <3>4. CASE i # 2
      <4>1. i - 1 # 1 /\ i - 1 \in 2 .. n + 1
        BY <1>0, <3>1, <3>4
      <4>2. q[i - 1] # q[1]
        BY <1>2, <3>1, <4>1 DEF IsList
      <4>3. pv[q[i - 1]] = q[(i - 1) - 1]
        BY <1>2, <3>1, <4>1 DEF IsList
      <4>4. p[i - 1] = q[(i - 1) - 1]
        BY <1>3, <4>1
      <4> HIDE DEF p
      <4> QED  BY <1>7, <2>2, <3>1, <3>2, <4>2, <4>3, <4>4
    <3> QED  BY <3>3, <3>4
  <2> QED  BY <2>1, <2>2
<1>10. IsList(p, n + 1, T, s, nx, pv2)
  <2>1. s = IF n + 1 = 0 THEN Zero ELSE p[1]
    BY <1>0, <1>3
  <2> HIDE DEF p, T
  <2> QED  BY <1>4, <1>5, <1>6, <1>8, <1>9, <2>1 DEF IsList
<1>11. n + 1 \in 0 .. Cardinality(Segs)
  <2>1. T \in SUBSET Segs
    OBVIOUS
  <2> HIDE DEF p, T
  <2> QED  BY <1>0, <1>4, <1>5, <2>1, ListLength
<1> HIDE DEF p
<1> QED  BY <1>4, <1>10, <1>11 DEF List


(* tm_free takes a segment out, by the links it finds in it. *)
LEMMA Remove ==
  ASSUME NEW S \in SUBSET Segs, NEW s \in S, NEW first, NEW nx \in [Segs -> Links], NEW pv,
         NEW first2, NEW nx2, NEW pv2,
         List(S, first, nx, pv),
         first2 = IF pv[s] # Zero THEN first ELSE nx[s],
         nx2 = IF pv[s] # Zero THEN [nx EXCEPT ![pv[s]] = nx[s]] ELSE nx,
         pv2 = [u \in Segs |-> IF u = nx2[s] THEN pv[s] ELSE pv[u]]
  PROVE  List(S \ {s}, first2, nx2, pv2)
<1>1. PICK n \in 0 .. Cardinality(Segs) : \E q \in [1 .. n -> S] : IsList(q, n, S, first, nx, pv)
  BY DEF List
<1>2. PICK q \in [1 .. n -> S] : IsList(q, n, S, first, nx, pv)
  BY <1>1
<1>3. PICK k \in 1 .. n : q[k] = s
  BY <1>2 DEF IsList
<1>0. n \in Nat /\ n # 0 /\ n - 1 \in Nat /\ k \in Nat
  BY <1>3, FS_CardinalityType, ReferenceAssumption
<1>4. \A i \in 1 .. n : q[i] \in Segs /\ q[i] # Zero /\ \A j \in 1 .. n : q[i] = q[j] => i = j
  BY <1>2, ZeroType DEF IsList
<1>5. /\ pv[s] = IF k = 1 THEN Zero ELSE q[k - 1]
      /\ nx[s] = IF k = n THEN Zero ELSE q[k + 1]
      /\ first = q[1]
  BY <1>0, <1>2, <1>3 DEF IsList
<1>6. /\ k # 1 => k - 1 \in 1 .. n
      /\ k # n => k + 1 \in 1 .. n
  BY <1>0, <1>3
<1>7. nx2[s] = nx[s]
  <2>1. pv[s] # s
    BY <1>0, <1>3, <1>4, <1>5, <1>6, ZeroType
  <2> QED  BY <2>1
<1>8. \A i \in 1 .. n : i # k =>
        nx2[q[i]] = IF i = k - 1 THEN (IF k = n THEN Zero ELSE q[k + 1])
                    ELSE IF i = n THEN Zero ELSE q[i + 1]
  <2> SUFFICES ASSUME NEW i \in 1 .. n, i # k
               PROVE  nx2[q[i]] = IF i = k - 1 THEN nx[s] ELSE nx[q[i]]
    BY <1>2, <1>5 DEF IsList
  <2>1. CASE k = 1
    <3>1. nx2 = nx /\ i # k - 1
      BY <1>0, <1>5, <2>1
    <3> QED  BY <3>1
  <2>2. CASE k # 1
    <3>1. q[k - 1] \in Segs /\ (q[i] = q[k - 1] <=> i = k - 1) /\ q[i] \in Segs
      BY <1>4, <1>6, <2>2
    <3>2. nx2 = [nx EXCEPT ![q[k - 1]] = nx[s]]
      BY <1>4, <1>5, <1>6, <2>2
    <3> QED  BY <3>1, <3>2
  <2> QED  BY <2>1, <2>2
<1>9. \A i \in 1 .. n : i # k =>
        pv2[q[i]] = IF i = k + 1 THEN (IF k = 1 THEN Zero ELSE q[k - 1])
                    ELSE IF i = 1 THEN Zero ELSE q[i - 1]
  <2> SUFFICES ASSUME NEW i \in 1 .. n, i # k
               PROVE  pv2[q[i]] = IF i = k + 1 THEN pv[s] ELSE pv[q[i]]
    BY <1>2, <1>5, ZenonT(40) DEF IsList
  <2>1. q[i] = nx[s] <=> i = k + 1
    BY <1>0, <1>4, <1>5, <1>6
  <2> QED  BY <1>4, <1>7, <2>1
<1> DEFINE T == S \ {s}
           p == [i \in 1 .. n - 1 |-> IF i < k THEN q[i] ELSE q[i + 1]]
<1>10. /\ \A i \in 1 .. n - 1 : i \in 1 .. n /\ i + 1 \in 1 .. n
       /\ \A i \in 1 .. n - 1 : i < k => p[i] = q[i]
       /\ \A i \in 1 .. n - 1 : ~(i < k) => p[i] = q[i + 1]
  BY <1>0
<1>11. p \in [1 .. n - 1 -> T]
  <2>1. ASSUME NEW i \in 1 .. n - 1 PROVE (IF i < k THEN q[i] ELSE q[i + 1]) \in T
    <3>1. i < k => q[i] \in T
      BY <1>0, <1>2, <1>3, <1>4, <1>10 DEF IsList
    <3>2. ~(i < k) => q[i + 1] \in T
      <4>1. ~(i < k) => i + 1 # k
        BY <1>0
      <4> QED  BY <1>2, <1>3, <1>4, <1>10, <4>1 DEF IsList
    <3> QED  BY <3>1, <3>2
  <2> QED  BY <2>1
<1>12. \A i, j \in 1 .. n - 1 : p[i] = p[j] => i = j
  <2> SUFFICES ASSUME NEW i \in 1 .. n - 1, NEW j \in 1 .. n - 1, p[i] = p[j] PROVE i = j
    OBVIOUS
  <2>1. PICK a \in 1 .. n : p[i] = q[a] /\ a = IF i < k THEN i ELSE i + 1
    BY <1>10
  <2>2. PICK b \in 1 .. n : p[j] = q[b] /\ b = IF j < k THEN j ELSE j + 1
    BY <1>10
  <2>3. a = b
    BY <1>4, <2>1, <2>2
  <2> HIDE DEF p
  <2> QED  BY <1>0, <2>1, <2>2, <2>3
<1>13. \A u \in T : \E i \in 1 .. n - 1 : p[i] = u
  <2> SUFFICES ASSUME NEW u \in T PROVE \E i \in 1 .. n - 1 : p[i] = u
    OBVIOUS
  <2>1. PICK i \in 1 .. n : q[i] = u
    BY <1>2 DEF IsList
  <2>2. i # k
    BY <1>3, <2>1
  <2>3. CASE i < k
    <3>1. i \in 1 .. n - 1
      BY <1>0, <2>3
    <3> QED  BY <1>10, <2>1, <2>3, <3>1
  <2>4. CASE ~(i < k)
    <3>1. i - 1 \in 1 .. n - 1 /\ ~(i - 1 < k) /\ (i - 1) + 1 = i
      BY <1>0, <2>2, <2>4
    <3> QED  BY <1>10, <2>1, <3>1
  <2> QED  BY <2>3, <2>4
<1>14. first2 = IF n - 1 = 0 THEN Zero ELSE p[1]
  <2>1. CASE k = 1
    <3>1. n - 1 # 0 => 1 \in 1 .. n - 1 /\ ~(1 < k) /\ k # n
      BY <1>0, <2>1
    <3>2. first2 = nx[s] /\ (n - 1 = 0 => k = n)
      BY <1>0, <1>5, <2>1
    <3>3. n - 1 # 0 => p[1] = q[k + 1]
      BY <1>10, <2>1, <3>1
    <3> HIDE DEF p
    <3> QED  BY <1>5, <3>1, <3>2, <3>3
  <2>2. CASE k # 1
    <3>1. 1 \in 1 .. n - 1 /\ 1 < k /\ n - 1 # 0
      BY <1>0, <2>2
    <3>2. first2 = first
      BY <1>4, <1>5, <1>6, <2>2
    <3> QED  BY <1>5, <1>10, <3>1, <3>2
  <2> QED  BY <2>1, <2>2
<1>15. ASSUME NEW i \in 1 .. n - 1
       PROVE  nx2[p[i]] = IF i = n - 1 THEN Zero ELSE p[i + 1]
  <2>0. i # n - 1 => i + 1 \in 1 .. n - 1
    BY <1>0
  <2>1. CASE i < k
    <3>1. nx2[q[i]] = IF i = k - 1 THEN (IF k = n THEN Zero ELSE q[k + 1])
                      ELSE IF i = n THEN Zero ELSE q[i + 1]
      <4>1. i # k /\ i \in 1 .. n
        BY <1>0, <2>1
      <4> HIDE DEF p
      <4> QED  BY <1>8, <4>1
    <3>2. p[i] = q[i] /\ i # n
      BY <1>0, <1>10, <2>1
    <3>3. CASE i = k - 1
      <4>1. (k = n <=> i = n - 1) /\ i + 1 = k /\ ~(i + 1 < k)
        BY <1>0, <3>3
      <4>2. i # n - 1 => p[i + 1] = q[k + 1]
        BY <1>10, <2>0, <4>1
      <4> HIDE DEF p
      <4> QED  BY <3>1, <3>2, <3>3, <4>1, <4>2
    <3>4. CASE i # k - 1
      <4>1. i + 1 < k /\ i # n - 1
        BY <1>0, <2>1, <3>4
      <4>2. p[i + 1] = q[i + 1]
        BY <1>10, <2>0, <4>1
      <4> HIDE DEF p
      <4> QED  BY <3>1, <3>2, <3>4, <4>1, <4>2
    <3> QED  BY <3>3, <3>4
  <2>2. CASE ~(i < k)
    <3>1. i + 1 # k /\ i + 1 # k - 1 /\ i + 1 \in 1 .. n /\ (i + 1 = n <=> i = n - 1) /\ ~(i + 1 < k)
      BY <1>0, <2>2
    <3>2. nx2[q[i + 1]] = IF i + 1 = n THEN Zero ELSE q[(i + 1) + 1]
      BY <1>8, <3>1
    <3>3. p[i] = q[i + 1]
      BY <1>10, <2>2
    <3>4. i # n - 1 => p[i + 1] = q[(i + 1) + 1]
      BY <1>10, <2>0, <3>1
    <3> HIDE DEF p
    <3> QED  BY <3>1, <3>2, <3>3, <3>4
  <2> QED  BY <2>1, <2>2
<1>16. ASSUME NEW i \in 1 .. n - 1
       PROVE  pv2[p[i]] = IF i = 1 THEN Zero ELSE p[i - 1]
  <2>0. i # 1 => i - 1 \in 1 .. n - 1 /\ (i - 1) + 1 = i
    BY <1>0
  <2>1. CASE i < k
    <3>1. pv2[q[i]] = IF i = 1 THEN Zero ELSE q[i - 1]
      <4>1. i # k /\ i # k + 1 /\ i \in 1 .. n
        BY <1>0, <2>1
      <4> QED  BY <1>9, <4>1
    <3>2. p[i] = q[i] /\ (i # 1 => p[i - 1] = q[i - 1])
      <4>1. i - 1 < k
        BY <1>0, <2>1
      <4> QED  BY <1>10, <2>0, <2>1, <4>1
    <3> HIDE DEF p
    <3> QED  BY <3>1, <3>2
  <2>2. CASE ~(i < k)
    <3>0. i + 1 \in 1 .. n /\ i + 1 # k /\ (i + 1) - 1 = i /\ i + 1 # 1
      BY <1>0, <2>2
    <3>1. p[i] = q[i + 1]
      BY <1>10, <2>2
    <3>2. pv2[q[i + 1]] = IF i + 1 = k + 1 THEN (IF k = 1 THEN Zero ELSE q[k - 1]) ELSE q[i]
      BY <1>9, <3>0
    <3>3. CASE i = k
      <4>1. i # 1 => p[i - 1] = q[i - 1]
        <5>1. i - 1 < k
          BY <1>0, <3>3
        <5> QED  BY <1>10, <2>0, <5>1
      <4> HIDE DEF p
      <4> QED  BY <3>1, <3>2, <3>3, <4>1
    <3>4. CASE i # k
      <4>1. ~(i - 1 < k) /\ i # 1 /\ i + 1 # k + 1
        BY <1>0, <2>2, <3>4
      <4>2. p[i - 1] = q[i]
        BY <1>10, <2>0, <4>1
      <4> HIDE DEF p
      <4> QED  BY <3>1, <3>2, <4>1, <4>2
    <3> QED  BY <3>3, <3>4
  <2> QED  BY <2>1, <2>2
<1>17. IsList(p, n - 1, T, first2, nx2, pv2)
  <2> HIDE DEF p, T
  <2> QED  BY <1>11, <1>12, <1>13, <1>14, <1>15, <1>16 DEF IsList
<1>18. n - 1 \in 0 .. Cardinality(Segs)
  <2>1. T \in SUBSET Segs
    OBVIOUS
  <2> HIDE DEF p, T
  <2> QED  BY <1>0, <1>11, <1>12, <2>1, ListLength
<1> HIDE DEF p
<1> QED  BY <1>11, <1>17, <1>18 DEF List

(* A segment of the list is the first, or its predecessor knows of it. *)
LEMMA Neighbours ==
  ASSUME NEW S, NEW first, NEW nx, NEW pv, List(S, first, nx, pv), S \subseteq Segs, NEW s \in S
  PROVE  IF s = first THEN pv[s] = Zero ELSE pv[s] \in S /\ nx[pv[s]] = s
<1>1. PICK n \in 0 .. Cardinality(Segs) : \E q \in [1 .. n -> S] : IsList(q, n, S, first, nx, pv)
  BY DEF List
<1>2. PICK q \in [1 .. n -> S] : IsList(q, n, S, first, nx, pv)
  BY <1>1
<1>3. PICK k \in 1 .. n : q[k] = s
  BY <1>2 DEF IsList
<1>0. n \in Nat /\ n # 0 /\ 1 \in 1 .. n
  BY <1>3, FS_CardinalityType, ReferenceAssumption
<1>4. first = q[1] /\ (s = first <=> k = 1)
  BY <1>0, <1>2, <1>3 DEF IsList
<1>5. pv[s] = IF k = 1 THEN Zero ELSE q[k - 1]
  BY <1>2, <1>3 DEF IsList
<1>6. k # 1 => q[k - 1] \in S /\ nx[q[k - 1]] = s
  <2>1. k # 1 => k - 1 \in 1 .. n /\ k - 1 # n /\ (k - 1) + 1 = k
    BY <1>0, <1>3
  <2> QED  BY <1>2, <1>3, <2>1 DEF IsList
<1> QED  BY <1>4, <1>5, <1>6

-----------------------------------------------------------------------------
(* The loop of tm_destroy                                                  *)

WalkStep(w) == IF w = Zero THEN Zero ELSE next[w]

(* Walk is what its definition says. *)
LEMMA WalkDef ==
  Walk = [n \in 0 .. Cardinality(Segs) |-> IF n = 0 THEN allocs ELSE WalkStep(Walk[n - 1])]
<1> DEFINE Is(f, m) == f = [n \in 0 .. m |-> IF n = 0 THEN allocs ELSE WalkStep(f[n - 1])]
           Bad == {m \in Nat : ~ \E f : Is(f, m)}
<1>1. Bad = {}
  <2> SUFFICES ASSUME Bad # {} PROVE FALSE
    OBVIOUS
  <2>1. PICK m \in Bad : \A k \in Bad : m <= k
    BY Least
  <2>2. m # 0
    <3>1. Is([n \in 0 .. 0 |-> allocs], 0)
      OBVIOUS
    <3> QED  BY <3>1
  <2>3. m - 1 \in Nat /\ m - 1 \notin Bad /\ m \in Nat
    <3>1. m \in Nat
      OBVIOUS
    <3>2. m - 1 \in Nat /\ ~(m <= m - 1)
      BY <2>2, <3>1
    <3> HIDE DEF Bad
    <3> QED  BY <2>1, <3>1, <3>2
  <2>4. PICK f : Is(f, m - 1)
    BY <2>3
  <2> DEFINE g == [n \in 0 .. m |-> IF n = m THEN WalkStep(f[m - 1]) ELSE f[n]]
  <2>5. Is(g, m)
    <3>1. ASSUME NEW n \in 0 .. m
          PROVE  g[n] = IF n = 0 THEN allocs ELSE WalkStep(g[n - 1])
      <4>1. CASE n = m
        BY <2>2, <2>3, <4>1
      <4>2. CASE n # m
        <5>1. n \in 0 .. m - 1 /\ (n = 0 \/ (n - 1 \in 0 .. m /\ n - 1 # m))
          BY <2>3, <4>2
        <5>2. f[n] = IF n = 0 THEN allocs ELSE WalkStep(f[n - 1])
          BY <2>4, <5>1
        <5>3. g[n] = f[n] /\ (n = 0 \/ g[n - 1] = f[n - 1])
          BY <4>2, <5>1
        <5> QED  BY <5>2, <5>3
      <4> QED  BY <4>1, <4>2
    <3>2. g = [n \in 0 .. m |-> g[n]]
      OBVIOUS
    <3> HIDE DEF g
    <3> QED  BY <3>1, <3>2
  <2> QED  BY <2>1, <2>5
<1>2. Cardinality(Segs) \in Nat
  BY FS_CardinalityType, ReferenceAssumption
<1>3. \E f : Is(f, Cardinality(Segs))
  BY <1>1, <1>2
<1> QED  BY <1>3 DEF Walk, WalkStep

(* On a list it meets every segment once, and then the end. *)
LEMMA WalkList ==
  ASSUME NEW S \in SUBSET Segs, List(S, allocs, next, prev)
  PROVE  Listed = S /\ Walk[Cardinality(Segs)] = Zero
<1> DEFINE N == Cardinality(Segs)
<1>1. PICK n \in 0 .. N : \E q \in [1 .. n -> S] : IsList(q, n, S, allocs, next, prev)
  BY DEF List
<1>2. PICK q \in [1 .. n -> S] : IsList(q, n, S, allocs, next, prev)
  BY <1>1
<1>0. N \in Nat /\ n \in Nat /\ n <= N
  BY <1>1, FS_CardinalityType, ReferenceAssumption
<1>3. DOMAIN Walk = 0 .. N /\ \A k \in 0 .. N : Walk[k] = IF k = 0 THEN allocs ELSE WalkStep(Walk[k - 1])
  BY WalkDef
<1> HIDE DEF N
<1>4. \A i \in 1 .. n : q[i] \in S /\ q[i] # Zero
  BY <1>2, ZeroType
<1> DEFINE At(k) == IF k < n THEN q[k + 1] ELSE Zero
           Bad == {k \in 0 .. N : Walk[k] # At(k)}
<1>5. Bad = {}
  <2> SUFFICES ASSUME Bad # {} PROVE FALSE
    OBVIOUS
  <2>1. PICK k \in Bad : \A j \in Bad : k <= j
    <3>1. Bad \in SUBSET Nat
      BY <1>0
    <3> HIDE DEF Bad
    <3> QED  BY <3>1, Least
  <2>2. k \in 0 .. N /\ Walk[k] # At(k)
    BY <2>1
  <2>3. k # 0
    <3>1. At(0) = allocs
      BY <1>0, <1>2 DEF IsList
    <3>2. 0 \in 0 .. N /\ Walk[0] = allocs
      BY <1>0, <1>3
    <3> HIDE DEF At
    <3> QED  BY <2>2, <3>1, <3>2
  <2>4. k - 1 \in 0 .. N /\ (k - 1) + 1 = k /\ k - 1 < k
    BY <1>0, <2>2, <2>3
  <2>5. Walk[k - 1] = At(k - 1)
    <3>1. ~(k <= k - 1)
      BY <1>0, <2>2
    <3>2. k - 1 \notin Bad
      BY <2>1, <3>1
    <3> QED  BY <2>4, <3>2
  <2>6. Walk[k] = WalkStep(At(k - 1))
    BY <1>3, <2>2, <2>3, <2>5
  <2>7. WalkStep(At(k - 1)) = At(k)
    <3>1. CASE k - 1 < n
      <4>1. k \in 1 .. n /\ At(k - 1) = q[k] /\ (k < n <=> k # n)
        BY <1>0, <2>2, <2>3, <2>4, <3>1
      <4>2. next[q[k]] = IF k = n THEN Zero ELSE q[k + 1]
        BY <1>2, <4>1 DEF IsList
      <4>3. q[k] # Zero
        BY <1>4, <4>1
      <4> QED  BY <4>1, <4>2, <4>3 DEF WalkStep
    <3>2. CASE ~(k - 1 < n)
      <4>1. At(k - 1) = Zero /\ At(k) = Zero
        BY <1>0, <2>2, <3>2
      <4> QED  BY <4>1 DEF WalkStep
    <3> QED  BY <3>1, <3>2
  <2> QED  BY <2>2, <2>6, <2>7
<1>6. \A k \in 0 .. N : Walk[k] = At(k)
  BY <1>5
<1>7. Walk[N] = Zero
  BY <1>0, <1>6
<1>8. Listed \subseteq S
  <2> SUFFICES ASSUME NEW k \in 0 .. N, Walk[k] # Zero PROVE Walk[k] \in S
    BY <1>3 DEF Listed
  <2>1. k < n
    BY <1>6
  <2>2. k + 1 \in 1 .. n
    BY <1>0, <2>1
  <2> QED  BY <1>4, <1>6, <2>1, <2>2
<1>9. S \subseteq Listed
  <2> SUFFICES ASSUME NEW s \in S PROVE s \in Listed
    OBVIOUS
  <2>1. PICK i \in 1 .. n : q[i] = s
    BY <1>2 DEF IsList
  <2>2. i - 1 \in 0 .. N /\ i - 1 < n /\ (i - 1) + 1 = i
    BY <1>0, <2>1
  <2>3. Walk[i - 1] = s /\ s # Zero
    BY <1>4, <1>6, <2>1, <2>2
  <2> QED  BY <1>3, <2>2, <2>3 DEF Listed
<1> QED  BY <1>7, <1>8, <1>9 DEF N


-----------------------------------------------------------------------------
(* The steps                                                               *)

Contents == Values \cup Segs \cup {Garbage}

(* Where there is a writer, nobody else has a transaction. *)
LEMMA WriterAlone ==
  ASSUME RefInv, NEW t \in Threads, mode[t] = "rw"
  PROVE  /\ writer = t /\ writer # None /\ readers = {} /\ ~destroyed
         /\ \A u \in Threads \ {t} : mode[u] = "none" /\ pc[u] = "out" /\ known[u] = {} /\ got[u] = {}
         /\ ListOf(t)
<1>1. writer = t /\ writer # None /\ readers = {} /\ ~destroyed
  BY ReferenceAssumption DEF RefInv, LockInv
<1>2. ASSUME NEW u \in Threads \ {t}
      PROVE  mode[u] = "none" /\ pc[u] = "out" /\ known[u] = {} /\ got[u] = {}
  <2>1. mode[u] # "rw" /\ mode[u] # "ro"
    BY <1>1 DEF RefInv, LockInv
  <2>2. mode[u] = "none" /\ pc[u] = "out"
    BY <2>1 DEF RefInv, LockInv, TypeOK
  <2> QED  BY <2>2 DEF RefInv, AddressOf
<1>3. ListOf(t)
  <2>1. CASE pc[t] = "out"
    <3>1. List(alive, allocs, next, prev)
      BY <1>1, <1>2, <2>1 DEF RefInv, ListInv
    <3> QED  BY <2>1, <3>1 DEF ListOf
  <2>2. CASE pc[t] # "out"
    BY <1>1, <2>2 DEF RefInv, ListInv
  <2> QED  BY <2>1, <2>2
<1> QED  BY <1>1, <1>2, <1>3

(* Who is in a call of tm_alloc or tm_free is the writer. *)
LEMMA Calling ==
  ASSUME RefInv, NEW t \in Threads, pc[t] # "out"
  PROVE  /\ mode[t] = "rw"
         /\ node[t] \in Segs /\ slot[t] \in Words /\ slot[t] \in Roots \cup alive /\ slot[t] # node[t]
         /\ node[t] \in alive <=> pc[t] # "clear"
         /\ alive \subseteq Segs /\ node[t] \in Words
  BY DEF RefInv, LockInv, CallOf, Words, Start, TypeOK

LEMMA GotoEffect ==
  ASSUME RefInv, NEW t \in Threads,
         NEW l \in {"out", "back", "head", "memset", "publish", "unlink", "unlink_next", "free", "clear"},
         Goto(t, l)
  PROVE  /\ pc' \in [Threads -> {"out", "back", "head", "memset", "publish", "unlink",
                                 "unlink_next", "free", "clear"}]
         /\ pc'[t] = l /\ \A u \in Threads \ {t} : pc'[u] = pc[u]
  BY DEF RefInv, TypeOK, Goto

LEMMA StoreEffect ==
  ASSUME RefInv, NEW t \in Threads, NEW w \in Words, NEW c \in Contents, Store(t, w, c)
  PROVE  /\ mem' \in [Words -> Contents]
         /\ mem'[w] = c /\ \A x \in Words \ {w} : mem'[x] = mem[x]
         /\ got' \in [Threads -> SUBSET (Words \X Contents)]
         /\ got'[t] = {} /\ \A u \in Threads \ {t} : got'[u] = got[u]
  BY DEF RefInv, TypeOK, Store, Contents

LEMMA ReturnEffect ==
  ASSUME RefInv, NEW t \in Threads, Return(t)
  PROVE  /\ pc' \in [Threads -> {"out", "back", "head", "memset", "publish", "unlink",
                                 "unlink_next", "free", "clear"}]
         /\ pc'[t] = "out" /\ \A u \in Threads \ {t} : pc'[u] = pc[u]
         /\ node' \in [Threads -> Links] /\ slot' \in [Threads -> Words \cup {Zero}]
         /\ \A u \in Threads \ {t} : node'[u] = node[u] /\ slot'[u] = slot[u]
  BY ZeroType DEF RefInv, TypeOK, Return, Goto

(* Of the writer's steps, only what it does to the memory and the list, and *)
(* to its own locals, matters.                                              *)
LEMMA OwnStep ==
  ASSUME RefInv, NEW t \in Threads, mode[t] = "rw", UNCHANGED <<lockVars, mode, destroyed>>,
         \A u \in Threads \ {t} : pc'[u] = pc[u] /\ known'[u] = known[u] /\ got'[u] = got[u],
         TypeOK', PointerInv', AddressOf(t)', CallOf(t)', ListOf(t)'
  PROVE  RefInv'
<1>1. UNCHANGED <<readers, writer, mode, destroyed>>
  BY DEF lockVars
<1>2. \A u \in Threads \ {t} : mode[u] = "none" /\ pc'[u] = "out" /\ known'[u] = {} /\ got'[u] = {}
  BY WriterAlone
<1>3. \A u \in Threads : AddressOf(u)' /\ CallOf(u)'
  <2> SUFFICES ASSUME NEW u \in Threads \ {t} PROVE AddressOf(u)' /\ CallOf(u)'
    OBVIOUS
  <2> QED  BY <1>1, <1>2 DEF AddressOf, CallOf
<1>4. LockInv'
  BY <1>1, <1>2 DEF LockInv, RefInv
<1>5. ListInv'
  <2>1. (\A u \in Threads : pc'[u] = "out") => List(alive', allocs', next', prev')
    BY DEF ListOf
  <2>2. \A u \in Threads : pc'[u] # "out" => ListOf(u)'
    BY <1>2
  <2>3. ~destroyed'
    BY <1>1, WriterAlone
  <2> QED  BY <2>1, <2>2, <2>3 DEF ListInv
<1> QED  BY <1>3, <1>4, <1>5 DEF RefInv

(* What a transaction read last is still there, and it has the address. *)
LEMMA LastRead ==
  ASSUME RefInv, NEW t \in Threads, NEW w, NEW c, got[t] = {<<w, c>>}
  PROVE  w \in known[t] /\ mem[w] = c
<1>1. <<w, c>> \in {<<x, mem[x]>> : x \in known[t]}
  BY DEF RefInv, AddressOf
<1>2. PICK x \in known[t] : <<w, c>> = <<x, mem[x]>>
  BY <1>1
<1> QED  BY <1>2

(* tm_begin, tm_end and tm_read change nothing that others see. *)
LEMMA ReaderStep ==
  ASSUME RefInv, NEW t \in Threads,
         \/ TmBeginRO(t) \/ TmBeginRW(t) \/ TmEnd(t) \/ \E w \in Words : TmRead(t, w)
  PROVE  RefInv'
<1>1. UNCHANGED <<mem, alive, allocs, next, prev, pc, node, slot, destroyed>>
  BY DEF TmBeginRO, TmBeginRW, Begin, TmEnd, TmRead, listVars, callVars
<1>2. PointerInv' /\ ListInv' /\ \A u \in Threads : CallOf(u)'
  BY <1>1 DEF RefInv, PointerInv, ListInv, CallOf, ListOf, PrevWithout
<1>3. Shown \in [Words -> Values \cup Segs \cup {Garbage, Free}]
  BY DEF RefInv, TypeOK, Shown
<1>4. CASE TmBeginRO(t) \/ TmBeginRW(t)
  <2>1. PICK m \in {"ro", "rw"} : Begin(t, m) /\ (m = "ro" <=> TmBeginRO(t)) /\ (m = "rw" <=> TmBeginRW(t))
    <3>1. CASE TmBeginRO(t)
      <4>1. ~TmBeginRW(t)
        BY <3>1 DEF TmBeginRO, TmBeginRW, Begin, RefInv, TypeOK
      <4> QED  BY <3>1, <4>1 DEF TmBeginRO
    <3>2. CASE TmBeginRW(t)
      <4>1. ~TmBeginRO(t)
        BY <3>2 DEF TmBeginRO, TmBeginRW, Begin, RefInv, TypeOK
      <4> QED  BY <3>2, <4>1 DEF TmBeginRW
    <3> QED  BY <1>4, <3>1, <3>2
  <2>2. /\ mode[t] = "none" /\ ~destroyed /\ UNCHANGED got
        /\ mode' \in [Threads -> {"none", "ro", "rw"}] /\ mode'[t] = m
        /\ known' \in [Threads -> SUBSET Words] /\ known'[t] = Start
        /\ \A u \in Threads \ {t} : mode'[u] = mode[u] /\ known'[u] = known[u]
    BY <2>1 DEF Begin, RefInv, TypeOK, Words
  <2>3. /\ writer = None
        /\ m = "ro" => readers' = readers \cup {t} /\ UNCHANGED <<writer, pre>>
        /\ m = "rw" => readers = {} /\ writer' = t /\ pre' = Shown /\ UNCHANGED readers
    BY <1>4, <2>1 DEF TmBeginRO, TmBeginRW
  <2>4. TypeOK'
    BY <1>1, <1>3, <2>1, <2>2, <2>3 DEF RefInv, TypeOK
  <2>5. LockInv'
    <3>1. pc[t] = "out" /\ writer # t
      BY <2>2, <2>3, ReferenceAssumption DEF RefInv, LockInv
    <3>2. CASE m = "ro"
      BY <1>1, <2>2, <2>3, <3>1, <3>2 DEF RefInv, LockInv
    <3>3. CASE m = "rw"
      <4>1. \A u \in Threads \ {t} : mode[u] # "rw" /\ u # writer'
        BY <2>3, <3>3, ReferenceAssumption DEF RefInv, LockInv
      <4>2. readers' = {} /\ \A u \in Threads : mode'[u] # "ro"
        BY <2>2, <2>3, <3>3 DEF RefInv, LockInv
      <4>3. \A u \in Threads : writer' = u <=> mode'[u] = "rw"
        BY <2>2, <2>3, <3>3, <4>1
      <4>4. \A u \in Threads : pc[u] # "out" => mode[u] = "rw"
        BY DEF RefInv, LockInv
      <4> QED  BY <1>1, <2>2, <3>1, <4>1, <4>2, <4>3, <4>4 DEF LockInv
    <3> QED  BY <2>1, <3>2, <3>3
  <2>6. \A u \in Threads : AddressOf(u)'
    <3>1. got[t] = {} /\ m # "none"
      BY <2>1, <2>2 DEF RefInv, AddressOf
    <3>2. AddressOf(t)'
      BY <1>1, <2>2, <3>1 DEF AddressOf
    <3>3. ASSUME NEW u \in Threads \ {t} PROVE AddressOf(u)'
      BY <1>1, <2>2 DEF RefInv, AddressOf
    <3> QED  BY <3>2, <3>3
  <2> QED  BY <1>2, <2>4, <2>5, <2>6 DEF RefInv
<1>5. CASE TmEnd(t)
  <2>1. /\ pc[t] = "out" /\ mode[t] # "none" /\ UNCHANGED pre
        /\ mode' \in [Threads -> {"none", "ro", "rw"}] /\ mode'[t] = "none"
        /\ known' \in [Threads -> SUBSET Words] /\ known'[t] = {}
        /\ got' \in [Threads -> SUBSET (Words \X Contents)] /\ got'[t] = {}
        /\ \A u \in Threads \ {t} : mode'[u] = mode[u] /\ known'[u] = known[u] /\ got'[u] = got[u]
    BY <1>5 DEF TmEnd, Idle, RefInv, TypeOK, Contents
  <2>2. /\ mode[t] = "ro" => readers' = readers \ {t} /\ UNCHANGED writer
        /\ mode[t] # "ro" => writer' = None /\ UNCHANGED readers
    BY <1>5 DEF TmEnd
  <2>3. TypeOK'
    BY <1>1, <2>1, <2>2 DEF RefInv, TypeOK, Contents
  <2>4. LockInv'
    <3>1. CASE mode[t] = "ro"
      BY <1>1, <2>1, <2>2, <3>1 DEF RefInv, LockInv
    <3>2. CASE mode[t] = "rw"
      <4>1. \A u \in Threads \ {t} : mode[u] = "none" /\ pc[u] = "out"
        BY <3>2, WriterAlone
      <4>2. readers' = {} /\ writer' = None
        BY <2>2, <3>2, WriterAlone
      <4> QED  BY <1>1, <2>1, <4>1, <4>2, ReferenceAssumption DEF LockInv
    <3> QED  BY <2>1, <3>1, <3>2 DEF RefInv, TypeOK
  <2>5. ASSUME NEW u \in Threads PROVE AddressOf(u)'
    BY <1>1, <2>1 DEF RefInv, AddressOf
  <2> QED  BY <1>2, <2>3, <2>4, <2>5 DEF RefInv
<1>6. CASE \E w \in Words : TmRead(t, w)
  <2>1. PICK w \in Words : TmRead(t, w)
    BY <1>6
  <2>2. /\ pc[t] = "out" /\ mode[t] # "none" /\ w \in known[t]
        /\ UNCHANGED <<readers, writer, mode, pre>>
        /\ got' = [got EXCEPT ![t] = {<<w, mem[w]>>}]
        /\ known' = [known EXCEPT ![t] = @ \cup ({mem[w]} \cap Segs)]
    BY <2>1 DEF TmRead, Idle, lockVars
  <2>3. /\ got' \in [Threads -> SUBSET (Words \X Contents)] /\ got'[t] = {<<w, mem[w]>>}
        /\ known' \in [Threads -> SUBSET Words] /\ known'[t] = known[t] \cup ({mem[w]} \cap Segs)
        /\ \A u \in Threads \ {t} : known'[u] = known[u] /\ got'[u] = got[u]
    <3>1. <<w, mem[w]>> \in Words \X Contents
      BY DEF RefInv, TypeOK, Contents
    <3> QED  BY <2>2, <3>1 DEF RefInv, TypeOK, Contents, Words
  <2>4. TypeOK' /\ LockInv'
    BY <1>1, <2>2, <2>3 DEF RefInv, TypeOK, LockInv, Contents
  <2>5. AddressOf(t)'
    <3>1. ~destroyed /\ \A u \in Threads : pc[u] # "clear"
      <4>1. ASSUME NEW u \in Threads, pc[u] = "clear" PROVE FALSE
        <5>1. mode[u] = "rw"
          BY <4>1 DEF RefInv, LockInv
        <5> QED  BY <2>2, <4>1, <5>1, WriterAlone
      <4> QED  BY <2>2, <4>1 DEF RefInv, LockInv
    <3>2. mem[w] \in Segs => mem[w] \in alive
      BY <3>1 DEF RefInv, PointerInv
    <3> QED  BY <1>1, <2>2, <2>3, <3>2 DEF RefInv, AddressOf
  <2>6. ASSUME NEW u \in Threads \ {t} PROVE AddressOf(u)'
    BY <1>1, <2>2, <2>3 DEF RefInv, AddressOf
  <2> QED  BY <1>2, <2>4, <2>5, <2>6 DEF RefInv
<1> QED  BY <1>4, <1>5, <1>6


LEMMA WriteStep ==
  ASSUME RefInv, NEW t \in Threads, NEW w \in Words, NEW v \in Values, TmWrite(t, w, v)
  PROVE  RefInv'
<1>1. /\ pc[t] = "out" /\ mode[t] = "rw" /\ w \in Data /\ Store(t, w, v)
      /\ UNCHANGED <<readers, writer, alive, allocs, next, prev, mode, pc, node, slot, known, pre, destroyed>>
  BY DEF TmWrite, Idle, lockVars, listVars, callVars
<1>2. /\ mem' \in [Words -> Contents] /\ mem'[w] = v /\ \A x \in Words \ {w} : mem'[x] = mem[x]
      /\ got' \in [Threads -> SUBSET (Words \X Contents)]
      /\ got'[t] = {} /\ \A u \in Threads \ {t} : got'[u] = got[u]
  BY <1>1, StoreEffect DEF Contents
<1>3. v \notin Segs /\ w \notin Segs /\ w \in Words
  BY <1>1, ReferenceAssumption
<1>4. TypeOK'
  BY <1>1, <1>2 DEF RefInv, TypeOK, Contents
<1>5. PointerInv'
  BY <1>1, <1>2, <1>3 DEF RefInv, PointerInv, Words, Start
<1>6. AddressOf(t)' /\ CallOf(t)'
  BY <1>1, <1>2 DEF RefInv, AddressOf, CallOf
<1>7. ListOf(t)'
  BY <1>1, WriterAlone DEF ListOf
<1> QED  BY <1>1, <1>2, <1>4, <1>5, <1>6, <1>7, OwnStep DEF lockVars

(* tm_alloc *)
LEMMA NewNodeStep ==
  ASSUME RefInv, NEW t \in Threads, NEW w \in Words, NEW s \in Segs, NewNode(t, w, s)
  PROVE  RefInv'
<1>1. /\ pc[t] = "out" /\ mode[t] = "rw" /\ w \in Roots \cup Segs /\ got[t] = {<<w, Zero>>} /\ s \notin alive
      /\ alive' = alive \cup {s} /\ Goto(t, "back")
      /\ prev' = [prev EXCEPT ![s] = Zero] /\ next' = [next EXCEPT ![s] = allocs]
      /\ node' = [node EXCEPT ![t] = s] /\ slot' = [slot EXCEPT ![t] = w]
      /\ UNCHANGED <<readers, writer, mem, allocs, mode, known, got, pre, destroyed>>
  BY DEF NewNode, Idle, lockVars
<1>2. /\ pc' \in [Threads -> {"out", "back", "head", "memset", "publish", "unlink",
                                 "unlink_next", "free", "clear"}]
      /\ pc'[t] = "back" /\ \A u \in Threads \ {t} : pc'[u] = pc[u]
  BY <1>1, GotoEffect
<1>3. /\ node'[t] = s /\ slot'[t] = w
      /\ next'[s] = allocs /\ prev'[s] = Zero
      /\ \A u \in Segs \ {s} : next'[u] = next[u] /\ prev'[u] = prev[u]
      /\ alive \subseteq Segs
  BY <1>1 DEF RefInv, TypeOK
<1>4. TypeOK'
  BY <1>1, <1>2, ZeroType DEF RefInv, TypeOK, Links
<1>5. ~destroyed /\ \A u \in Threads : pc[u] # "clear"
  BY <1>1, WriterAlone
<1>6. \A x \in Words : mem[x] # s
  BY <1>1, <1>5 DEF RefInv, PointerInv
<1>7. PointerInv'
  BY <1>1, <1>5 DEF RefInv, PointerInv
<1>8. AddressOf(t)'
  BY <1>1, <1>2 DEF RefInv, AddressOf
<1>9. w \in Roots \cup alive /\ w # s
  <2>1. w \in known[t]
    BY <1>1, LastRead
  <2>2. w \in Start \cup alive
    BY <1>1, <2>1 DEF RefInv, AddressOf
  <2> QED  BY <1>1, <2>2, ReferenceAssumption DEF Start
<1>10. CallOf(t)'
  BY <1>1, <1>2, <1>3, <1>6, <1>9 DEF CallOf
<1>11. ListOf(t)'
  <2>1. List(alive, allocs, next, prev)
    BY <1>1, WriterAlone DEF ListOf
  <2>0. \A u \in alive : next'[u] = next[u] /\ prev'[u] = prev[u]
    BY <1>1, <1>3
  <2>2. List(alive, allocs, next', prev')
    BY <2>0, <2>1, ListSame
  <2>3. alive' \ {node'[t]} = alive
    BY <1>1, <1>3
  <2> QED  BY <1>1, <1>2, <1>3, <2>2, <2>3 DEF ListOf
<1> QED  BY <1>1, <1>2, <1>4, <1>7, <1>8, <1>10, <1>11, OwnStep DEF lockVars

(* The stores to the list change nothing else. *)
LEMMA ListStep ==
  ASSUME RefInv, NEW t \in Threads, pc[t] # "out",
         NEW l \in {"head", "memset", "unlink_next", "free"}, Goto(t, l),
         pc[t] \in {"back", "head"} <=> l \in {"head", "memset"},
         pc[t] # "publish", pc[t] # "memset", pc[t] # "clear",
         UNCHANGED <<readers, writer, mem, alive, mode, node, slot, known, got, pre, destroyed>>,
         allocs' \in Links, next' \in [Segs -> Links], prev' \in [Segs -> Links],
         ListOf(t)'
  PROVE  RefInv'
<1>1. /\ pc' \in [Threads -> {"out", "back", "head", "memset", "publish", "unlink",
                                 "unlink_next", "free", "clear"}]
      /\ pc'[t] = l /\ \A u \in Threads \ {t} : pc'[u] = pc[u]
  BY GotoEffect
<1>2. mode[t] = "rw"
  BY Calling
<1>3. TypeOK'
  BY <1>1 DEF RefInv, TypeOK
<1>4. \A u \in Threads : pc[u] # "clear" /\ pc'[u] # "clear"
  BY <1>1, <1>2, WriterAlone
<1>5. PointerInv'
  BY <1>4 DEF RefInv, PointerInv
<1>6. AddressOf(t)' /\ CallOf(t)'
  BY <1>1 DEF RefInv, AddressOf, CallOf, TypeOK
<1> QED  BY <1>1, <1>2, <1>3, <1>5, <1>6, OwnStep DEF lockVars

LEMMA LinkBackStep ==
  ASSUME RefInv, NEW t \in Threads, LinkBack(t)
  PROVE  RefInv'
<1>1. /\ pc[t] = "back" /\ Goto(t, "head")
      /\ prev' = [s \in Segs |-> IF s = next[node[t]] THEN node[t] ELSE prev[s]]
      /\ UNCHANGED <<readers, writer, mem, alive, allocs, next, mode, node, slot, known, got, pre, destroyed>>
  BY DEF LinkBack, lockVars
<1>2. node[t] \in Segs /\ node[t] \in alive /\ alive \subseteq Segs
  BY <1>1, Calling
<1>3. next' \in [Segs -> Links] /\ prev' \in [Segs -> Links] /\ allocs' \in Links
  BY <1>1, <1>2 DEF RefInv, TypeOK, Links
<1>4. List(alive, node[t], next, prev')
  <2> DEFINE S == alive \ {node[t]}
  <2>1. List(S, allocs, next, prev) /\ next[node[t]] = allocs /\ prev[node[t]] = Zero
    BY <1>1, Calling, WriterAlone DEF ListOf
  <2>2. S \in SUBSET Segs /\ node[t] \in Segs \ S /\ S \cup {node[t]} = alive
    BY <1>2
  <2>3. prev' = [s \in Segs |-> IF s = allocs THEN node[t] ELSE prev[s]]
    BY <1>1, <2>1
  <2> HIDE DEF S
  <2>4. List(S \cup {node[t]}, node[t], next, prev')
    BY <2>1, <2>2, <2>3, Prepend
  <2> QED  BY <2>2, <2>4
<1>5. ListOf(t)'
  <2>1. pc'[t] = "head"
    BY <1>1, GotoEffect
  <2> QED  BY <1>1, <1>4, <2>1 DEF ListOf
<1> QED  BY <1>1, <1>3, <1>5, ListStep

LEMMA LinkHeadStep ==
  ASSUME RefInv, NEW t \in Threads, LinkHead(t)
  PROVE  RefInv'
<1>1. /\ pc[t] = "head" /\ Goto(t, "memset") /\ allocs' = node[t]
      /\ UNCHANGED <<readers, writer, mem, alive, next, prev, mode, node, slot, known, got, pre, destroyed>>
  BY DEF LinkHead, lockVars
<1>2. next' \in [Segs -> Links] /\ prev' \in [Segs -> Links] /\ allocs' \in Links
  BY <1>1, Calling DEF RefInv, TypeOK, Links
<1>3. List(alive, node[t], next, prev) /\ pc'[t] = "memset"
  BY <1>1, Calling, WriterAlone, GotoEffect DEF ListOf
<1>4. ListOf(t)'
  BY <1>1, <1>3 DEF ListOf
<1> QED  BY <1>1, <1>2, <1>4, ListStep

LEMMA ZeroStep ==
  ASSUME RefInv, NEW t \in Threads, ZeroSegment(t)
  PROVE  RefInv'
<1>1. /\ pc[t] = "memset" /\ Goto(t, "publish") /\ Store(t, node[t], Zero)
      /\ known' = [known EXCEPT ![t] = @ \cup {node[t]}]
      /\ UNCHANGED <<readers, writer, alive, allocs, next, prev, mode, node, slot, pre, destroyed>>
  BY DEF ZeroSegment, lockVars, listVars
<1>2. /\ mode[t] = "rw" /\ node[t] \in alive /\ node[t] \in Words /\ node[t] \in Segs /\ alive \subseteq Segs
      /\ Zero \in Contents
  BY <1>1, Calling, ZeroType DEF Contents
<1>3. /\ pc' \in [Threads -> {"out", "back", "head", "memset", "publish", "unlink",
                                 "unlink_next", "free", "clear"}]
      /\ pc'[t] = "publish" /\ \A u \in Threads \ {t} : pc'[u] = pc[u]
  BY <1>1, GotoEffect
<1>4. /\ mem' \in [Words -> Contents]
      /\ mem'[node[t]] = Zero /\ \A x \in Words \ {node[t]} : mem'[x] = mem[x]
      /\ got' \in [Threads -> SUBSET (Words \X Contents)]
      /\ got'[t] = {} /\ \A u \in Threads \ {t} : got'[u] = got[u]
  BY <1>1, <1>2, StoreEffect
<1>5. /\ known' \in [Threads -> SUBSET Words] /\ known'[t] = known[t] \cup {node[t]}
      /\ \A u \in Threads \ {t} : known'[u] = known[u]
  BY <1>1, <1>2 DEF RefInv, TypeOK
<1>6. TypeOK'
  BY <1>1, <1>3, <1>4, <1>5 DEF RefInv, TypeOK, Contents
<1>7. \A u \in Threads : pc[u] # "clear" /\ pc'[u] # "clear"
  BY <1>1, <1>2, <1>3, WriterAlone
<1>8. PointerInv'
  <2>1. node[t] \notin Data
    BY <1>2, ReferenceAssumption
  <2> QED  BY <1>1, <1>2, <1>4, <1>7, <2>1, ZeroType DEF RefInv, PointerInv, Words, Start
<1>9. AddressOf(t)'
  BY <1>1, <1>2, <1>3, <1>4, <1>5 DEF RefInv, AddressOf
<1>10. CallOf(t)'
  <2>1. \A x \in Words : mem'[x] # node[t]
    BY <1>1, <1>2, <1>4, ZeroType DEF RefInv, CallOf
  <2> QED  BY <1>1, <1>3, <2>1 DEF RefInv, CallOf
<1>11. ListOf(t)'
  BY <1>1, <1>2, <1>3, WriterAlone DEF ListOf
<1> QED  BY <1>1, <1>2, <1>3, <1>4, <1>5, <1>6, <1>8, <1>9, <1>10, <1>11, OwnStep DEF lockVars

LEMMA PublishStep ==
  ASSUME RefInv, NEW t \in Threads, Publish(t)
  PROVE  RefInv'
<1>1. /\ pc[t] = "publish" /\ Store(t, slot[t], node[t]) /\ Return(t)
      /\ UNCHANGED <<readers, writer, alive, allocs, next, prev, mode, known, pre, destroyed>>
  BY DEF Publish, lockVars, listVars
<1>2. /\ mode[t] = "rw" /\ node[t] \in alive /\ node[t] \in Segs /\ slot[t] \in Words
      /\ slot[t] \in Roots \cup alive /\ node[t] \in Contents /\ alive \subseteq Segs
      /\ \A x \in Words : mem[x] # node[t]
  BY <1>1, Calling DEF Contents, RefInv, CallOf
<1>3. /\ pc' \in [Threads -> {"out", "back", "head", "memset", "publish", "unlink",
                                 "unlink_next", "free", "clear"}]
      /\ pc'[t] = "out" /\ \A u \in Threads \ {t} : pc'[u] = pc[u]
      /\ node' \in [Threads -> Links] /\ slot' \in [Threads -> Words \cup {Zero}]
  BY <1>1, ReturnEffect
<1>4. /\ mem' \in [Words -> Contents]
      /\ mem'[slot[t]] = node[t] /\ \A x \in Words \ {slot[t]} : mem'[x] = mem[x]
      /\ got' \in [Threads -> SUBSET (Words \X Contents)]
      /\ got'[t] = {} /\ \A u \in Threads \ {t} : got'[u] = got[u]
  BY <1>1, <1>2, StoreEffect
<1>5. TypeOK'
  BY <1>1, <1>3, <1>4 DEF RefInv, TypeOK, Contents
<1>6. \A u \in Threads : pc[u] # "clear" /\ pc'[u] # "clear"
  BY <1>1, <1>2, <1>3, WriterAlone
<1>7. PointerInv'
  <2>1. slot[t] \notin Data /\ slot[t] \notin Segs \ alive /\ Data \subseteq Words /\ Segs \subseteq Words
    BY <1>2, ReferenceAssumption DEF Words, Start
  <2>2. ~destroyed
    BY <1>2, WriterAlone
  <2>3. \A x, y \in Words : mem'[x] \in Segs /\ mem'[x] = mem'[y] => x = y
    BY <1>2, <1>4, <2>2 DEF RefInv, PointerInv
  <2>4. \A x \in Words : mem'[x] \in Segs => mem'[x] \in alive
    BY <1>2, <1>4, <1>6, <2>2 DEF RefInv, PointerInv
  <2>5. /\ \A x \in Data : mem'[x] \notin Segs
        /\ \A s \in Segs \ alive : mem'[s] = Garbage
    BY <1>4, <2>1, <2>2 DEF RefInv, PointerInv
  <2> QED  BY <1>1, <2>3, <2>4, <2>5 DEF PointerInv
<1>8. AddressOf(t)' /\ CallOf(t)'
  BY <1>1, <1>3, <1>4 DEF RefInv, AddressOf, CallOf
<1>9. ListOf(t)'
  BY <1>1, <1>2, <1>3, WriterAlone DEF ListOf
<1> QED  BY <1>1, <1>2, <1>3, <1>4, <1>5, <1>7, <1>8, <1>9, OwnStep DEF lockVars

(* tm_free *)
LEMMA FreeStep ==
  ASSUME RefInv, NEW t \in Threads, NEW w \in Words, NEW s \in Segs, TmFree(t, w, s)
  PROVE  RefInv'
<1>1. /\ pc[t] = "out" /\ mode[t] = "rw" /\ got[t] = {<<w, s>>} /\ mem[s] = Zero /\ Goto(t, "unlink")
      /\ node' = [node EXCEPT ![t] = s] /\ slot' = [slot EXCEPT ![t] = w]
      /\ UNCHANGED <<readers, writer, mem, alive, allocs, next, prev, mode, known, got, pre, destroyed>>
  BY DEF TmFree, Idle, lockVars, listVars
<1>2. /\ pc' \in [Threads -> {"out", "back", "head", "memset", "publish", "unlink",
                                 "unlink_next", "free", "clear"}]
      /\ pc'[t] = "unlink" /\ \A u \in Threads \ {t} : pc'[u] = pc[u]
  BY <1>1, GotoEffect
<1>3. node'[t] = s /\ slot'[t] = w
  BY <1>1 DEF RefInv, TypeOK
<1>4. TypeOK'
  BY <1>1, <1>2 DEF RefInv, TypeOK, Links
<1>5. ~destroyed /\ \A u \in Threads : pc[u] # "clear" /\ pc'[u] # "clear"
  BY <1>1, <1>2, WriterAlone
<1>6. PointerInv'
  BY <1>1, <1>5 DEF RefInv, PointerInv
<1>7. mem[w] = s /\ w \in known[t]
  BY <1>1, LastRead
<1>8. w \in Roots \cup alive /\ w # s /\ s \in alive
  <2>1. w \in Start \cup alive
    BY <1>1, <1>7 DEF RefInv, AddressOf
  <2>2. w \notin Data /\ s \in alive
    BY <1>5, <1>7 DEF RefInv, PointerInv
  <2> QED  BY <1>1, <1>7, <2>1, <2>2, ZeroType DEF Start
<1>9. AddressOf(t)' /\ CallOf(t)'
  BY <1>1, <1>2, <1>3, <1>7, <1>8 DEF RefInv, AddressOf, CallOf
<1>10. ListOf(t)'
  BY <1>1, <1>2, WriterAlone DEF ListOf
<1> QED  BY <1>1, <1>2, <1>4, <1>6, <1>9, <1>10, OwnStep DEF lockVars

LEMMA UnlinkPrevStep ==
  ASSUME RefInv, NEW t \in Threads, UnlinkPrev(t)
  PROVE  RefInv'
<1> DEFINE s == node[t]
<1>1. /\ pc[t] = "unlink" /\ Goto(t, "unlink_next")
      /\ IF prev[s] # Zero
         THEN next' = [next EXCEPT ![prev[s]] = next[s]] /\ UNCHANGED allocs
         ELSE allocs' = next[s] /\ UNCHANGED next
      /\ UNCHANGED <<readers, writer, mem, alive, prev, mode, node, slot, known, got, pre, destroyed>>
  BY DEF UnlinkPrev, lockVars
<1>2. s \in Segs /\ s \in alive /\ alive \subseteq Segs /\ List(alive, allocs, next, prev)
  BY <1>1, Calling, WriterAlone DEF ListOf
<1>3. next' \in [Segs -> Links] /\ prev' \in [Segs -> Links] /\ allocs' \in Links
  BY <1>1, <1>2 DEF RefInv, TypeOK, Links
<1> DEFINE F == PrevWithout(t)'
<1>4. List(alive \ {s}, allocs', next', F)
  <2>1. /\ allocs' = IF prev[s] # Zero THEN allocs ELSE next[s]
        /\ next' = IF prev[s] # Zero THEN [next EXCEPT ![prev[s]] = next[s]] ELSE next
        /\ F = [u \in Segs |-> IF u = next'[s] THEN prev[s] ELSE prev[u]]
    BY <1>1 DEF PrevWithout
  <2>2. next \in [Segs -> Links]
    BY DEF RefInv, TypeOK
  <2>3. alive \in SUBSET Segs /\ s \in alive /\ List(alive, allocs, next, prev)
    BY <1>2
  <2> HIDE DEF s, F
  <2> QED  BY <2>1, <2>2, <2>3, Remove
<1>5. ListOf(t)'
  <2>1. pc'[t] = "unlink_next"
    BY <1>1, GotoEffect
  <2> QED  BY <1>1, <1>4, <2>1 DEF ListOf
<1> QED  BY <1>1, <1>3, <1>5, ListStep

LEMMA UnlinkNextStep ==
  ASSUME RefInv, NEW t \in Threads, UnlinkNext(t)
  PROVE  RefInv'
<1>1. /\ pc[t] = "unlink_next" /\ Goto(t, "free") /\ prev' = PrevWithout(t)
      /\ UNCHANGED <<readers, writer, mem, alive, allocs, next, mode, node, slot, known, got, pre, destroyed>>
  BY DEF UnlinkNext, PrevWithout, lockVars
<1>2. node[t] \in Segs /\ List(alive \ {node[t]}, allocs, next, prev')
  BY <1>1, Calling, WriterAlone DEF ListOf
<1>3. next' \in [Segs -> Links] /\ prev' \in [Segs -> Links] /\ allocs' \in Links
  BY <1>1, <1>2 DEF RefInv, TypeOK, Links, PrevWithout
<1>4. ListOf(t)'
  <2>1. pc'[t] = "free"
    BY <1>1, GotoEffect
  <2> QED  BY <1>1, <1>2, <2>1 DEF ListOf
<1> QED  BY <1>1, <1>3, <1>4, ListStep

LEMMA FreeNodeStep ==
  ASSUME RefInv, NEW t \in Threads, FreeNode(t)
  PROVE  RefInv'
<1>1. /\ pc[t] = "free" /\ Goto(t, "clear") /\ Store(t, node[t], Garbage)
      /\ alive' = alive \ {node[t]}
      /\ next' = [next EXCEPT ![node[t]] = Zero] /\ prev' = [prev EXCEPT ![node[t]] = Zero]
      /\ UNCHANGED <<readers, writer, allocs, mode, node, slot, known, pre, destroyed>>
  BY DEF FreeNode, lockVars
<1>2. /\ mode[t] = "rw" /\ node[t] \in alive /\ node[t] \in Segs /\ slot[t] \in Words /\ node[t] \in Words
      /\ slot[t] \in Roots \cup alive /\ slot[t] # node[t] /\ alive \subseteq Segs
      /\ mem[slot[t]] = node[t] /\ Garbage \in Contents
  BY <1>1, Calling DEF Contents, RefInv, CallOf
<1>3. /\ pc' \in [Threads -> {"out", "back", "head", "memset", "publish", "unlink",
                                 "unlink_next", "free", "clear"}]
      /\ pc'[t] = "clear" /\ \A u \in Threads \ {t} : pc'[u] = pc[u]
  BY <1>1, GotoEffect
<1>4. /\ mem' \in [Words -> Contents]
      /\ mem'[node[t]] = Garbage /\ \A x \in Words \ {node[t]} : mem'[x] = mem[x]
      /\ got' \in [Threads -> SUBSET (Words \X Contents)]
      /\ got'[t] = {} /\ \A u \in Threads \ {t} : got'[u] = got[u]
  BY <1>1, <1>2, StoreEffect
<1>5. TypeOK'
  BY <1>1, <1>2, <1>3, <1>4, ZeroType DEF RefInv, TypeOK, Contents
<1>6. ~destroyed /\ \A u \in Threads : pc[u] # "clear"
  BY <1>1, <1>2, WriterAlone
<1>7. PointerInv'
  <2>1. Garbage \notin Segs /\ node[t] \notin Data /\ Data \subseteq Words /\ Segs \subseteq Words
    BY <1>2, ReferenceAssumption DEF Words, Start
  <2>2. \A x, y \in Words : mem'[x] \in Segs /\ mem'[x] = mem'[y] => x = y
    BY <1>4, <1>6, <2>1 DEF RefInv, PointerInv
  <2>3. \A x \in Words : mem'[x] \in Segs \ alive' => mem'[x] = node[t] /\ x = slot[t]
    <3>1. \A x \in Words : mem[x] \in Segs => mem[x] \in alive
      BY <1>6 DEF RefInv, PointerInv
    <3>2. \A x \in Words : mem[x] = node[t] => x = slot[t]
      BY <1>2, <1>6 DEF RefInv, PointerInv
    <3> QED  BY <1>1, <1>4, <2>1, <3>1, <3>2
  <2>4. /\ \A x \in Data : mem'[x] \notin Segs
        /\ \A u \in Segs \ alive' : mem'[u] = Garbage
    BY <1>1, <1>4, <1>6, <2>1 DEF RefInv, PointerInv
  <2> QED  BY <1>1, <1>3, <2>2, <2>3, <2>4 DEF PointerInv
<1>8. AddressOf(t)' /\ CallOf(t)'
  BY <1>1, <1>2, <1>3, <1>4 DEF RefInv, AddressOf, CallOf
<1>9. ListOf(t)'
  <2>1. List(alive', allocs, next, prev)
    BY <1>1, <1>2, WriterAlone DEF ListOf
  <2>2. \A u \in alive' : next'[u] = next[u] /\ prev'[u] = prev[u]
    BY <1>1, <1>2 DEF RefInv, TypeOK
  <2>3. List(alive', allocs, next', prev')
    BY <2>1, <2>2, ListSame
  <2> QED  BY <1>1, <1>3, <2>3 DEF ListOf
<1> QED  BY <1>1, <1>2, <1>3, <1>4, <1>5, <1>7, <1>8, <1>9, OwnStep DEF lockVars

LEMMA ClearStep ==
  ASSUME RefInv, NEW t \in Threads, ClearPointer(t)
  PROVE  RefInv'
<1>1. /\ pc[t] = "clear" /\ Store(t, slot[t], Zero) /\ Return(t)
      /\ known' = [known EXCEPT ![t] = @ \ {node[t]}]
      /\ UNCHANGED <<readers, writer, alive, allocs, next, prev, mode, pre, destroyed>>
  BY DEF ClearPointer, lockVars, listVars
<1>2. /\ mode[t] = "rw" /\ slot[t] \in Words /\ slot[t] \in Roots \cup alive /\ Zero \in Contents
      /\ alive \subseteq Segs
  BY <1>1, Calling, ZeroType DEF Contents
<1>3. /\ pc' \in [Threads -> {"out", "back", "head", "memset", "publish", "unlink",
                                 "unlink_next", "free", "clear"}]
      /\ pc'[t] = "out" /\ \A u \in Threads \ {t} : pc'[u] = pc[u]
      /\ node' \in [Threads -> Links] /\ slot' \in [Threads -> Words \cup {Zero}]
  BY <1>1, ReturnEffect
<1>4. /\ mem' \in [Words -> Contents]
      /\ mem'[slot[t]] = Zero /\ \A x \in Words \ {slot[t]} : mem'[x] = mem[x]
      /\ got' \in [Threads -> SUBSET (Words \X Contents)]
      /\ got'[t] = {} /\ \A u \in Threads \ {t} : got'[u] = got[u]
  BY <1>1, <1>2, StoreEffect
<1>5. /\ known' \in [Threads -> SUBSET Words] /\ known'[t] = known[t] \ {node[t]}
      /\ \A u \in Threads \ {t} : known'[u] = known[u]
  BY <1>1 DEF RefInv, TypeOK
<1>6. TypeOK'
  BY <1>1, <1>3, <1>4, <1>5 DEF RefInv, TypeOK, Contents
<1>7. ~destroyed /\ \A u \in Threads \ {t} : pc[u] = "out"
  BY <1>2, WriterAlone
<1>8. PointerInv'
  <2>1. /\ slot[t] \notin Segs \ alive /\ Data \subseteq Words /\ Segs \subseteq Words
    BY <1>2, ReferenceAssumption DEF Words, Start
  <2>2. \A x, y \in Words : mem'[x] \in Segs /\ mem'[x] = mem'[y] => x = y
    BY <1>4, <1>7, ZeroType DEF RefInv, PointerInv
  <2>3. \A x \in Words : mem'[x] \in Segs => mem'[x] \in alive
    <3>1. \A x \in Words : mem[x] \in Segs \ alive => x = slot[t]
      BY <1>7 DEF RefInv, PointerInv
    <3> QED  BY <1>4, <3>1, ZeroType
  <2>4. /\ \A x \in Data : mem'[x] \notin Segs
        /\ \A u \in Segs \ alive : mem'[u] = Garbage
    BY <1>4, <1>7, <2>1, ZeroType DEF RefInv, PointerInv
  <2> QED  BY <1>1, <2>2, <2>3, <2>4 DEF PointerInv
<1>9. AddressOf(t)' /\ CallOf(t)'
  BY <1>1, <1>2, <1>3, <1>4, <1>5 DEF RefInv, AddressOf, CallOf
<1>10. ListOf(t)'
  BY <1>1, <1>2, <1>3, WriterAlone DEF ListOf
<1> QED  BY <1>1, <1>2, <1>3, <1>4, <1>5, <1>6, <1>8, <1>9, <1>10, OwnStep DEF lockVars

(* When nobody has a transaction all segments are listed. *)
LEMMA AllListed ==
  ASSUME RefInv, ~destroyed, writer = None
  PROVE  List(alive, allocs, next, prev) /\ alive \in SUBSET Segs
<1>1. \A t \in Threads : pc[t] = "out"
  BY ReferenceAssumption DEF RefInv, LockInv
<1> QED  BY <1>1 DEF RefInv, ListInv, TypeOK

LEMMA DestroyStep ==
  ASSUME RefInv, TmDestroy
  PROVE  RefInv'
<1>1. /\ ~destroyed /\ destroyed' = TRUE /\ alive' = alive \ Listed /\ allocs' = Zero /\ pre' = Shown
      /\ \A t \in Threads : mode[t] = "none"
      /\ UNCHANGED <<readers, writer, mem, next, prev, mode, pc, node, slot, known, got>>
  BY DEF TmDestroy, lockVars, callVars
<1>2. writer = None
  BY <1>1 DEF RefInv, LockInv, TypeOK
<1>3. alive' = {}
  BY <1>1, <1>2, AllListed, WalkList
<1>4. TypeOK'
  BY <1>1, <1>3, ZeroType DEF RefInv, TypeOK, Shown
<1>5. LockInv' /\ PointerInv' /\ ListInv'
  BY <1>1, <1>3 DEF RefInv, LockInv, PointerInv, ListInv
<1>6. \A t \in Threads : AddressOf(t)' /\ CallOf(t)'
  BY <1>1 DEF RefInv, AddressOf, CallOf, LockInv
<1> QED  BY <1>4, <1>5, <1>6 DEF RefInv

LEMMA Start0 ==
  ASSUME Init
  PROVE  RefInv
<1> USE DEF Init
<1>1. TypeOK
  <2>1. mem \in [Words -> Values \cup Segs \cup {Garbage}]
    BY ZeroType
  <2>2. pre \in [Words -> Values \cup Segs \cup {Garbage, Free}]
    BY <2>1 DEF Shown
  <2> QED  BY <2>1, <2>2, ZeroType DEF TypeOK
<1>2. LockInv
  BY ReferenceAssumption DEF LockInv
<1>3. PointerInv
  BY ZeroType, ReferenceAssumption DEF PointerInv, Words, Start
<1>4. ListInv
  <2> DEFINE q == [i \in 1 .. 0 |-> Zero]
  <2>1. IsList(q, 0, {}, Zero, next, prev) /\ q \in [1 .. 0 -> {}]
    BY DEF IsList
  <2>2. 0 \in 0 .. Cardinality(Segs)
    BY FS_CardinalityType, ReferenceAssumption
  <2> HIDE DEF q
  <2>3. List({}, Zero, next, prev)
    BY <2>1, <2>2 DEF List
  <2> QED  BY <2>3 DEF ListInv
<1>5. \A t \in Threads : AddressOf(t) /\ CallOf(t)
  BY DEF AddressOf, CallOf
<1> QED  BY <1>1, <1>2, <1>3, <1>4, <1>5 DEF RefInv

LEMMA Unchanged ==
  ASSUME RefInv, UNCHANGED vars
  PROVE  RefInv'
<1>1. UNCHANGED <<readers, writer, mem, alive, allocs, next, prev, mode, pc, node, slot, known, got, pre, destroyed>>
  BY DEF vars, lockVars, listVars, callVars
<1>2. TypeOK' /\ LockInv' /\ PointerInv' /\ ListInv'
  BY <1>1 DEF RefInv, TypeOK, LockInv, PointerInv, ListInv, ListOf, PrevWithout
<1>3. \A t \in Threads : AddressOf(t)' /\ CallOf(t)'
  BY <1>1 DEF RefInv, AddressOf, CallOf
<1> QED  BY <1>2, <1>3 DEF RefInv

LEMMA Steps ==
  ASSUME RefInv, [Next]_vars
  PROVE  RefInv'
  BY ReaderStep, WriteStep, NewNodeStep, LinkBackStep, LinkHeadStep, ZeroStep, PublishStep, FreeStep,
     UnlinkPrevStep, UnlinkNextStep, FreeNodeStep, ClearStep, DestroyStep, Unchanged
  DEF Next, Call, Ended


-----------------------------------------------------------------------------
(* What the run checks                                                     *)

(* Every variable keeps its type, with any number of threads, words and     *)
(* segments: the lock, the list and the calls under way of reference/tm.c.  *)
THEOREM TypesKept == Spec => []TypeOK
<1>1. Spec => []RefInv
  BY Start0, Steps, PTL DEF Spec
<1>2. RefInv => TypeOK
  BY DEF RefInv
<1> QED  BY <1>1, <1>2, PTL

(* The list of segments of reference/tm.c is whole whenever no writer is at *)
(* work, however many were allocated and freed before, and in what order:   *)
(* tm_destroy walks to every segment that was not freed, and comes to the   *)
(* end within as many rounds as there are segments.                         *)
THEOREM ListWhole == Spec => []ListOfSegments
<1>1. Spec => []RefInv
  BY Start0, Steps, PTL DEF Spec
<1>2. RefInv => ListOfSegments
  <2> SUFFICES ASSUME RefInv PROVE ListOfSegments
    OBVIOUS
  <2>1. CASE destroyed
    BY <2>1 DEF RefInv, ListInv, ListOfSegments
  <2>2. CASE writer = None /\ ~destroyed
    <3>1. List(alive, allocs, next, prev) /\ alive \in SUBSET Segs
      BY <2>2, AllListed
    <3>2. Listed = alive /\ Walk[Cardinality(Segs)] = Zero
      BY <3>1, WalkList
    <3>3. \A s \in alive : IF s = allocs THEN prev[s] = Zero
                           ELSE prev[s] \in alive /\ next[prev[s]] = s
      BY <3>1, Neighbours
    <3> QED  BY <2>2, <3>2, <3>3 DEF ListOfSegments
  <2> QED  BY <2>1, <2>2 DEF ListOfSegments
<1> QED  BY <1>1, <1>2, PTL

(* No transaction has the address of a segment that tm_free of              *)
(* reference/tm.c has given back, although it gives back at once: only      *)
(* what runs alone frees, and who comes later finds no pointer to it.       *)
THEOREM NobodyDangles == Spec => []NoDanglingAddress
<1>1. Spec => []RefInv
  BY Start0, Steps, PTL DEF Spec
<1>2. RefInv => NoDanglingAddress
  BY DEF RefInv, AddressOf, NoDanglingAddress
<1> QED  BY <1>1, <1>2, PTL

-----------------------------------------------------------------------------
(* The library as an atomic memory                                         *)

(* What the transactions of the abstract memory have. *)
Used == [t \in Threads |-> IF mode[t] = "none" THEN {} ELSE Words]
Snap == [t \in Threads |-> IF mode[t] = "none" THEN NoView ELSE Committed]
View == [t \in Threads |-> CASE mode[t] = "none" -> NoView
                             [] mode[t] = "ro" -> Committed
                             [] mode[t] = "rw" -> Shown]

LEMMA AtomicBegin ==
  ASSUME NEW t \in Threads, NEW m \in {"ro", "rw"}, mode[t] = "none",
         mode' = [mode EXCEPT ![t] = m], UNCHANGED <<Committed, got>>,
         Used' = [Used EXCEPT ![t] = Words],
         Snap' = [Snap EXCEPT ![t] = Committed], View' = [View EXCEPT ![t] = Committed]
  PROVE  Atomic!Next
<1>1. Words \in SUBSET Atomic!Words
  BY DEF Words, Atomic!Words
<1>2. Atomic!Begin(t, m, Words)
  BY DEF Atomic!Begin, Used, Snap, View
<1> QED  BY <1>1, <1>2 DEF Atomic!Next

LEMMA AtomicRead ==
  ASSUME NEW t \in Threads, NEW w \in Words, mode[t] # "none", View[t][w] # Free,
         got' = [got EXCEPT ![t] = {<<w, View[t][w]>>}],
         UNCHANGED <<Committed, mode, Snap, View>>,
         Used' = [Used EXCEPT ![t] = @ \cup {w}]
  PROVE  Atomic!Next
<1>1. w \in Atomic!Words
  BY DEF Words, Atomic!Words
<1>2. Atomic!Read(t, w)
  BY DEF Atomic!Read, Atomic!Use, Used, Snap, View
<1> QED  BY <1>1, <1>2 DEF Atomic!Next

LEMMA AtomicCommit ==
  ASSUME NEW t \in Threads, mode[t] # "none",
         \/ mode[t] = "ro" /\ UNCHANGED Committed
         \/ /\ mode[t] = "rw"
            /\ \A w \in Used[t] : Snap[t][w] = Committed[w]
            /\ Committed' = [w \in Words |-> IF w \in Used[t] THEN View[t][w] ELSE Committed[w]],
         mode' = [mode EXCEPT ![t] = "none"],
         Used' = [Used EXCEPT ![t] = {}], Snap' = [Snap EXCEPT ![t] = NoView],
         View' = [View EXCEPT ![t] = NoView], got' = [got EXCEPT ![t] = {}]
  PROVE  Atomic!Next
<1>1. Atomic!Leave(t)
  BY DEF Atomic!Leave, Atomic!NoView, Atomic!Words, NoView, Words, Used, Snap, View
<1>2. Atomic!Commit(t)
  BY <1>1 DEF Atomic!Commit, Atomic!Current, Atomic!Merged, Atomic!Words, Words, Used, Snap, View
<1> QED  BY <1>2 DEF Atomic!Next

LEMMA AtomicChange ==
  ASSUME NEW t \in Threads, NEW w \in Words, NEW c, mode[t] = "rw",
         got' = [got EXCEPT ![t] = {}], UNCHANGED <<Committed, mode, Snap>>,
         View' = [View EXCEPT ![t][w] = c],
         Used' = [Used EXCEPT ![t] = @ \cup {w}]
  PROVE  /\ Atomic!Change(t, w, c)
         /\ View[t][w] # Free /\ c \in Values \cup Segs => Atomic!Next
         /\ View[t][w] # Free /\ c = Free /\ w \in Segs => Atomic!Next
         /\ View[t][w] = Free /\ c = Zero /\ w \in Segs => Atomic!Next
<1>1. w \in Atomic!Words
  BY DEF Words, Atomic!Words
<1>2. Atomic!Change(t, w, c)
  BY DEF Atomic!Change, Atomic!Use, Used, Snap, View
<1>3. View[t][w] # Free /\ c \in Values \cup Segs => Atomic!Next
  BY <1>1, <1>2 DEF Atomic!Write, Atomic!Next, View
<1>4. View[t][w] # Free /\ c = Free /\ w \in Segs => Atomic!Next
  BY <1>2 DEF Atomic!Release, Atomic!Next, View
<1>5. View[t][w] = Free /\ c = Zero /\ w \in Segs => Atomic!Next
  BY <1>2 DEF Atomic!Alloc, Atomic!Next, View
<1> QED  BY <1>2, <1>3, <1>4, <1>5

LEMMA AtomicStutter ==
  ASSUME UNCHANGED <<Committed, Shown, mode, got>>
  PROVE  UNCHANGED Atomic!vars
  BY DEF Atomic!vars

(* The memory shows the first segment and what tm_alloc has returned. *)
LEMMA Shows ==
  ASSUME RefInv
  PROVE  /\ \A w \in Words : mem[w] # Free
         /\ Shown = [w \in Words |-> IF w \in Start \cup (alive \ Allocating) THEN mem[w] ELSE Free]
         /\ Start \cap Segs = {} /\ Words = Start \cup Segs /\ alive \subseteq Segs
  BY ReferenceAssumption DEF RefInv, TypeOK, Shown, Words, Start

(* Only the writer can be allocating. *)
LEMMA WriterAllocates ==
  ASSUME RefInv, NEW t \in Threads, mode[t] = "rw"
  PROVE  Allocating = IF pc[t] \in {"back", "head", "memset"} THEN {node[t]} ELSE {}
  BY WriterAlone DEF Allocating

LEMMA NobodyAllocates ==
  ASSUME RefInv, writer = None
  PROVE  Allocating = {} /\ \A t \in Threads : pc[t] = "out" /\ mode[t] # "rw"
  BY ReferenceAssumption DEF RefInv, LockInv, Allocating

(* With a writer the committed memory is what the writer found. *)
LEMMA CommittedIs ==
  ASSUME RefInv, NEW t \in Threads, mode[t] # "none"
  PROVE  /\ ~destroyed
         /\ mode[t] = "rw" => Committed = pre
         /\ mode[t] = "ro" => writer = None /\ Committed = Shown
  BY WriterAlone DEF RefInv, LockInv, Committed

LEMMA Views ==
  ASSUME RefInv
  PROVE  \A t \in Threads :
           /\ Used[t] = IF mode[t] = "none" THEN {} ELSE Words
           /\ Snap[t] = IF mode[t] = "none" THEN NoView ELSE Committed
           /\ mode[t] = "none" => View[t] = NoView
           /\ mode[t] # "none" => View[t] = Shown
<1>1. ASSUME NEW t \in Threads PROVE mode[t] \in {"none", "ro", "rw"}
  BY DEF RefInv, TypeOK
<1>2. ASSUME NEW t \in Threads, mode[t] = "ro" PROVE Committed = Shown
  BY <1>2, CommittedIs
<1> QED  BY <1>1, <1>2 DEF Used, Snap, View

LEMMA AtomicStart ==
  ASSUME Init
  PROVE  Atomic!Init
<1>1. Committed = [w \in Words |-> IF w \in Start THEN Zero ELSE Free]
  <2>1. Committed = Shown /\ mem = [w \in Words |-> IF w \in Start THEN Zero ELSE Garbage] /\ alive = {}
    BY DEF Init, Committed
  <2>2. \A w \in Words : w \in Start => mem[w] = Zero
    BY <2>1
  <2> QED  BY <2>1, <2>2 DEF Shown
<1>2. \A t \in Threads : mode[t] = "none"
  BY DEF Init
<1> QED  BY <1>1, <1>2 DEF Init, Atomic!Init, Atomic!NoView, Atomic!Words, NoView, Words

LEMMA BeginImplements ==
  ASSUME RefInv, RefInv', NEW t \in Threads, NEW m \in {"ro", "rw"}, Begin(t, m), writer = None,
         m = "ro" => UNCHANGED <<writer, pre>>,
         m = "rw" => writer' = t /\ pre' = Shown /\ readers = {}
  PROVE  Atomic!Next
<1>1. /\ mode[t] = "none" /\ ~destroyed /\ mode' = [mode EXCEPT ![t] = m]
      /\ UNCHANGED <<mem, alive, pc, node, got, destroyed>>
  BY DEF Begin, callVars
<1>2. Shown' = Shown
  BY <1>1 DEF Shown, Allocating
<1>3. Committed = Shown /\ Committed' = Shown
  <2>1. m = "rw" => writer' # None
    BY ReferenceAssumption
  <2> QED  BY <1>1, <1>2, <2>1 DEF Committed
<1>4. mode'[t] = m /\ \A u \in Threads \ {t} : mode'[u] = mode[u]
  BY <1>1 DEF RefInv, TypeOK
<1>5. Used' = [Used EXCEPT ![t] = Words]
  BY <1>4 DEF Used
<1>6. Snap' = [Snap EXCEPT ![t] = Committed]
  BY <1>3, <1>4 DEF Snap
<1>7. View' = [View EXCEPT ![t] = Committed]
  <2>1. View'[t] = Committed
    BY <1>2, <1>3, <1>4 DEF View
  <2>2. ASSUME NEW u \in Threads \ {t} PROVE View'[u] = View[u]
    BY <1>2, <1>3, <1>4, NobodyAllocates DEF View, RefInv, TypeOK
  <2>3. /\ View \in [Threads -> {NoView, Committed, Shown}]
        /\ View' \in [Threads -> {NoView, Committed', Shown'}]
    BY DEF View, RefInv, TypeOK
  <2> QED  BY <2>1, <2>2, <2>3
<1> QED  BY <1>1, <1>3, <1>5, <1>6, <1>7, AtomicBegin

LEMMA EndImplements ==
  ASSUME RefInv, RefInv', NEW t \in Threads, TmEnd(t)
  PROVE  Atomic!Next
<1>1. /\ pc[t] = "out" /\ mode[t] # "none" /\ mode' = [mode EXCEPT ![t] = "none"]
      /\ got' = [got EXCEPT ![t] = {}]
      /\ mode[t] = "ro" => UNCHANGED writer
      /\ mode[t] # "ro" => writer' = None
      /\ UNCHANGED <<mem, alive, pc, node, pre, destroyed>>
  BY DEF TmEnd, Idle, callVars
<1>2. Shown' = Shown /\ Committed' = Shown /\ ~destroyed
  <2>1. Shown' = Shown
    BY <1>1 DEF Shown, Allocating
  <2>2. ~destroyed /\ writer' = None
    BY <1>1, CommittedIs
  <2> QED  BY <1>1, <2>1, <2>2 DEF Committed
<1>3. mode'[t] = "none" /\ \A u \in Threads \ {t} : mode'[u] = mode[u]
  BY <1>1 DEF RefInv, TypeOK
<1>4. \A u \in Threads \ {t} : mode[u] # "none" => Committed' = Committed
  <2> SUFFICES ASSUME NEW u \in Threads \ {t}, mode[u] # "none" PROVE Committed' = Committed
    OBVIOUS
  <2>1. mode[t] # "rw" /\ mode[u] # "rw"
    BY <1>1, WriterAlone
  <2>2. mode[u] = "ro"
    BY <2>1 DEF RefInv, TypeOK
  <2> QED  BY <1>2, <2>2, CommittedIs
<1>5. Used' = [Used EXCEPT ![t] = {}]
  BY <1>3 DEF Used
<1>6. Snap' = [Snap EXCEPT ![t] = NoView]
  BY <1>3, <1>4 DEF Snap
<1>7. View' = [View EXCEPT ![t] = NoView]
  <2>1. View'[t] = NoView
    BY <1>3 DEF View
  <2>2. ASSUME NEW u \in Threads \ {t} PROVE View'[u] = View[u]
    BY <1>2, <1>3, <1>4 DEF View, RefInv, TypeOK
  <2>3. /\ View \in [Threads -> {NoView, Committed, Shown}]
        /\ View' \in [Threads -> {NoView, Committed', Shown'}]
    BY DEF View, RefInv, TypeOK
  <2> QED  BY <2>1, <2>2, <2>3
<1>8. \/ mode[t] = "ro" /\ UNCHANGED Committed
      \/ /\ mode[t] = "rw"
         /\ \A w \in Used[t] : Snap[t][w] = Committed[w]
         /\ Committed' = [w \in Words |-> IF w \in Used[t] THEN View[t][w] ELSE Committed[w]]
  <2>1. CASE mode[t] = "ro"
    BY <1>2, <2>1, CommittedIs
  <2>2. CASE mode[t] = "rw"
    <3>1. Used[t] = Words /\ Snap[t] = Committed /\ View[t] = Shown
      BY <2>2, Views
    <3>2. Shown = [w \in Words |-> Shown[w]]
      BY DEF Shown
    <3> QED  BY <1>2, <2>2, <3>1, <3>2
  <2> QED  BY <1>1, <2>1, <2>2 DEF RefInv, TypeOK
<1> QED  BY <1>1, <1>5, <1>6, <1>7, <1>8, AtomicCommit

LEMMA ReadImplements ==
  ASSUME RefInv, NEW t \in Threads, NEW w \in Words, TmRead(t, w)
  PROVE  Atomic!Next
<1>1. /\ pc[t] = "out" /\ mode[t] # "none" /\ w \in known[t] /\ got' = [got EXCEPT ![t] = {<<w, mem[w]>>}]
      /\ UNCHANGED <<writer, mem, alive, mode, pc, node, pre, destroyed>>
  BY DEF TmRead, Idle, callVars, lockVars
<1>2. Shown' = Shown /\ Committed' = Committed
  BY <1>1 DEF Shown, Allocating, Committed
<1>3. UNCHANGED <<Used, Snap, View>>
  BY <1>1, <1>2 DEF Used, Snap, View
<1>4. Allocating = {}
  <2>1. CASE mode[t] = "rw"
    BY <1>1, <2>1, WriterAllocates
  <2>2. CASE mode[t] = "ro"
    BY <2>2, CommittedIs, NobodyAllocates
  <2> QED  BY <1>1, <2>1, <2>2 DEF RefInv, TypeOK
<1>5. View[t][w] = mem[w] /\ mem[w] # Free
  <2>1. w \in Start \cup alive
    BY <1>1 DEF RefInv, AddressOf
  <2> QED  BY <1>1, <1>4, <2>1, Shows, Views
<1>6. Used' = [Used EXCEPT ![t] = @ \cup {w}]
  <2>1. Used[t] = Words /\ Used \in [Threads -> SUBSET Words]
    BY <1>1, Views DEF Used
  <2> QED  BY <1>3, <2>1
<1> QED  BY <1>1, <1>2, <1>3, <1>5, <1>6, AtomicRead

(* A store of the writer changes its view of one word. *)
LEMMA StoreImplements ==
  ASSUME RefInv, RefInv', NEW t \in Threads, mode[t] = "rw", NEW w \in Words, NEW c,
         UNCHANGED <<writer, mode, pre, destroyed>>, got' = [got EXCEPT ![t] = {}],
         \A x \in Words \ {w} : Shown'[x] = Shown[x],
         \/ Shown[w] # Free /\ c \in Values \cup Segs
         \/ Shown[w] # Free /\ c = Free /\ w \in Segs
         \/ Shown[w] = Free /\ c = Zero /\ w \in Segs,
         Shown'[w] = c
  PROVE  Atomic!Next
<1>1. Committed' = Committed
  BY WriterAlone DEF Committed
<1>9. mode' = mode
  OBVIOUS
<1>2. Shown' = [Shown EXCEPT ![w] = c]
  BY DEF Shown
<1>3. \A u \in Threads \ {t} : mode[u] = "none"
  BY WriterAlone
<1>4. UNCHANGED <<Used, Snap>>
  BY <1>1 DEF Used, Snap
<1>5. View[t] = Shown /\ Used[t] = Words /\ Used \in [Threads -> SUBSET Words]
  BY Views DEF Used
<1>6. Used' = [Used EXCEPT ![t] = @ \cup {w}]
  BY <1>4, <1>5
<1>7. View' = [View EXCEPT ![t][w] = c]
  <2>1. View'[t] = [Shown EXCEPT ![w] = c]
    BY <1>2 DEF View
  <2>2. ASSUME NEW u \in Threads \ {t} PROVE View'[u] = View[u]
    BY <1>3, <1>9 DEF View
  <2>3. /\ View \in [Threads -> {NoView, Committed, Shown}]
        /\ View' \in [Threads -> {NoView, Committed', Shown'}]
    BY DEF View, RefInv, TypeOK
  <2> QED  BY <1>5, <2>1, <2>2, <2>3
<1> QED  BY <1>1, <1>4, <1>5, <1>6, <1>7, AtomicChange

(* A step of the writer that shows nothing. *)
LEMMA WriterStutters ==
  ASSUME RefInv, RefInv', NEW t \in Threads, mode[t] = "rw",
         UNCHANGED <<writer, mode, got, pre, destroyed>>, Shown' = Shown
  PROVE  UNCHANGED Atomic!vars
<1>1. Committed' = Committed
  BY WriterAlone DEF Committed
<1> QED  BY <1>1, AtomicStutter

LEMMA WriteImplements ==
  ASSUME RefInv, RefInv', NEW t \in Threads, NEW w \in Words, NEW v \in Values, TmWrite(t, w, v)
  PROVE  Atomic!Next
<1>1. /\ mode[t] = "rw" /\ w \in Start /\ Store(t, w, v)
      /\ UNCHANGED <<writer, alive, mode, pc, node, pre, destroyed>>
  BY DEF TmWrite, callVars, lockVars, Start
<1>2. /\ mem' = [mem EXCEPT ![w] = v] /\ got' = [got EXCEPT ![t] = {}]
      /\ Allocating' = Allocating
  BY <1>1 DEF Store, Allocating
<1>3. Shown[w] # Free /\ Shown'[w] = v /\ \A x \in Words \ {w} : Shown'[x] = Shown[x]
  BY <1>1, <1>2, Shows DEF Shown, RefInv, TypeOK
<1> QED  BY <1>1, <1>2, <1>3, StoreImplements

LEMMA NewNodeImplements ==
  ASSUME RefInv, RefInv', NEW t \in Threads, NEW w \in Words, NEW s \in Segs, NewNode(t, w, s)
  PROVE  UNCHANGED Atomic!vars
<1>1. /\ pc[t] = "out" /\ mode[t] = "rw" /\ s \notin alive /\ alive' = alive \cup {s} /\ Goto(t, "back")
      /\ node' = [node EXCEPT ![t] = s]
      /\ UNCHANGED <<writer, mem, mode, got, pre, destroyed>>
  BY DEF NewNode, Idle, lockVars
<1>2. pc'[t] = "back" /\ node'[t] = s /\ \A u \in Threads \ {t} : pc'[u] = pc[u]
  BY <1>1, GotoEffect DEF RefInv, TypeOK
<1>3. Allocating = {} /\ Allocating' = {s}
  <2>1. \A u \in Threads \ {t} : pc'[u] = "out"
    BY <1>1, <1>2, WriterAlone
  <2> QED  BY <1>1, <1>2, <2>1, WriterAllocates DEF Allocating
<1>4. Shown' = Shown
  BY <1>1, <1>3 DEF Shown
<1> QED  BY <1>1, <1>4, WriterStutters

(* The stores to the list, and the start of tm_free, are not seen. *)
LEMMA ListImplements ==
  ASSUME RefInv, RefInv', NEW t \in Threads,
         \/ LinkBack(t) \/ LinkHead(t) \/ UnlinkPrev(t) \/ UnlinkNext(t)
         \/ \E w \in Words, s \in Segs : TmFree(t, w, s)
  PROVE  UNCHANGED Atomic!vars
<1>1. /\ UNCHANGED <<writer, mem, alive, mode, got, pre, destroyed>>
      /\ \A u \in Threads \ {t} : node'[u] = node[u]
      /\ pc[t] # "out" \/ mode[t] = "rw"
  BY DEF LinkBack, LinkHead, UnlinkPrev, UnlinkNext, TmFree, lockVars, RefInv, TypeOK
<1>2. mode[t] = "rw"
  BY <1>1, Calling
<1>3. \E l \in {"head", "memset", "unlink", "unlink_next", "free"} :
        /\ Goto(t, l)
        /\ pc[t] \in {"back", "head"} <=> l \in {"head", "memset"}
        /\ pc[t] \in {"back", "head"} => node'[t] = node[t]
        /\ pc[t] # "memset"
  <2>1. CASE LinkBack(t) \/ LinkHead(t) \/ UnlinkPrev(t) \/ UnlinkNext(t)
    BY <2>1 DEF LinkBack, LinkHead, UnlinkPrev, UnlinkNext
  <2>2. CASE \E w \in Words, s \in Segs : TmFree(t, w, s)
    BY <2>2 DEF TmFree, Idle
  <2> QED  BY <2>1, <2>2
<1>4. PICK l \in {"head", "memset", "unlink", "unlink_next", "free"} :
        /\ pc'[t] = l /\ \A u \in Threads \ {t} : pc'[u] = pc[u]
        /\ pc[t] \in {"back", "head"} <=> l \in {"head", "memset"}
        /\ pc[t] \in {"back", "head"} => node'[t] = node[t]
        /\ pc[t] # "memset"
  BY <1>3, GotoEffect
<1>5. Allocating' = Allocating
  <2>1. \A u \in Threads \ {t} : pc[u] = "out"
    BY <1>2, WriterAlone
  <2> QED  BY <1>4, <2>1 DEF Allocating
<1>6. Shown' = Shown
  BY <1>1, <1>5 DEF Shown
<1> QED  BY <1>1, <1>2, <1>6, WriterStutters

(* The new segment appears with the memset, when tm_alloc returns. *)
LEMMA ZeroImplements ==
  ASSUME RefInv, RefInv', NEW t \in Threads, ZeroSegment(t)
  PROVE  Atomic!Next
<1>1. /\ pc[t] = "memset" /\ Goto(t, "publish") /\ Store(t, node[t], Zero)
      /\ UNCHANGED <<writer, alive, mode, node, pre, destroyed>>
  BY DEF ZeroSegment, lockVars
<1>2. mode[t] = "rw" /\ node[t] \in alive /\ node[t] \in Words /\ node[t] \in Segs
  BY <1>1, Calling
<1>3. /\ mem' = [mem EXCEPT ![node[t]] = Zero] /\ got' = [got EXCEPT ![t] = {}]
      /\ Allocating = {node[t]} /\ Allocating' = {}
  <2>1. pc'[t] = "publish" /\ \A u \in Threads \ {t} : pc'[u] = pc[u]
    BY <1>1, GotoEffect
  <2>2. \A u \in Threads \ {t} : pc[u] = "out"
    BY <1>2, WriterAlone
  <2> QED  BY <1>1, <1>2, <2>1, <2>2, WriterAllocates DEF Store, Allocating
<1>4. Shown[node[t]] = Free /\ Shown'[node[t]] = Zero
      /\ \A x \in Words \ {node[t]} : Shown'[x] = Shown[x]
  BY <1>1, <1>2, <1>3, Shows DEF Shown, RefInv, TypeOK
<1> QED  BY <1>1, <1>2, <1>3, <1>4, StoreImplements

(* The tm_write that publishes the segment, and the one that clears the     *)
(* pointer to it.                                                           *)
LEMMA PointerImplements ==
  ASSUME RefInv, RefInv', NEW t \in Threads, Publish(t) \/ ClearPointer(t)
  PROVE  Atomic!Next
<1>1. PICK c \in {node[t], Zero} : c \in Values \cup Segs /\ Store(t, slot[t], c)
  BY Calling, ZeroType DEF Publish, ClearPointer
<1>2. /\ pc[t] \in {"publish", "clear"} /\ Return(t)
      /\ UNCHANGED <<writer, alive, mode, pre, destroyed>>
  BY DEF Publish, ClearPointer, lockVars
<1>3. mode[t] = "rw" /\ slot[t] \in Start \cup alive /\ slot[t] \in Words
  BY <1>2, Calling DEF Start
<1>4. /\ mem' = [mem EXCEPT ![slot[t]] = c] /\ got' = [got EXCEPT ![t] = {}]
      /\ Allocating = {} /\ Allocating' = {}
  <2>1. pc'[t] = "out" /\ \A u \in Threads \ {t} : pc'[u] = pc[u]
    BY <1>2, ReturnEffect
  <2>2. \A u \in Threads \ {t} : pc[u] = "out"
    BY <1>3, WriterAlone
  <2> QED  BY <1>1, <1>2, <1>3, <2>1, <2>2, WriterAllocates DEF Store, Allocating
<1>5. Shown[slot[t]] # Free /\ Shown'[slot[t]] = c
      /\ \A x \in Words \ {slot[t]} : Shown'[x] = Shown[x]
  BY <1>2, <1>3, <1>4, Shows DEF Shown, RefInv, TypeOK
<1> QED  BY <1>1, <1>2, <1>3, <1>4, <1>5, StoreImplements

LEMMA FreeImplements ==
  ASSUME RefInv, RefInv', NEW t \in Threads, FreeNode(t)
  PROVE  Atomic!Next
<1>1. /\ pc[t] = "free" /\ Goto(t, "clear") /\ alive' = alive \ {node[t]} /\ Store(t, node[t], Garbage)
      /\ UNCHANGED <<writer, mode, node, pre, destroyed>>
  BY DEF FreeNode, lockVars
<1>2. mode[t] = "rw" /\ node[t] \in alive /\ node[t] \in Words /\ node[t] \in Segs
  BY <1>1, Calling
<1>3. /\ mem' = [mem EXCEPT ![node[t]] = Garbage] /\ got' = [got EXCEPT ![t] = {}]
      /\ Allocating = {} /\ Allocating' = {}
  <2>1. pc'[t] = "clear" /\ \A u \in Threads \ {t} : pc'[u] = pc[u]
    BY <1>1, GotoEffect
  <2>2. \A u \in Threads \ {t} : pc[u] = "out"
    BY <1>2, WriterAlone
  <2> QED  BY <1>1, <1>2, <2>1, <2>2, WriterAllocates DEF Store, Allocating
<1>4. Shown[node[t]] # Free /\ Shown'[node[t]] = Free
      /\ \A x \in Words \ {node[t]} : Shown'[x] = Shown[x]
  BY <1>1, <1>2, <1>3, Shows DEF Shown, RefInv, TypeOK
<1> QED  BY <1>1, <1>2, <1>3, <1>4, StoreImplements

LEMMA DestroyImplements ==
  ASSUME RefInv, TmDestroy
  PROVE  UNCHANGED Atomic!vars
<1>1. /\ ~destroyed /\ destroyed' /\ pre' = Shown /\ \A t \in Threads : mode[t] = "none"
      /\ UNCHANGED <<mode, got>>
  BY DEF TmDestroy
<1>2. Committed' = Committed
  BY <1>1 DEF Committed, RefInv, LockInv, TypeOK
<1>3. UNCHANGED <<Used, Snap, View>>
  BY <1>1, <1>2 DEF Used, Snap, View
<1> QED  BY <1>1, <1>2, <1>3 DEF Atomic!vars, Used, Snap, View

LEMMA StepImplements ==
  ASSUME RefInv, RefInv', [Next]_vars
  PROVE  [Atomic!Next]_(Atomic!vars)
<1>1. ASSUME NEW t \in Threads, Call(t) PROVE Atomic!Next \/ UNCHANGED Atomic!vars
  <2>1. CASE TmBeginRO(t)
    BY <2>1, BeginImplements DEF TmBeginRO
  <2>2. CASE TmBeginRW(t)
    BY <2>2, BeginImplements DEF TmBeginRW
  <2> QED  BY <1>1, <2>1, <2>2, EndImplements, ReadImplements, WriteImplements, NewNodeImplements,
              ListImplements, ZeroImplements, PointerImplements, FreeImplements
           DEF Call
<1>2. ASSUME UNCHANGED vars PROVE UNCHANGED Atomic!vars
  <2>1. UNCHANGED <<Committed, Shown, mode, got>>
    BY <1>2 DEF vars, lockVars, callVars, Committed, Shown, Allocating
  <2> QED  BY <2>1, AtomicStutter
<1> QED  BY <1>1, <1>2, DestroyImplements DEF Next, Ended

(* The library of reference/tm.c is the atomic memory that include/tm.h     *)
(* promises: with one readers-writer lock a transaction reads one state of  *)
(* the memory and its own changes, and they take effect at tm_end.          *)
THEOREM AtomicMemoryImplemented == Spec => ImplementsAtomicMemory
<1>1. Spec => []RefInv
  BY Start0, Steps, PTL DEF Spec
<1>2. Init => Atomic!Init
  BY AtomicStart
<1>3. RefInv /\ RefInv' /\ [Next]_vars => [Atomic!Next]_(Atomic!vars)
  BY StepImplements
<1> QED  BY <1>1, <1>2, <1>3, PTL DEF Spec, ImplementsAtomicMemory, Atomic!Spec

=============================================================================
