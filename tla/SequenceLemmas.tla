--------------------------- MODULE SequenceLemmas ----------------------------
(***************************************************************************)
(* What the proofs of several components use: facts about the sequences    *)
(* that stand for queues, files and tables, induction over a set of natural *)
(* numbers, remainders, and sums over finite sets.                          *)
(***************************************************************************)
EXTENDS Integers, Sequences, FiniteSets, Functions, SequencesExt, SequenceTheorems,
        FiniteSetTheorems, WellFoundedInduction, TLAPS

-----------------------------------------------------------------------------
(* Induction.                                                              *)

LEMMA LeastElement ==
  ASSUME NEW T, T \subseteq Nat, T # {}
  PROVE  \E x \in T : \A y \in T : x <= y
<1> DEFINE R == OpToRel(<, Nat)
<1>1. IsWellFoundedOn(R, Nat)
  BY NatLessThanWellFounded
<1>2. \A x, y \in Nat : x < y => <<x, y>> \in R
  BY DEF OpToRel
<1> HIDE DEF R
<1>3. PICK x \in T : \A y \in T : ~(<<y, x>> \in R)
  BY <1>1, WFMin
<1>4. \A y \in T : x \in Nat /\ y \in Nat /\ ~(y < x)
  BY <1>2, <1>3
<1>5. \A y \in T : x <= y
  BY <1>4
<1> QED  BY <1>5

(* A set of numbers that holds 0 and every successor holds them all.       *)
LEMMA SetInduction ==
  ASSUME NEW T, 0 \in T, \A n \in Nat : n \in T => n + 1 \in T
  PROVE  \A n \in Nat : n \in T
<1> SUFFICES ASSUME NEW m \in Nat, m \notin T PROVE FALSE
  OBVIOUS
<1> DEFINE U == Nat \ T
<1>1. PICK x \in U : \A y \in U : x <= y
  <2>1. U \subseteq Nat /\ U # {}
    OBVIOUS
  <2> HIDE DEF U
  <2> QED  BY <2>1, LeastElement
<1>2. x # 0
  OBVIOUS
<1>3. x - 1 \in Nat /\ x - 1 \notin U
  BY <1>1, <1>2
<1> QED  BY <1>3, <1>1

-----------------------------------------------------------------------------
(* Sequences.                                                              *)

(* Appending leaves what is there and puts the new element behind it.      *)
LEMMA AppendFacts ==
  ASSUME NEW S, NEW q \in Seq(S), NEW e \in S
  PROVE  /\ Append(q, e) \in Seq(S) /\ Len(Append(q, e)) = Len(q) + 1
         /\ DOMAIN Append(q, e) = 1 .. (Len(q) + 1) /\ DOMAIN q = 1 .. Len(q)
         /\ Append(q, e)[Len(q) + 1] = e
         /\ \A i \in 1 .. Len(q) : Append(q, e)[i] = q[i]
  OBVIOUS

(* The same for a sequence of one element put behind another sequence.     *)
LEMMA ConcatOne ==
  ASSUME NEW S, NEW a \in Seq(S), NEW b \in Seq(S), Len(b) = 1
  PROVE  DOMAIN (a \o b) = 1..(Len(a) + 1) /\ (a \o b)[Len(a) + 1] = b[1]
<1>1. a \o b \in Seq(S) /\ Len(a \o b) = Len(a) + Len(b)
  BY ConcatProperties
<1>2. DOMAIN (a \o b) = 1..Len(a \o b)
  BY <1>1
<1> QED  BY <1>1, <1>2, ConcatProperties

(* The front is everything but the last element.                           *)
LEMMA FrontFacts ==
  ASSUME NEW S, NEW q \in Seq(S), q # <<>>
  PROVE  /\ Front(q) \in Seq(S) /\ Len(Front(q)) = Len(q) - 1 /\ Len(q) \in Nat \ {0}
         /\ \A i \in 1 .. (Len(q) - 1) : Front(q)[i] = q[i]
         /\ Last(q) = q[Len(q)] /\ Last(q) \in S
<1>1. Len(q) \in Nat \ {0} /\ q[Len(q)] \in S
  OBVIOUS
<1> DEFINE n == Len(q) - 1
<1>2. n \in Nat /\ n <= Len(q) /\ Front(q) = SubSeq(q, 1, n)
  BY <1>1 DEF Front
<1> HIDE DEF n
<1>3. /\ SubSeq(q, 1, n) \in Seq(S) /\ Len(SubSeq(q, 1, n)) = n
      /\ \A i \in 1 .. n : SubSeq(q, 1, n)[i] = q[i]
  BY <1>1, <1>2
<1> QED  BY <1>1, <1>2, <1>3 DEF Last, n

(* Removing position i closes the gap: what stood behind it moves up by    *)
(* one (unlink joins the neighbours of the node it takes out).             *)
LEMMA RemoveAtFacts ==
  ASSUME NEW S, NEW q \in Seq(S), NEW i \in DOMAIN q
  PROVE  /\ RemoveAt(q, i) \in Seq(S)
         /\ Len(RemoveAt(q, i)) = Len(q) - 1
         /\ \A j \in 1 .. (Len(q) - 1) :
              RemoveAt(q, i)[j] = IF j < i THEN q[j] ELSE q[j + 1]
<1>1. i \in 1 .. Len(q) /\ Len(q) \in Nat
  OBVIOUS
<1> DEFINE a == SubSeq(q, 1, i - 1)
           b == SubSeq(q, i + 1, Len(q))
<1>2. a \in Seq(S) /\ Len(a) = i - 1 /\ \A j \in 1 .. (i - 1) : a[j] = q[j]
  BY <1>1
<1>3. b \in Seq(S) /\ Len(b) = Len(q) - i
      /\ \A j \in 1 .. (Len(q) - i) : b[j] = q[j + i]
  BY <1>1
<1>4. RemoveAt(q, i) = a \o b
  BY DEF RemoveAt
<1> HIDE DEF a, b
<1>5. Len(a \o b) = Len(q) - 1 /\ a \o b \in Seq(S)
  BY <1>1, <1>2, <1>3
<1>6. ASSUME NEW j \in 1 .. (Len(q) - 1)
      PROVE  (a \o b)[j] = IF j < i THEN q[j] ELSE q[j + 1]
  <2>1. CASE j < i
    BY <1>1, <1>2, <1>3, <1>6, <2>1
  <2>2. CASE ~(j < i)
    <3>1. (a \o b)[j] = b[j - (i - 1)]
      BY <1>1, <1>2, <1>3, <1>6, <2>2
    <3>2. j - (i - 1) \in 1 .. (Len(q) - i)
      BY <1>1, <1>6, <2>2
    <3> QED  BY <3>1, <3>2, <1>1, <1>3, <1>6, <2>2
  <2> QED  BY <2>1, <2>2
<1> QED  BY <1>4, <1>5, <1>6

(* Only position i is gone, and a sequence without repetitions stays one.  *)
LEMMA RemoveAtElements ==
  ASSUME NEW S, NEW q \in Seq(S), NEW i \in DOMAIN q
  PROVE  LET r == RemoveAt(q, i) IN
         /\ \A j \in DOMAIN r : \E k \in DOMAIN q : k # i /\ r[j] = q[k]
         /\ \A k \in DOMAIN q : k # i => \E j \in DOMAIN r : r[j] = q[k]
         /\ (\A j, k \in DOMAIN q : q[j] = q[k] => j = k)
              => \A j, k \in DOMAIN r : r[j] = r[k] => j = k
<1> DEFINE r == RemoveAt(q, i)
           n == Len(q)
<1>1. n \in Nat /\ DOMAIN q = 1 .. n /\ i \in 1 .. n
  OBVIOUS
<1>2. /\ r \in Seq(S) /\ Len(r) = n - 1
      /\ \A j \in 1 .. (n - 1) : r[j] = IF j < i THEN q[j] ELSE q[j + 1]
  BY RemoveAtFacts
<1> HIDE DEF r, n
<1>3. DOMAIN r = 1 .. (n - 1)
  BY <1>2
<1>4. ASSUME NEW j \in 1 .. (n - 1)
      PROVE  \E k \in 1 .. n : k # i /\ r[j] = q[k]
  <2>1. CASE j < i
    <3>1. j \in 1 .. n /\ j # i /\ r[j] = q[j]
      BY <1>1, <1>2, <1>4, <2>1
    <3> QED  BY <3>1
  <2>2. CASE ~(j < i)
    <3>1. j + 1 \in 1 .. n /\ j + 1 # i /\ r[j] = q[j + 1]
      BY <1>1, <1>2, <1>4, <2>2
    <3> QED  BY <3>1
  <2> QED  BY <2>1, <2>2
<1>5. ASSUME NEW k \in 1 .. n, k # i
      PROVE  \E j \in 1 .. (n - 1) : r[j] = q[k]
  <2>1. CASE k < i
    <3>1. k \in 1 .. (n - 1) /\ r[k] = q[k]
      BY <1>1, <1>2, <1>5, <2>1
    <3> QED  BY <3>1
  <2>2. CASE ~(k < i)
    <3>1. k - 1 \in 1 .. (n - 1) /\ ~(k - 1 < i) /\ (k - 1) + 1 = k
      BY <1>1, <1>5, <2>2
    <3> QED  BY <3>1, <1>2
  <2> QED  BY <2>1, <2>2
<1>6. ASSUME \A j, k \in 1 .. n : q[j] = q[k] => j = k,
             NEW j \in 1 .. (n - 1), NEW k \in 1 .. (n - 1), r[j] = r[k]
      PROVE  j = k
  <2> DEFINE old(x) == IF x < i THEN x ELSE x + 1
  <2>1. r[j] = q[old(j)] /\ r[k] = q[old(k)]
    BY <1>2
  <2>2. old(j) \in 1 .. n /\ old(k) \in 1 .. n
    BY <1>1
  <2>3. old(j) = old(k)
    BY <1>6, <2>1, <2>2
  <2> QED  BY <2>3, <1>1
<1> QED  BY <1>1, <1>3, <1>4, <1>5, <1>6 DEF r

(* A sequence has finitely many elements.                                  *)
LEMMA ElementsFinite ==
  ASSUME NEW S, NEW q \in Seq(S)
  PROVE  IsFiniteSet(ToSet(q))
<1> DEFINE n == Len(q)
<1>1. n \in Nat /\ DOMAIN q = 1 .. n
  OBVIOUS
<1>2. IsFiniteSet(1 .. n)
  BY <1>1, FS_Interval
<1> DEFINE T == {q[i] : i \in 1 .. n}
           f == [i \in 1 .. n |-> q[i]]
<1>3. f \in [1 .. n -> T] /\ \A t \in T : \E i \in 1 .. n : f[i] = t
  OBVIOUS
<1> HIDE DEF f, T
<1>4. IsFiniteSet(T)
  BY <1>2, <1>3, FS_Surjection DEF Surjection
<1> QED  BY <1>1, <1>4 DEF ToSet, T

-----------------------------------------------------------------------------
(* Remainders.                                                             *)

(* A remainder is known by its range and by what it leaves.                *)
LEMMA RemainderUnique ==
  ASSUME NEW m \in Nat \ {0}, NEW a \in Int, NEW k \in Int, NEW r \in Int,
         0 <= r, r < m, a = m * k + r
  PROVE  a % m = r
<1> DEFINE d == a \div m
           e == a % m
<1>1. d \in Int /\ e \in Int /\ 0 <= e /\ e < m /\ a = m * d + e
  OBVIOUS
<1> HIDE DEF d, e
<1>2. m * (d - k) = r - e
  BY <1>1
<1> QED  BY <1>1, <1>2 DEF e

(* Taking the remainder of a part first changes nothing.                   *)
LEMMA RemainderAdds ==
  ASSUME NEW m \in Nat \ {0}, NEW a \in Int, NEW b \in Int
  PROVE  ((a % m) + b) % m = (a + b) % m
<1> DEFINE d == a \div m
           e == a % m
           k == (e + b) \div m
           r == (e + b) % m
<1>1. d \in Int /\ e \in Int /\ a = m * d + e
  OBVIOUS
<1> HIDE DEF d, e
<1>2. k \in Int /\ r \in Int /\ 0 <= r /\ r < m /\ e + b = m * k + r
  BY <1>1
<1> HIDE DEF k, r
<1>3. a + b = m * (d + k) + r /\ a + b \in Int /\ d + k \in Int
  BY <1>1, <1>2
<1>4. (a + b) % m = r
  BY <1>2, <1>3, RemainderUnique
<1> QED  BY <1>4 DEF e, r

-----------------------------------------------------------------------------
(* Sums of a function over a finite set, SumFunctionOnSet(f, S).  The fold  *)
(* behind it recurs over the subsets of S, taking out what Pick chooses: it *)
(* has a solution (IterExists), only one (IterAgree), and the element taken *)
(* out first does not matter (SumRemoves).                                  *)

Pick(s) == CHOOSE x \in s : TRUE
IsIter(it, f, S) ==
  it = [s \in SUBSET S |-> IF s = {} THEN 0 ELSE f[Pick(s)] + it[s \ {Pick(s)}]]

Summable(f, S) == IsFiniteSet(S) /\ \A x \in S : f[x] \in Int

(* The sum is what the recursion gives for the whole set.                  *)
LEMMA SumUnfolds ==
  ASSUME NEW f, NEW S
  PROVE  SumFunctionOnSet(f, S) = (CHOOSE it : IsIter(it, f, S))[S]
BY DEF SumFunctionOnSet, FoldFunctionOnSet, MapThenFoldSet, IsIter, Pick

(* Taking out what Pick chooses leaves one element fewer.                  *)
LEMMA PickFacts ==
  ASSUME NEW n \in Nat, NEW s, IsFiniteSet(s), Cardinality(s) = n + 1
  PROVE  /\ s # {} /\ Pick(s) \in s /\ IsFiniteSet(s \ {Pick(s)})
         /\ Cardinality(s \ {Pick(s)}) = n
<1>1. s # {}
  BY FS_EmptySet
<1>2. Pick(s) \in s
  BY <1>1 DEF Pick
<1>3. IsFiniteSet(s \ {Pick(s)}) /\ Cardinality(s \ {Pick(s)}) = Cardinality(s) - 1
  BY <1>2, FS_RemoveElement
<1>4. (n + 1) - 1 = n
  OBVIOUS
<1> QED  BY <1>1, <1>2, <1>3, <1>4

(* Two solutions of the recursion agree wherever both are defined.         *)
LEMMA IterAgree ==
  ASSUME NEW f, NEW A, NEW B, IsFiniteSet(A), NEW i, NEW j, IsIter(i, f, A), IsIter(j, f, B)
  PROVE  \A s \in SUBSET (A \cap B) : i[s] = j[s]
<1> DEFINE Q == SUBSET (A \cap B)
           T == {n \in Nat : \A s \in Q : Cardinality(s) = n => i[s] = j[s]}
<1>1. \A s \in Q : IsFiniteSet(s) /\ Cardinality(s) \in Nat
  BY FS_Subset, FS_CardinalityType
<1>2. \A s \in Q : /\ i[s] = IF s = {} THEN 0 ELSE f[Pick(s)] + i[s \ {Pick(s)}]
                   /\ j[s] = IF s = {} THEN 0 ELSE f[Pick(s)] + j[s \ {Pick(s)}]
  <2> SUFFICES ASSUME NEW s \in Q
               PROVE  /\ i[s] = IF s = {} THEN 0 ELSE f[Pick(s)] + i[s \ {Pick(s)}]
                      /\ j[s] = IF s = {} THEN 0 ELSE f[Pick(s)] + j[s \ {Pick(s)}]
    OBVIOUS
  <2>1. s \in SUBSET A /\ s \in SUBSET B
    OBVIOUS
  <2>2. i = [x \in SUBSET A |-> IF x = {} THEN 0 ELSE f[Pick(x)] + i[x \ {Pick(x)}]]
    BY DEF IsIter
  <2>3. j = [x \in SUBSET B |-> IF x = {} THEN 0 ELSE f[Pick(x)] + j[x \ {Pick(x)}]]
    BY DEF IsIter
  <2>4. i[s] = IF s = {} THEN 0 ELSE f[Pick(s)] + i[s \ {Pick(s)}]
    BY <2>1, <2>2
  <2>5. j[s] = IF s = {} THEN 0 ELSE f[Pick(s)] + j[s \ {Pick(s)}]
    BY <2>1, <2>3
  <2> QED  BY <2>4, <2>5
<1>3. 0 \in T
  <2>1. ASSUME NEW s \in Q, Cardinality(s) = 0 PROVE i[s] = j[s]
    <3>1. s = {}
      BY <1>1, <2>1, FS_EmptySet
    <3> QED  BY <1>2, <3>1
  <2> QED  BY <2>1
<1>4. ASSUME NEW n \in Nat, n \in T PROVE n + 1 \in T
  <2>1. ASSUME NEW s \in Q, Cardinality(s) = n + 1 PROVE i[s] = j[s]
    <3>1. s # {} /\ Pick(s) \in s /\ Cardinality(s \ {Pick(s)}) = n
      BY <1>1, <2>1, PickFacts
    <3>2. s \ {Pick(s)} \in Q
      OBVIOUS
    <3>3. i[s \ {Pick(s)}] = j[s \ {Pick(s)}]
      BY <1>4, <3>1, <3>2
    <3> QED  BY <1>2, <3>1, <3>3
  <2> QED  BY <2>1
<1>5. \A n \in Nat : n \in T
  <2> HIDE DEF T
  <2> QED  BY <1>3, <1>4, SetInduction
<1> QED  BY <1>1, <1>5

(* The solution up to subsets of n elements.                               *)
Below(S, n) == {s \in SUBSET S : Cardinality(s) <= n}
IsIterTo(it, f, S, n) ==
  /\ it \in [Below(S, n) -> Int]
  /\ \A s \in Below(S, n) :
       it[s] = IF s = {} THEN 0 ELSE f[Pick(s)] + it[s \ {Pick(s)}]

(* The recursion of the sum has a solution.                                *)
LEMMA IterExists ==
  ASSUME NEW f, NEW S, Summable(f, S)
  PROVE  \E it \in [SUBSET S -> Int] : IsIter(it, f, S)
<1> DEFINE T == {n \in Nat : \E it : IsIterTo(it, f, S, n)}
<1>1. \A s \in SUBSET S : IsFiniteSet(s) /\ Cardinality(s) \in Nat
  BY FS_Subset, FS_CardinalityType DEF Summable
<1>2. 0 \in T
  <2> DEFINE it == [s \in Below(S, 0) |-> 0]
  <2>1. \A s \in Below(S, 0) : s = {}
    BY <1>1, FS_EmptySet DEF Below
  <2>2. IsIterTo(it, f, S, 0)
    BY <2>1 DEF IsIterTo
  <2> QED  BY <2>2
<1>3. ASSUME NEW n \in Nat, n \in T PROVE n + 1 \in T
  <2>1. PICK h : IsIterTo(h, f, S, n)
    BY <1>3
  <2> DEFINE it == [s \in Below(S, n + 1) |->
                      IF Cardinality(s) <= n THEN h[s] ELSE f[Pick(s)] + h[s \ {Pick(s)}]]
  <2>2. \A s \in Below(S, n) : /\ s \in Below(S, n + 1) /\ h[s] \in Int /\ it[s] = h[s]
                               /\ h[s] = IF s = {} THEN 0 ELSE f[Pick(s)] + h[s \ {Pick(s)}]
    BY <1>1, <2>1 DEF IsIterTo, Below
  <2>3. ASSUME NEW s \in Below(S, n), s # {}
        PROVE  Pick(s) \in s /\ s \ {Pick(s)} \in Below(S, n)
    <3>1. Pick(s) \in s
      BY <2>3 DEF Pick
    <3>2. s \in SUBSET S /\ IsFiniteSet(s) /\ Cardinality(s) \in Nat /\ Cardinality(s) <= n
      BY <1>1 DEF Below
    <3>3. Cardinality(s \ {Pick(s)}) = Cardinality(s) - 1
      BY <3>1, <3>2, FS_RemoveElement
    <3>4. Cardinality(s \ {Pick(s)}) <= n /\ s \ {Pick(s)} \in SUBSET S
      BY <3>2, <3>3
    <3> QED  BY <3>1, <3>4 DEF Below
  <2>4. ASSUME NEW s \in Below(S, n + 1), s \notin Below(S, n)
        PROVE  /\ s # {} /\ Pick(s) \in S /\ s \ {Pick(s)} \in Below(S, n)
               /\ it[s] = f[Pick(s)] + h[s \ {Pick(s)}]
    <3>1. s \in SUBSET S /\ IsFiniteSet(s) /\ Cardinality(s) = n + 1
      <4>1. s \in SUBSET S /\ Cardinality(s) <= n + 1 /\ ~(Cardinality(s) <= n)
        BY <2>4 DEF Below
      <4>2. IsFiniteSet(s) /\ Cardinality(s) \in Nat
        BY <1>1, <4>1
      <4> QED  BY <4>1, <4>2
    <3>2. s # {} /\ Pick(s) \in s /\ Cardinality(s \ {Pick(s)}) = n
      BY <3>1, PickFacts
    <3>3. s \ {Pick(s)} \in Below(S, n)
      BY <3>1, <3>2 DEF Below
    <3>4. ~(Cardinality(s) <= n)
      BY <3>1
    <3> QED  BY <3>1, <3>2, <3>3, <3>4
  <2> HIDE DEF it
  <2>5. ASSUME NEW s \in Below(S, n + 1)
        PROVE  /\ it[s] \in Int
               /\ it[s] = IF s = {} THEN 0 ELSE f[Pick(s)] + it[s \ {Pick(s)}]
    <3>1. CASE s \in Below(S, n)
      BY <2>2, <2>3, <3>1
    <3>2. CASE s \notin Below(S, n)
      <4> DEFINE x == Pick(s)
                 r == s \ {x}
      <4>1. s # {} /\ x \in S /\ r \in Below(S, n) /\ it[s] = f[x] + h[r]
        BY <2>4, <3>2
      <4> HIDE DEF x, r
      <4>2. f[x] \in Int /\ h[r] \in Int /\ it[r] = h[r]
        BY <2>2, <4>1 DEF Summable
      <4>3. it[s] \in Int /\ it[s] = f[x] + it[r]
        BY <4>1, <4>2
      <4> QED  BY <4>1, <4>3 DEF x, r
    <3> QED  BY <3>1, <3>2
  <2>6. it \in [Below(S, n + 1) -> Int]
    BY <2>5 DEF it
  <2>7. IsIterTo(it, f, S, n + 1)
    BY <2>5, <2>6 DEF IsIterTo
  <2> QED  BY <2>7
<1>4. \A n \in Nat : n \in T
  <2> HIDE DEF T
  <2> QED  BY <1>2, <1>3, SetInduction
<1>5. PICK it : IsIterTo(it, f, S, Cardinality(S))
  BY <1>1, <1>4
<1>6. Below(S, Cardinality(S)) = SUBSET S
  BY FS_Subset DEF Below, Summable
<1>7. it \in [SUBSET S -> Int]
  BY <1>5, <1>6 DEF IsIterTo
<1>8. \A s \in SUBSET S : it[s] = IF s = {} THEN 0 ELSE f[Pick(s)] + it[s \ {Pick(s)}]
  BY <1>5, <1>6 DEF IsIterTo
<1>9. IsIter(it, f, S)
  BY <1>7, <1>8 DEF IsIter
<1> QED  BY <1>7, <1>9

(* The sum is the value of an integer solution.                            *)
LEMMA SumIter ==
  ASSUME NEW f, NEW S, Summable(f, S)
  PROVE  \E it \in [SUBSET S -> Int] : IsIter(it, f, S) /\ SumFunctionOnSet(f, S) = it[S]
<1> DEFINE it == CHOOSE i : IsIter(i, f, S)
<1>1. PICK j \in [SUBSET S -> Int] : IsIter(j, f, S)
  BY IterExists
<1>2. IsIter(it, f, S)
  BY <1>1
<1>3. SumFunctionOnSet(f, S) = it[S]
  BY SumUnfolds
<1> HIDE DEF it
<1>4. \A s \in SUBSET S : it[s] = j[s]
  <2>1. \A s \in SUBSET (S \cap S) : it[s] = j[s]
    BY <1>1, <1>2, IterAgree DEF Summable
  <2> QED  BY <2>1
<1>5. SumFunctionOnSet(f, S) = j[S]
  BY <1>3, <1>4
<1> QED  BY <1>1, <1>5

(* What the sum is: nothing over nothing, and one element and the rest.    *)
LEMMA SumPicks ==
  ASSUME NEW f, NEW S, Summable(f, S)
  PROVE  /\ SumFunctionOnSet(f, S) \in Int
         /\ S = {} => SumFunctionOnSet(f, S) = 0
         /\ S # {} => SumFunctionOnSet(f, S)
                        = f[Pick(S)] + SumFunctionOnSet(f, S \ {Pick(S)})
<1>1. PICK i \in [SUBSET S -> Int] : IsIter(i, f, S) /\ SumFunctionOnSet(f, S) = i[S]
  BY SumIter
<1>2. i = [s \in SUBSET S |-> IF s = {} THEN 0 ELSE f[Pick(s)] + i[s \ {Pick(s)}]]
  BY <1>1 DEF IsIter
<1>3. S \in SUBSET S /\ i[S] \in Int
  BY <1>1
<1>4. i[S] = IF S = {} THEN 0 ELSE f[Pick(S)] + i[S \ {Pick(S)}]
  BY <1>2, <1>3
<1>5. ASSUME S # {}
      PROVE  SumFunctionOnSet(f, S) = f[Pick(S)] + SumFunctionOnSet(f, S \ {Pick(S)})
  <2> DEFINE R == S \ {Pick(S)}
  <2>1. R \in SUBSET S /\ IsFiniteSet(R) /\ IsFiniteSet(S) /\ \A x \in R : f[x] \in Int
    BY FS_Subset DEF Summable
  <2> HIDE DEF R
  <2>2. PICK j \in [SUBSET R -> Int] : IsIter(j, f, R) /\ SumFunctionOnSet(f, R) = j[R]
    BY <2>1, SumIter DEF Summable
  <2>3. R \in SUBSET (S \cap R)
    BY <2>1
  <2>4. i[R] = j[R]
    BY <1>1, <2>1, <2>2, <2>3, IterAgree
  <2> QED  BY <1>1, <1>4, <1>5, <2>2, <2>4 DEF R
<1> QED  BY <1>1, <1>3, <1>4, <1>5

(* What can be summed over a set can be summed over a part of it.          *)
LEMMA SubSummable ==
  ASSUME NEW f, NEW S, Summable(f, S), NEW R \in SUBSET S
  PROVE  Summable(f, R) /\ SumFunctionOnSet(f, R) \in Int
<1>1. Summable(f, R)
  BY FS_Subset DEF Summable
<1> QED  BY <1>1, SumPicks

(* The order does not matter: any element can be taken out.                *)
LEMMA SumRemoves ==
  ASSUME NEW f, NEW S, Summable(f, S), NEW x \in S
  PROVE  /\ SumFunctionOnSet(f, S) = f[x] + SumFunctionOnSet(f, S \ {x})
         /\ SumFunctionOnSet(f, S \ {x}) \in Int
<1> DEFINE Sum(R) == SumFunctionOnSet(f, R)
           T == {n \in Nat : \A R \in SUBSET S : Cardinality(R) = n =>
                   \A y \in R : Sum(R) = f[y] + Sum(R \ {y})}
<1>1. \A R \in SUBSET S : /\ Summable(f, R) /\ Sum(R) \in Int
                          /\ IsFiniteSet(R) /\ Cardinality(R) \in Nat
  BY SubSummable, FS_Subset, FS_CardinalityType DEF Summable
<1>2. 0 \in T
  <2>1. \A R \in SUBSET S : Cardinality(R) = 0 => R = {}
    BY <1>1, FS_EmptySet
  <2> QED  BY <2>1
<1>3. ASSUME NEW n \in Nat, n \in T PROVE n + 1 \in T
  <2>1. ASSUME NEW R \in SUBSET S, Cardinality(R) = n + 1, NEW y \in R
        PROVE  Sum(R) = f[y] + Sum(R \ {y})
    <3> DEFINE c == Pick(R)
               both == (R \ {c}) \ {y}
    <3>1. R # {} /\ c \in R /\ Cardinality(R \ {c}) = n
      BY <1>1, <2>1, PickFacts
    <3>2. Sum(R) = f[c] + Sum(R \ {c})
      BY <1>1, <3>1, SumPicks
    <3> HIDE DEF c
    <3>3. CASE y = c
      BY <3>2, <3>3
    <3>4. CASE y # c
      <4>1. Sum(R \ {c}) = f[y] + Sum(both)
        <5>1. R \ {c} \in SUBSET S /\ y \in R \ {c}
          BY <3>4
        <5> QED  BY <1>3, <3>1, <5>1
      <4>2. Cardinality(R \ {y}) = n
        <5>1. Cardinality(R \ {y}) = Cardinality(R) - 1
          BY <1>1, FS_RemoveElement
        <5> QED  BY <2>1, <5>1
      <4>3. Sum(R \ {y}) = f[c] + Sum(both)
        <5>1. R \ {y} \in SUBSET S /\ c \in R \ {y} /\ (R \ {y}) \ {c} = both
          BY <3>1, <3>4
        <5>2. Sum(R \ {y}) = f[c] + Sum((R \ {y}) \ {c})
          BY <1>3, <4>2, <5>1
        <5> QED  BY <5>1, <5>2
      <4>4. f[c] \in Int /\ f[y] \in Int /\ Sum(both) \in Int
        <5>1. both \in SUBSET S /\ c \in S /\ y \in S
          BY <3>1
        <5> QED  BY <1>1, <5>1 DEF Summable
      <4> HIDE DEF Sum, both
      <4> QED  BY <3>2, <4>1, <4>3, <4>4
    <3> QED  BY <3>3, <3>4
  <2> HIDE DEF Sum
  <2> QED  BY <2>1
<1>4. \A n \in Nat : n \in T
  <2> HIDE DEF T
  <2> QED  BY <1>2, <1>3, SetInduction
<1>5. S \in SUBSET S /\ Cardinality(S) \in T
  BY <1>1, <1>4
<1>6. S \ {x} \in SUBSET S
  OBVIOUS
<1> QED  BY <1>1, <1>5, <1>6

(* A new element adds its value.                                           *)
LEMMA SumAdds ==
  ASSUME NEW f, NEW S, Summable(f, S), NEW x, x \notin S, f[x] \in Int
  PROVE  /\ Summable(f, S \cup {x})
         /\ SumFunctionOnSet(f, S \cup {x}) = f[x] + SumFunctionOnSet(f, S)
<1> DEFINE R == S \cup {x}
<1>1. Summable(f, R)
  BY FS_AddElement DEF Summable
<1>2. x \in R /\ R \ {x} = S
  OBVIOUS
<1>3. SumFunctionOnSet(f, R) = f[x] + SumFunctionOnSet(f, R \ {x})
  BY <1>1, <1>2, SumRemoves
<1> QED  BY <1>1, <1>2, <1>3

(* Functions that agree on the set have the same sum.                      *)
LEMMA SumAgrees ==
  ASSUME NEW f, NEW g, NEW S, Summable(f, S), \A x \in S : g[x] = f[x]
  PROVE  Summable(g, S) /\ SumFunctionOnSet(g, S) = SumFunctionOnSet(f, S)
<1> DEFINE T == {n \in Nat : \A R \in SUBSET S : Cardinality(R) = n =>
                   SumFunctionOnSet(g, R) = SumFunctionOnSet(f, R)}
<1>0. Summable(g, S)
  BY DEF Summable
<1>1. \A R \in SUBSET S : /\ Summable(f, R) /\ Summable(g, R)
                          /\ IsFiniteSet(R) /\ Cardinality(R) \in Nat
  BY <1>0, SubSummable, FS_Subset, FS_CardinalityType DEF Summable
<1>2. 0 \in T
  <2>1. \A R \in SUBSET S : Cardinality(R) = 0 => R = {}
    BY <1>1, FS_EmptySet
  <2> QED  BY <1>1, <2>1, SumPicks
<1>3. ASSUME NEW n \in Nat, n \in T PROVE n + 1 \in T
  <2>1. ASSUME NEW R \in SUBSET S, Cardinality(R) = n + 1
        PROVE  SumFunctionOnSet(g, R) = SumFunctionOnSet(f, R)
    <3> DEFINE c == Pick(R)
    <3>1. R # {} /\ c \in R /\ Cardinality(R \ {c}) = n
      BY <1>1, <2>1, PickFacts
    <3>2. /\ SumFunctionOnSet(f, R) = f[c] + SumFunctionOnSet(f, R \ {c})
          /\ SumFunctionOnSet(g, R) = g[c] + SumFunctionOnSet(g, R \ {c})
      BY <1>1, <3>1, SumPicks
    <3>3. SumFunctionOnSet(g, R \ {c}) = SumFunctionOnSet(f, R \ {c})
      <4>1. R \ {c} \in SUBSET S
        OBVIOUS
      <4> QED  BY <1>3, <3>1, <4>1
    <3>4. g[c] = f[c]
      BY <3>1
    <3> QED  BY <3>2, <3>3, <3>4
  <2> QED  BY <2>1
<1>4. \A n \in Nat : n \in T
  <2> HIDE DEF T
  <2> QED  BY <1>2, <1>3, SetInduction
<1>5. S \in SUBSET S /\ Cardinality(S) \in T
  BY <1>1, <1>4
<1> QED  BY <1>0, <1>5

(* A sum of natural numbers is one.                                        *)
LEMMA SumNatural ==
  ASSUME NEW f, NEW S, IsFiniteSet(S), \A x \in S : f[x] \in Nat
  PROVE  Summable(f, S) /\ SumFunctionOnSet(f, S) \in Nat
<1> DEFINE T == {n \in Nat : \A R \in SUBSET S : Cardinality(R) = n =>
                   SumFunctionOnSet(f, R) \in Nat}
<1>0. Summable(f, S)
  BY DEF Summable
<1>1. \A R \in SUBSET S : Summable(f, R) /\ IsFiniteSet(R) /\ Cardinality(R) \in Nat
  BY <1>0, SubSummable, FS_Subset, FS_CardinalityType
<1>2. 0 \in T
  <2>1. \A R \in SUBSET S : Cardinality(R) = 0 => R = {}
    BY <1>1, FS_EmptySet
  <2>2. \A R \in SUBSET S : R = {} => SumFunctionOnSet(f, R) = 0
    BY <1>1, SumPicks
  <2> QED  BY <2>1, <2>2
<1>3. ASSUME NEW n \in Nat, n \in T PROVE n + 1 \in T
  <2>1. ASSUME NEW R \in SUBSET S, Cardinality(R) = n + 1
        PROVE  SumFunctionOnSet(f, R) \in Nat
    <3> DEFINE c == Pick(R)
    <3>1. R # {} /\ c \in R /\ Cardinality(R \ {c}) = n
      BY <1>1, <2>1, PickFacts
    <3>2. SumFunctionOnSet(f, R) = f[c] + SumFunctionOnSet(f, R \ {c})
      BY <1>1, <3>1, SumPicks
    <3>3. SumFunctionOnSet(f, R \ {c}) \in Nat
      <4>1. R \ {c} \in SUBSET S
        OBVIOUS
      <4> QED  BY <1>3, <3>1, <4>1
    <3>4. f[c] \in Nat
      BY <3>1
    <3> QED  BY <3>2, <3>3, <3>4
  <2> QED  BY <2>1
<1>4. \A n \in Nat : n \in T
  <2> HIDE DEF T
  <2> QED  BY <1>2, <1>3, SetInduction
<1>5. S \in SUBSET S /\ Cardinality(S) \in T
  BY <1>1, <1>4
<1> QED  BY <1>0, <1>5

(* Fewer and smaller numbers add up to no more.                            *)
LEMMA SumMonotone ==
  ASSUME NEW f, NEW g, NEW S, NEW U, IsFiniteSet(U), S \subseteq U,
         \A x \in U : g[x] \in Nat, \A x \in S : f[x] \in Nat /\ f[x] <= g[x]
  PROVE  SumFunctionOnSet(f, S) <= SumFunctionOnSet(g, U)
<1> DEFINE F(R) == SumFunctionOnSet(f, R \cap S)
           G(R) == SumFunctionOnSet(g, R)
           T == {n \in Nat : \A R \in SUBSET U : Cardinality(R) = n => F(R) <= G(R)}
<1>1. \A R \in SUBSET U : IsFiniteSet(R) /\ Cardinality(R) \in Nat
  BY FS_Subset, FS_CardinalityType
<1>2. \A R \in SUBSET U : /\ Summable(g, R) /\ G(R) \in Nat
                          /\ Summable(f, R \cap S) /\ F(R) \in Nat
  <2> TAKE R \in SUBSET U
  <2>1. IsFiniteSet(R) /\ IsFiniteSet(R \cap S)
    BY <1>1, FS_Subset
  <2> QED  BY <2>1, SumNatural
<1>3. 0 \in T
  <2>1. ASSUME NEW R \in SUBSET U, Cardinality(R) = 0 PROVE F(R) <= G(R)
    <3>1. R = {} /\ R \cap S = {}
      BY <1>1, <2>1, FS_EmptySet
    <3>2. F(R) = 0
      BY <1>2, <3>1, SumPicks
    <3> QED  BY <1>2, <3>2
  <2> QED  BY <2>1
<1>4. ASSUME NEW n \in Nat, n \in T PROVE n + 1 \in T
  <2>1. ASSUME NEW R \in SUBSET U, Cardinality(R) = n + 1 PROVE F(R) <= G(R)
    <3> DEFINE c == Pick(R)
               Q == R \ {c}
    <3>1. c \in R /\ Cardinality(Q) = n /\ Q \in SUBSET U
      BY <1>1, <2>1, PickFacts
    <3>2. G(R) = g[c] + G(Q) /\ g[c] \in Nat
      <4>1. Summable(g, R)
        BY <1>2
      <4>2. g[c] \in Nat
        BY <3>1
      <4> QED  BY <3>1, <4>1, <4>2, SumRemoves
    <3>3. F(Q) <= G(Q) /\ F(Q) \in Nat /\ G(Q) \in Nat
      BY <1>2, <1>4, <3>1
    <3>4. CASE c \in S
      <4>1. (R \cap S) \ {c} = Q \cap S /\ c \in R \cap S
        BY <3>1, <3>4
      <4>2. F(R) = f[c] + F(Q)
        BY <1>2, <4>1, SumRemoves
      <4>3. f[c] \in Nat /\ f[c] <= g[c]
        BY <3>4
      <4> HIDE DEF F, G
      <4> QED  BY <3>2, <3>3, <4>2, <4>3
    <3>5. CASE c \notin S
      <4>1. R \cap S = Q \cap S
        BY <3>5
      <4>2. F(R) = F(Q)
        BY <4>1
      <4> HIDE DEF F, G
      <4> QED  BY <3>2, <3>3, <4>2
    <3> QED  BY <3>4, <3>5
  <2> QED  BY <2>1
<1>5. \A n \in Nat : n \in T
  <2> HIDE DEF T
  <2> QED  BY <1>3, <1>4, SetInduction
<1>6. U \in SUBSET U /\ Cardinality(U) \in T /\ U \cap S = S
  BY <1>1, <1>5
<1> QED  BY <1>6
=============================================================================
