---------------------------- MODULE LibraryProofs ----------------------------
(***************************************************************************)
(* Lemmas about the operators of SumNodes and of ReportChecks, which the   *)
(* proofs about the components cite.                                       *)
(*                                                                         *)
(* First the tree: what a fold, a tree and a proof are, for any number of  *)
(* leaves, steps and assets, and integers of any width: the recursions     *)
(* unfolded, the fold's bound, the leaf that a fold commits to, and that   *)
(* the proof made for a leaf folds to the root.  Induction over the        *)
(* numbers and over a finite set is stated of sets, and sums over a finite *)
(* set of functions, so that both can be cited.                            *)
(*                                                                         *)
(* Then the checks: what an answer of a verifier says of them, for any     *)
(* document: that it is "ok" exactly if all of them hold, and what those   *)
(* of a signature, of a proof and of a coverage statement say.             *)
(***************************************************************************)
EXTENDS ReportChecks, FiniteSets, Functions, FiniteSetTheorems, SequenceTheorems,
        WellFoundedInduction, TLAPS

\* A set of numbers that is not empty has a least one.
LEMMA LeastNumber ==
  ASSUME NEW S, S \subseteq Nat, S # {}
  PROVE  \E i \in S : \A j \in S : i <= j
<1> DEFINE T == {0..i : i \in S}
<1>1. T \subseteq FiniteSubsetsOf(Nat) /\ T # {}
  <2>1. ASSUME NEW i \in S PROVE 0..i \in FiniteSubsetsOf(Nat)
    <3>1. 0 \in Int /\ i \in Int
      OBVIOUS
    <3>2. IsFiniteSet(0..i)
      BY <3>1, FS_Interval
    <3> QED BY <3>2 DEF FiniteSubsetsOf
  <2> QED BY <2>1
<1>2. PICK t \in T : \A u \in T : ~ (<<u, t>> \in StrictSubsetOrdering(Nat))
  <2> HIDE DEF T
  <2> QED BY <1>1, FS_StrictSubsetOrderingWellFounded, WFMin
<1>3. PICK i \in S : t = 0..i
  BY <1>2
<1>4. ASSUME NEW j \in S, j < i PROVE FALSE
  <2>1. 0..j \in T /\ 0..j \subseteq Nat /\ 0..i \subseteq Nat
    OBVIOUS
  <2>2. 0..j \subseteq 0..i /\ i \in 0..i /\ i \notin 0..j
    BY <1>4
  <2> QED BY <1>2, <1>3, <2>1, <2>2 DEF StrictSubsetOrdering
<1> QED BY <1>4

\* A set that holds 0 and, with every number below n, the next one, holds all
\* the numbers up to n.
LEMMA UpTo ==
  ASSUME NEW n \in Nat, NEW P, 0 \in P, \A k \in 1..n : k - 1 \in P => k \in P
  PROVE  \A k \in 0..n : k \in P
<1> DEFINE S == {k \in 0..n : k \notin P}
<1> SUFFICES ASSUME S # {} PROVE FALSE
  OBVIOUS
<1>1. PICK i \in S : \A j \in S : i <= j
  <2>1. S \subseteq Nat
    OBVIOUS
  <2> HIDE DEF S
  <2> QED BY <2>1, LeastNumber
<1>2. i # 0 /\ i \in 1..n
  OBVIOUS
<1>3. i - 1 \notin S
  BY <1>1
<1> QED BY <1>2, <1>3

\* The same for all the numbers.
LEMMA AllNumbers ==
  ASSUME NEW P, 0 \in P, \A k \in Nat : k \in P => k + 1 \in P
  PROVE  \A k \in Nat : k \in P
<1> SUFFICES ASSUME NEW n \in Nat PROVE n \in P
  OBVIOUS
<1>1. \A k \in 1..n : k - 1 \in P => k \in P
  <2> SUFFICES ASSUME NEW k \in 1..n, k - 1 \in P PROVE k \in P
    OBVIOUS
  <2>1. k - 1 \in Nat /\ (k - 1) + 1 = k
    OBVIOUS
  <2> QED BY <2>1
<1>2. \A k \in 0..n : k \in P
  BY <1>1, UpTo
<1> QED BY <1>2

\* A set of sets that holds every part T of a finite set of which it holds all
\* the parts with one element less, holds them all.
LEMMA AllParts ==
  ASSUME NEW S, IsFiniteSet(S), NEW P,
         \A T \in SUBSET S : (\A x \in T : T \ {x} \in P) => T \in P
  PROVE  \A T \in SUBSET S : T \in P
<1> DEFINE Q == {k \in Nat : \A T \in SUBSET S : Cardinality(T) = k => T \in P}
<1>1. \A T \in SUBSET S : IsFiniteSet(T) /\ Cardinality(T) \in Nat
  BY FS_Subset, FS_CardinalityType
<1>2. 0 \in Q
  <2> SUFFICES ASSUME NEW T \in SUBSET S, Cardinality(T) = 0 PROVE T \in P
    OBVIOUS
  <2>1. T = {}
    BY <1>1, FS_EmptySet
  <2> QED BY <2>1
<1>3. ASSUME NEW k \in Nat, k \in Q PROVE k + 1 \in Q
  <2> SUFFICES ASSUME NEW T \in SUBSET S, Cardinality(T) = k + 1 PROVE T \in P
    OBVIOUS
  <2>1. ASSUME NEW x \in T PROVE T \ {x} \in P
    <3>1. Cardinality(T \ {x}) = Cardinality(T) - 1
      BY <1>1, FS_RemoveElement
    <3>2. T \ {x} \in SUBSET S /\ Cardinality(T \ {x}) = k
      BY <3>1
    <3> QED BY <1>3, <3>2
  <2> QED BY <2>1
<1>4. \A k \in Nat : k \in Q
  <2> HIDE DEF Q
  <2> QED BY <1>2, <1>3, AllNumbers
<1> QED BY <1>1, <1>4

-----------------------------------------------------------------------------
\* A sum is what its recursive definition says: one element is chosen and
\* added to the sum of the others.
LEMMA SumChosen ==
  ASSUME NEW f, NEW S, IsFiniteSet(S)
  PROVE  /\ S = {} => SumFunctionOnSet(f, S) = 0
         /\ S # {} => \E x \in S : SumFunctionOnSet(f, S) = f[x] + SumFunctionOnSet(f, S \ {x})
<1> DEFINE one(s) == CHOOSE x \in s : TRUE
           Body(g, s) == IF s = {} THEN 0 ELSE f[one(s)] + g[s \ {one(s)}]
           Is(g, R) == g = [s \in SUBSET R |-> Body(g, s)]
           iter(R) == CHOOSE g : Is(g, R)
<1>1. \A R : SumFunctionOnSet(f, R) = iter(R)[R]
  BY DEF SumFunctionOnSet, FoldFunctionOnSet, MapThenFoldSet
<1>2. \A s : s # {} => one(s) \in s
  OBVIOUS
<1> HIDE DEF one
<1>3. ASSUME NEW R, IsFiniteSet(R) PROVE \E g : Is(g, R)
  <2> DEFINE Small(k) == {s \in SUBSET R : Cardinality(s) <= k}
             Upto(g, k) == g = [s \in Small(k) |-> Body(g, s)]
             P == {k \in Nat : \E g : Upto(g, k)}
  <2>1. \A s \in SUBSET R : IsFiniteSet(s) /\ Cardinality(s) \in Nat
    BY <1>3, FS_Subset, FS_CardinalityType
  <2>2. \A s \in SUBSET R : s # {} =>
          s \ {one(s)} \in SUBSET R /\ Cardinality(s \ {one(s)}) = Cardinality(s) - 1
    BY <1>2, <2>1, FS_RemoveElement
  <2>3. 0 \in P
    <3> DEFINE g == [s \in Small(0) |-> 0]
    <3>1. \A s \in Small(0) : s = {}
      BY <2>1, FS_EmptySet
    <3>2. \A s \in Small(0) : g[s] = Body(g, s)
      BY <3>1
    <3>3. g = [s \in Small(0) |-> Body(g, s)]
      BY <3>2
    <3> QED BY <3>3
  <2>4. ASSUME NEW k \in Nat, k \in P PROVE k + 1 \in P
    <3>1. PICK g : Upto(g, k)
      BY <2>4
    <3> DEFINE h == [s \in Small(k + 1) |-> Body(g, s)]
    <3>2. ASSUME NEW s \in Small(k) PROVE h[s] = g[s]
      <4>1. s \in Small(k + 1)
        BY <2>1
      <4>2. g[s] = Body(g, s)
        BY <3>1
      <4> QED BY <4>1, <4>2
    <3>3. ASSUME NEW s \in Small(k + 1) PROVE Body(g, s) = Body(h, s)
      <4>1. s # {} => s \ {one(s)} \in Small(k)
        BY <2>1, <2>2
      <4> HIDE DEF h
      <4> QED BY <3>2, <4>1
    <3>4. \A s \in Small(k + 1) : h[s] = Body(h, s)
      <4>1. \A s \in Small(k + 1) : h[s] = Body(g, s)
        BY DEF h
      <4> HIDE DEF h, Body
      <4> QED BY <3>3, <4>1
    <3>5. h = [s \in Small(k + 1) |-> h[s]]
      OBVIOUS
    <3>6. Upto(h, k + 1)
      <4> HIDE DEF h, Body, Small
      <4> QED BY <3>4, <3>5
    <3> HIDE DEF h, Upto
    <3> QED BY <3>6
  <2>5. Cardinality(R) \in P
    <3> HIDE DEF P
    <3> QED BY <1>3, <2>3, <2>4, AllNumbers, FS_CardinalityType
  <2>6. Small(Cardinality(R)) = SUBSET R
    <3>1. \A s \in SUBSET R : Cardinality(s) <= Cardinality(R)
      BY <1>3, FS_Subset
    <3> QED BY <3>1
  <2> QED BY <2>5, <2>6
<1>4. ASSUME NEW R, IsFiniteSet(R)
      PROVE  \A s \in SUBSET R : iter(R)[s] = Body(iter(R), s)
  <2>1. Is(iter(R), R)
    <3> HIDE DEF Is
    <3> QED BY <1>3, <1>4
  <2> HIDE DEF iter, Body
  <2> QED BY <2>1
<1>5. ASSUME NEW R, IsFiniteSet(R), NEW Q \in SUBSET R
      PROVE  \A s \in SUBSET Q : iter(Q)[s] = iter(R)[s]
  <2> DEFINE P == {s \in SUBSET Q : iter(Q)[s] = iter(R)[s]}
  <2>1. IsFiniteSet(Q)
    BY <1>5, FS_Subset
  <2> HIDE DEF iter
  <2>2. ASSUME NEW s \in SUBSET Q, \A x \in s : s \ {x} \in P PROVE s \in P
    <3>1. iter(Q)[s] = Body(iter(Q), s) /\ iter(R)[s] = Body(iter(R), s)
      <4> HIDE DEF Body
      <4>1. s \in SUBSET R
        OBVIOUS
      <4> QED BY <1>4, <1>5, <2>1, <4>1
    <3>2. s # {} => iter(Q)[s \ {one(s)}] = iter(R)[s \ {one(s)}]
      BY <1>2, <2>2
    <3> QED BY <3>1, <3>2
  <2>3. \A s \in SUBSET Q : s \in P
    <3> HIDE DEF P
    <3> QED BY <2>1, <2>2, AllParts
  <2> QED BY <2>3
<1> HIDE DEF iter
<1>6. SumFunctionOnSet(f, S) = Body(iter(S), S)
  <2> HIDE DEF Body
  <2> QED BY <1>1, <1>4
<1>7. S # {} => iter(S)[S \ {one(S)}] = SumFunctionOnSet(f, S \ {one(S)})
  <2>1. S \ {one(S)} \in SUBSET S
    OBVIOUS
  <2> QED BY <1>1, <1>5, <2>1
<1> QED BY <1>2, <1>6, <1>7

\* A sum of numbers is a number, and any element may be taken out first.
LEMMA SumPick ==
  ASSUME NEW f, NEW S, IsFiniteSet(S), \A x \in S : f[x] \in Nat
  PROVE  /\ SumFunctionOnSet(f, S) \in Nat
         /\ S = {} => SumFunctionOnSet(f, S) = 0
         /\ \A x \in S : SumFunctionOnSet(f, S) = f[x] + SumFunctionOnSet(f, S \ {x})
<1> DEFINE sum(T) == SumFunctionOnSet(f, T)
           P == {T \in SUBSET S : sum(T) \in Nat}
           Q == {T \in SUBSET S : \A x \in T : sum(T) = f[x] + sum(T \ {x})}
<1>0. \A T \in SUBSET S : IsFiniteSet(T)
  BY FS_Subset
<1>1. \A T \in SUBSET S : /\ T = {} => sum(T) = 0
                          /\ T # {} => \E x \in T : sum(T) = f[x] + sum(T \ {x})
  BY <1>0, SumChosen
<1> HIDE DEF sum
<1>2. \A T \in SUBSET S : sum(T) \in Nat
  <2>1. ASSUME NEW T \in SUBSET S, \A x \in T : T \ {x} \in P PROVE T \in P
    <3>1. CASE T = {}
      BY <1>1, <3>1
    <3>2. CASE T # {}
      <4>1. PICK x \in T : sum(T) = f[x] + sum(T \ {x})
        BY <1>1, <3>2
      <4>2. f[x] \in Nat /\ sum(T \ {x}) \in Nat
        BY <2>1
      <4> QED BY <4>1, <4>2
    <3> QED BY <3>1, <3>2
  <2>2. \A T \in SUBSET S : T \in P
    <3> HIDE DEF P
    <3> QED BY <2>1, AllParts
  <2> QED BY <2>2
<1>3. \A T \in SUBSET S : \A x \in T : sum(T) = f[x] + sum(T \ {x})
  <2>1. ASSUME NEW T \in SUBSET S, \A x \in T : T \ {x} \in Q PROVE T \in Q
    <3> SUFFICES ASSUME NEW x \in T PROVE sum(T) = f[x] + sum(T \ {x})
      OBVIOUS
    <3>1. PICK c \in T : sum(T) = f[c] + sum(T \ {c})
      BY <1>1
    <3>2. CASE c = x
      BY <3>1, <3>2
    <3>3. CASE c # x
      <4> DEFINE rest == sum((T \ {c}) \ {x})
      <4>1. (T \ {c}) \ {x} = (T \ {x}) \ {c}
        OBVIOUS
      <4>2. sum(T \ {c}) = f[x] + rest
        BY <2>1, <3>3
      <4>3. sum(T \ {x}) = f[c] + rest
        BY <2>1, <3>3, <4>1
      <4>4. f[x] \in Nat /\ f[c] \in Nat /\ rest \in Nat
        BY <1>2
      <4> HIDE DEF rest
      <4> QED BY <3>1, <4>2, <4>3, <4>4
    <3> QED BY <3>2, <3>3
  <2>2. \A T \in SUBSET S : T \in Q
    <3> HIDE DEF Q
    <3> QED BY <2>1, AllParts
  <2> QED BY <2>2
<1> QED BY <1>1, <1>2, <1>3 DEF sum

\* Two functions that agree on a set have the same sum over it.
LEMMA SumSame ==
  ASSUME NEW S, IsFiniteSet(S), NEW f, NEW g,
         \A x \in S : f[x] \in Nat /\ g[x] = f[x]
  PROVE  SumFunctionOnSet(f, S) = SumFunctionOnSet(g, S)
<1> DEFINE P == {T \in SUBSET S : SumFunctionOnSet(f, T) = SumFunctionOnSet(g, T)}
<1>1. ASSUME NEW T \in SUBSET S, \A x \in T : T \ {x} \in P PROVE T \in P
  <2>1. IsFiniteSet(T)
    BY FS_Subset
  <2>2. CASE T = {}
    BY <2>1, <2>2, SumChosen
  <2>3. CASE T # {}
    <3>1. PICK x \in T : SumFunctionOnSet(f, T) = f[x] + SumFunctionOnSet(f, T \ {x})
      BY <2>1, <2>3, SumChosen
    <3>2. SumFunctionOnSet(g, T) = g[x] + SumFunctionOnSet(g, T \ {x})
      BY <2>1, SumPick
    <3> QED BY <1>1, <3>1, <3>2
  <2> QED BY <2>2, <2>3
<1>2. \A T \in SUBSET S : T \in P
  <2> HIDE DEF P
  <2> QED BY <1>1, AllParts
<1> QED BY <1>2

\* Adding the numbers up in pairs, the odd one alone, leaves their sum.
LEMMA SumPairs ==
  ASSUME NEW n \in Nat, NEW f, NEW g, \A x \in 1..n : f[x] \in Nat,
         \A j \in 1..((n + 1) \div 2) :
           g[j] = f[2 * j - 1] + (IF 2 * j <= n THEN f[2 * j] ELSE 0)
  PROVE  SumFunctionOnSet(g, 1..((n + 1) \div 2)) = SumFunctionOnSet(f, 1..n)
<1> DEFINE m == (n + 1) \div 2
           ends(j) == IF 2 * j <= n THEN 2 * j ELSE n
           F(k) == SumFunctionOnSet(f, 1..k)
           G(k) == SumFunctionOnSet(g, 1..k)
           P == {j \in 0..m : G(j) = F(ends(j))}
<1>0. m \in Nat /\ (2 * m = n \/ 2 * m = n + 1)
  OBVIOUS
<1>1. F(0) = 0 /\ \A k \in 1..n : F(k) = f[k] + F(k - 1) /\ F(k - 1) \in Nat
  <2>1. ASSUME NEW k \in 0..n PROVE IsFiniteSet(1..k) /\ \A x \in 1..k : f[x] \in Nat
    <3>1. 1 \in Int /\ k \in Int
      OBVIOUS
    <3>2. IsFiniteSet(1..k)
      BY <3>1, FS_Interval
    <3> QED BY <3>2
  <2>2. F(0) = 0
    <3>1. 1..0 = {} /\ 0 \in 0..n
      OBVIOUS
    <3> QED BY <2>1, <3>1, SumPick
  <2>3. ASSUME NEW k \in 1..n PROVE F(k) = f[k] + F(k - 1) /\ F(k - 1) \in Nat
    <3>1. k \in 1..k /\ (1..k) \ {k} = 1..(k - 1) /\ k \in 0..n /\ k - 1 \in 0..n
      OBVIOUS
    <3> DEFINE K == 1..k
    <3>2. F(k) = f[k] + SumFunctionOnSet(f, K \ {k})
      <4>1. IsFiniteSet(K) /\ (\A x \in K : f[x] \in Nat) /\ k \in K /\ F(k) = SumFunctionOnSet(f, K)
        BY <2>1, <3>1
      <4> HIDE DEF K, F
      <4> QED BY <4>1, SumPick
    <3>3. F(k - 1) \in Nat
      BY <2>1, <3>1, SumPick
    <3> QED BY <3>1, <3>2, <3>3
  <2> QED BY <2>2, <2>3
<1>2. ASSUME NEW j \in 1..m
      PROVE  /\ 2 * j - 1 \in 1..n /\ (2 * j <= n => 2 * j \in 1..n)
             /\ g[j] \in Nat /\ g[j] = f[2 * j - 1] + (IF 2 * j <= n THEN f[2 * j] ELSE 0)
  <2>1. 2 * j - 1 \in 1..n /\ (2 * j <= n => 2 * j \in 1..n)
    BY <1>0
  <2> QED BY <2>1
<1>3. G(0) = 0 /\ \A k \in 1..m : G(k) = g[k] + G(k - 1)
  <2>1. ASSUME NEW k \in 0..m PROVE IsFiniteSet(1..k) /\ \A x \in 1..k : g[x] \in Nat
    <3>1. \A x \in 1..k : x \in 1..m
      BY <1>0
    <3> HIDE DEF m
    <3> QED BY <1>2, <3>1, FS_Interval
  <2>2. G(0) = 0
    <3>1. 1..0 = {} /\ 0 \in 0..m
      BY <1>0
    <3> QED BY <2>1, <3>1, SumPick
  <2>3. ASSUME NEW k \in 1..m PROVE G(k) = g[k] + G(k - 1)
    <3>1. k \in 1..k /\ (1..k) \ {k} = 1..(k - 1) /\ k \in 0..m
      BY <1>0
    <3> DEFINE K == 1..k
    <3>2. G(k) = g[k] + SumFunctionOnSet(g, K \ {k})
      <4>1. IsFiniteSet(K) /\ (\A x \in K : g[x] \in Nat) /\ k \in K /\ G(k) = SumFunctionOnSet(g, K)
        BY <2>1, <3>1
      <4> HIDE DEF K, G
      <4> QED BY <4>1, SumPick
    <3> QED BY <3>1, <3>2
  <2> QED BY <2>2, <2>3
<1> HIDE DEF F, G, m
<1>4. 0 \in P
  BY <1>0, <1>1, <1>3
<1>5. ASSUME NEW j \in 1..m, j - 1 \in P PROVE j \in P
  <2>1. G(j) = g[j] + F(2 * j - 2)
    <3>1. j - 1 \in 0..m /\ 2 * (j - 1) <= n /\ 2 * (j - 1) = 2 * j - 2
      BY <1>0
    <3> QED BY <1>3, <1>5, <3>1
  <2>2. F(2 * j - 1) = f[2 * j - 1] + F(2 * j - 2) /\ F(2 * j - 2) \in Nat
    <3>1. 2 * j - 1 \in 1..n /\ (2 * j - 1) - 1 = 2 * j - 2
      BY <1>2
    <3> QED BY <1>1, <3>1
  <2>3. CASE 2 * j <= n
    <3>1. 2 * j \in 1..n /\ 2 * j - 1 \in 1..n
      BY <1>2, <2>3
    <3>2. F(2 * j) = f[2 * j] + F(2 * j - 1)
      BY <1>1, <3>1
    <3>3. f[2 * j] \in Nat /\ f[2 * j - 1] \in Nat
      BY <3>1
    <3>4. G(j) = F(2 * j)
      BY <1>2, <2>1, <2>2, <2>3, <3>2, <3>3
    <3> QED BY <2>3, <3>4
  <2>4. CASE ~(2 * j <= n)
    <3>1. 2 * j - 1 = n /\ f[2 * j - 1] \in Nat
      BY <1>2, <2>4
    <3>2. G(j) = F(n)
      BY <1>2, <2>1, <2>2, <2>4, <3>1
    <3> QED BY <2>4, <3>2
  <2> QED BY <2>3, <2>4
<1>6. m \in P
  <2>1. m \in 0..m
    BY <1>0
  <2> HIDE DEF P
  <2> QED BY <1>0, <1>4, <1>5, <2>1, UpTo
<1>7. ends(m) = n
  BY <1>0
<1> QED BY <1>6, <1>7 DEF F, G, m

\* No two of the numbers add up to more than the sum.
LEMMA SumOfTwo ==
  ASSUME NEW f, NEW S, IsFiniteSet(S), \A x \in S : f[x] \in Nat,
         NEW x \in S, NEW y \in S, x # y
  PROVE  f[x] + f[y] <= SumFunctionOnSet(f, S)
<1>1. IsFiniteSet(S \ {x}) /\ y \in S \ {x} /\ IsFiniteSet((S \ {x}) \ {y})
  BY FS_RemoveElement
<1>2. SumFunctionOnSet(f, S) = f[x] + SumFunctionOnSet(f, S \ {x})
  BY SumPick
<1>3. SumFunctionOnSet(f, S \ {x}) = f[y] + SumFunctionOnSet(f, (S \ {x}) \ {y})
  BY <1>1, SumPick
<1>4. SumFunctionOnSet(f, (S \ {x}) \ {y}) \in Nat
  BY <1>1, SumPick
<1> QED BY <1>2, <1>3, <1>4


\* Nor does a sum depend on what the terms are counted by.
LEMMA SumMoved ==
  ASSUME NEW S, IsFiniteSet(S), NEW T, NEW s \in Bijection(S, T),
         NEW f, \A t \in T : f[t] \in Nat, NEW g, \A x \in S : g[x] = f[s[x]]
  PROVE  SumFunctionOnSet(g, S) = SumFunctionOnSet(f, T)
<1> DEFINE image(R) == {s[x] : x \in R}
           P == {R \in SUBSET S : SumFunctionOnSet(g, R) = SumFunctionOnSet(f, image(R))}
<1>0. /\ \A x \in S : s[x] \in T
      /\ \A x, y \in S : s[x] = s[y] => x = y
      /\ \A t \in T : \E x \in S : s[x] = t
  BY DEF Bijection, Injection, Surjection, IsInjective
<1>1. ASSUME NEW R \in SUBSET S PROVE IsFiniteSet(R) /\ IsFiniteSet(image(R)) /\ image(R) \subseteq T
  <2>1. IsFiniteSet(R)
    BY FS_Subset
  <2>2. IsFiniteSet(image(R))
    <3>1. s \in Surjection(S, T)
      BY DEF Bijection
    <3>2. IsFiniteSet(T)
      BY <3>1, FS_Surjection
    <3>3. image(R) \subseteq T
      BY <1>0
    <3> HIDE DEF image
    <3> QED BY <3>2, <3>3, FS_Subset
  <2> QED BY <1>0, <2>1, <2>2
<1>2. ASSUME NEW R \in SUBSET S, \A x \in R : R \ {x} \in P PROVE R \in P
  <2>1. CASE R = {}
    <3>1. image(R) = {}
      BY <2>1
    <3> QED BY <1>1, <2>1, <3>1, SumChosen
  <2>2. CASE R # {}
    <3>1. PICK x \in R : TRUE
      BY <2>2
    <3>2. image(R) \ {s[x]} = image(R \ {x})
      <4>1. \A y \in R : s[y] = s[x] => y = x
        BY <1>0
      <4> QED BY <4>1
    <3>3. SumFunctionOnSet(g, R) = g[x] + SumFunctionOnSet(g, R \ {x})
      <4>1. \A y \in R : g[y] \in Nat
        BY <1>0
      <4> QED BY <1>1, <4>1, SumPick
    <3>4. SumFunctionOnSet(f, image(R)) = f[s[x]] + SumFunctionOnSet(f, image(R) \ {s[x]})
      <4>1. \A y \in image(R) : f[y] \in Nat
        BY <1>0
      <4>2. s[x] \in image(R)
        OBVIOUS
      <4> HIDE DEF image
      <4> QED BY <1>1, <4>1, <4>2, SumPick
    <3>5. SumFunctionOnSet(g, R \ {x}) = SumFunctionOnSet(f, image(R \ {x}))
      BY <1>2
    <3> HIDE DEF image
    <3> QED BY <3>2, <3>3, <3>4, <3>5
  <2> QED BY <2>1, <2>2
<1>3. S \in P
  <2>1. \A R \in SUBSET S : (\A x \in R : R \ {x} \in P) => R \in P
    BY <1>2
  <2> HIDE DEF P
  <2>2. \A R \in SUBSET S : R \in P
    BY <2>1, AllParts
  <2> QED BY <2>2
<1>4. image(S) = T
  BY <1>0
<1> QED BY <1>3, <1>4

\* A finite set of numbers has a greatest one.
LEMMA GreatestNumber ==
  ASSUME NEW S, IsFiniteSet(S), S \subseteq Nat, S # {}
  PROVE  \E m \in S : \A j \in S : j <= m
<1> DEFINE P == {R \in SUBSET S : R # {} => \E m \in R : \A j \in R : j <= m}
<1>1. ASSUME NEW R \in SUBSET S, \A x \in R : R \ {x} \in P, R # {}
      PROVE  \E m \in R : \A j \in R : j <= m
  <2>1. PICK x \in R : TRUE
    BY <1>1
  <2>2. CASE R \ {x} = {}
    <3>1. \A j \in R : j = x
      BY <2>2
    <3>2. x \in Nat
      OBVIOUS
    <3> QED BY <3>1, <3>2
  <2>3. CASE R \ {x} # {}
    <3>1. PICK m \in R \ {x} : \A j \in R \ {x} : j <= m
      BY <1>1, <2>3
    <3>2. x \in Nat /\ m \in Nat /\ \A j \in R : j = x \/ j <= m
      BY <3>1
    <3>3. CASE x <= m
      BY <3>2, <3>3
    <3>4. CASE ~(x <= m)
      <4>1. \A j \in R : j <= x
        <5> SUFFICES ASSUME NEW j \in R PROVE j <= x
          OBVIOUS
        <5>1. j \in Nat /\ (j = x \/ j <= m)
          BY <3>2
        <5> QED BY <3>2, <3>4, <5>1
      <4> QED BY <4>1
    <3> QED BY <3>3, <3>4
  <2> QED BY <2>2, <2>3
<1>2. S \in P
  <2>1. \A R \in SUBSET S : (\A x \in R : R \ {x} \in P) => R \in P
    BY <1>1
  <2> HIDE DEF P
  <2> QED BY <2>1, AllParts
<1> QED BY <1>2

\* A finite set of numbers can be put in order.
LEMMA CanBeSorted ==
  ASSUME NEW S, IsFiniteSet(S), S \subseteq Nat
  PROVE  \E s \in Bijection(1..Cardinality(S), S) :
           \A i, j \in 1..Cardinality(S) : i < j => s[i] < s[j]
<1> DEFINE Sorts(s, R, n) ==
             /\ s \in [1..n -> R]
             /\ \A t \in R : \E i \in 1..n : s[i] = t
             /\ \A i, j \in 1..n : i < j => s[i] < s[j]
           P == {R \in SUBSET S : \E s : Sorts(s, R, Cardinality(R))}
<1>1. ASSUME NEW R \in SUBSET S, \A x \in R : R \ {x} \in P PROVE R \in P
  <2>1. IsFiniteSet(R) /\ Cardinality(R) \in Nat
    BY FS_Subset, FS_CardinalityType
  <2>2. CASE R = {}
    <3>1. Cardinality(R) = 0
      BY <2>2, FS_EmptySet
    <3>2. 1..0 = {}
      OBVIOUS
    <3>3. Sorts([i \in 1..0 |-> i], R, 0)
      BY <2>2, <3>2
    <3> HIDE DEF Sorts
    <3> QED BY <3>1, <3>3
  <2>3. CASE R # {}
    <3>1. PICK m \in R : \A j \in R : j <= m
      BY <2>1, <2>3, GreatestNumber
    <3> DEFINE Q == R \ {m}
               k == Cardinality(Q)
    <3>2. Cardinality(R) = k + 1 /\ k \in Nat
      <4>1. IsFiniteSet(Q) /\ Cardinality(Q) = Cardinality(R) - 1
        BY <2>1, FS_RemoveElement
      <4> QED BY <2>1, <4>1, FS_CardinalityType
    <3>3. PICK s : Sorts(s, Q, k)
      BY <1>1
    <3> HIDE DEF k
    <3> DEFINE h == [i \in 1..(k + 1) |-> IF i = k + 1 THEN m ELSE s[i]]
    <3>4. \A i \in 1..(k + 1) : i = k + 1 \/ i \in 1..k
      BY <3>2
    <3>5. \A i \in 1..k : i \in 1..(k + 1) /\ i # k + 1 /\ s[i] \in Q /\ h[i] = s[i]
      BY <3>2, <3>3
    <3>6. k + 1 \in 1..(k + 1) /\ h[k + 1] = m
      BY <3>2
    <3>7. h \in [1..(k + 1) -> R]
      BY <3>4, <3>5, <3>6
    <3>8. ASSUME NEW t \in R PROVE \E i \in 1..(k + 1) : h[i] = t
      <4>1. CASE t = m
        BY <3>6, <4>1
      <4>2. CASE t # m
        <5>1. PICK i \in 1..k : s[i] = t
          BY <3>3, <4>2
        <5> QED BY <3>5, <5>1
      <4> QED BY <4>1, <4>2
    <3>9. ASSUME NEW i \in 1..(k + 1), NEW j \in 1..(k + 1), i < j PROVE h[i] < h[j]
      <4>1. i \in 1..k
        BY <3>2, <3>9
      <4>2. CASE j \in 1..k
        BY <3>3, <3>5, <3>9, <4>1, <4>2
      <4>3. CASE j = k + 1
        <5>1. s[i] \in Nat /\ m \in Nat /\ s[i] <= m /\ s[i] # m
          BY <3>1, <3>5, <4>1
        <5>2. h[i] = s[i] /\ h[j] = m
          BY <3>5, <3>6, <4>1, <4>3
        <5> HIDE DEF h
        <5> QED BY <5>1, <5>2
      <4> QED BY <3>4, <4>2, <4>3
    <3>10. Sorts(h, R, k + 1)
      BY <3>7, <3>8, <3>9
    <3> HIDE DEF Sorts, h
    <3> QED BY <3>2, <3>10
  <2> QED BY <2>2, <2>3
<1>2. S \in P
  <2>1. \A R \in SUBSET S : (\A x \in R : R \ {x} \in P) => R \in P
    BY <1>1
  <2> HIDE DEF P
  <2> QED BY <2>1, AllParts
<1> DEFINE n == Cardinality(S)
<1>3. PICK s : Sorts(s, S, n)
  BY <1>2
<1>4. n \in Nat
  BY FS_CardinalityType
<1>5. ASSUME NEW i \in 1..n, NEW j \in 1..n, s[i] = s[j] PROVE i = j
  <2>1. s[i] \in Nat
    BY <1>3
  <2>2. ~(i < j) /\ ~(j < i)
    BY <1>3, <1>5, <2>1
  <2> QED BY <2>2
<1>6. s \in Bijection(1..n, S)
  BY <1>3, <1>5 DEF Bijection, Injection, Surjection, IsInjective
<1> QED BY <1>3, <1>6

-----------------------------------------------------------------------------
(***************************************************************************)
(* The fold, the tree and the proof, unfolded.                             *)
(***************************************************************************)
\* The running node of the fold is what its recursion says.
LEMMA FoldedIs ==
  ASSUME NEW leaf, NEW steps, Len(steps) \in Nat
  PROVE  /\ Folded(leaf, steps)[0] = leaf
         /\ \A k \in 1..Len(steps) :
              Folded(leaf, steps)[k] =
                IF steps[k].onLeft THEN Combine(steps[k].sibling, Folded(leaf, steps)[k - 1])
                                   ELSE Combine(Folded(leaf, steps)[k - 1], steps[k].sibling)
<1> DEFINE Body(g, k) == IF k = 0 THEN leaf
                         ELSE IF steps[k].onLeft THEN Combine(steps[k].sibling, g[k - 1])
                                                 ELSE Combine(g[k - 1], steps[k].sibling)
           Is(g, m) == g = [k \in 0..m |-> Body(g, k)]
           n == Len(steps)
           P == {m \in Nat : \E g : Is(g, m)}
<1>1. Folded(leaf, steps) = CHOOSE g : Is(g, n)
  BY DEF Folded
<1>2. 0 \in P
  <2> DEFINE g == [k \in 0..0 |-> leaf]
  <2>1. \A k \in 0..0 : g[k] = Body(g, k)
    OBVIOUS
  <2>2. g = [k \in 0..0 |-> Body(g, k)]
    BY <2>1
  <2> HIDE DEF g
  <2> QED BY <2>2
<1>3. ASSUME NEW m \in Nat, m \in P PROVE m + 1 \in P
  <2>1. PICK g : Is(g, m)
    BY <1>3
  <2> DEFINE h == [k \in 0..(m + 1) |-> Body(g, k)]
  <2>2. \A k \in 0..m : g[k] = Body(g, k)
    <3> HIDE DEF Body
    <3> QED BY <2>1
  <2>3. \A k \in 0..m : h[k] = g[k]
    <3> HIDE DEF Body
    <3> QED BY <2>2
  <2>4. ASSUME NEW k \in 0..(m + 1) PROVE Body(g, k) = Body(h, k)
    <3>1. k # 0 => k - 1 \in 0..m
      OBVIOUS
    <3> HIDE DEF h
    <3> QED BY <2>3, <3>1
  <2>5. h = [k \in 0..(m + 1) |-> Body(h, k)]
    <3>1. \A k \in 0..(m + 1) : h[k] = Body(g, k)
      OBVIOUS
    <3>2. h = [k \in 0..(m + 1) |-> h[k]]
      OBVIOUS
    <3> HIDE DEF h, Body
    <3> QED BY <2>4, <3>1, <3>2
  <2> HIDE DEF h, Body
  <2> QED BY <2>5
<1>4. n \in P
  <2> HIDE DEF P
  <2> QED BY <1>2, <1>3, AllNumbers
<1>5. Is(Folded(leaf, steps), n)
  <2>1. \E g : Is(g, n)
    BY <1>4
  <2> HIDE DEF Is
  <2> QED BY <1>1, <2>1
<1>6. \A k \in 0..n : Folded(leaf, steps)[k] = Body(Folded(leaf, steps), k)
  <2> HIDE DEF Body
  <2> QED BY <1>5
<1> QED BY <1>6

\* The levels of a tree are what their recursion says.
LEMMA BuiltIs ==
  ASSUME NEW leaves, Len(leaves) \in Nat
  PROVE  /\ Built(leaves)[0] = leaves
         /\ \A d \in 1..Len(leaves) : Built(leaves)[d] = Up(Built(leaves)[d - 1])
<1> DEFINE Body(g, d) == IF d = 0 THEN leaves ELSE Up(g[d - 1])
           Is(g, m) == g = [d \in 0..m |-> Body(g, d)]
           n == Len(leaves)
           P == {m \in Nat : \E g : Is(g, m)}
<1>1. Built(leaves) = CHOOSE g : Is(g, n)
  BY DEF Built
<1>2. 0 \in P
  <2> DEFINE g == [d \in 0..0 |-> leaves]
  <2>1. \A d \in 0..0 : g[d] = Body(g, d)
    OBVIOUS
  <2>2. g = [d \in 0..0 |-> Body(g, d)]
    BY <2>1
  <2> HIDE DEF g
  <2> QED BY <2>2
<1>3. ASSUME NEW m \in Nat, m \in P PROVE m + 1 \in P
  <2>1. PICK g : Is(g, m)
    BY <1>3
  <2> DEFINE h == [d \in 0..(m + 1) |-> Body(g, d)]
  <2>2. \A d \in 0..m : g[d] = Body(g, d)
    <3> HIDE DEF Body
    <3> QED BY <2>1
  <2>3. \A d \in 0..m : h[d] = g[d]
    <3> HIDE DEF Body
    <3> QED BY <2>2
  <2>4. ASSUME NEW d \in 0..(m + 1) PROVE Body(g, d) = Body(h, d)
    <3>1. d # 0 => d - 1 \in 0..m
      OBVIOUS
    <3> HIDE DEF h
    <3> QED BY <2>3, <3>1
  <2>5. h = [d \in 0..(m + 1) |-> Body(h, d)]
    <3>1. \A d \in 0..(m + 1) : h[d] = Body(g, d)
      OBVIOUS
    <3>2. h = [d \in 0..(m + 1) |-> h[d]]
      OBVIOUS
    <3> HIDE DEF h, Body
    <3> QED BY <2>4, <3>1, <3>2
  <2> HIDE DEF h, Body
  <2> QED BY <2>5
<1>4. n \in P
  <2> HIDE DEF P
  <2> QED BY <1>2, <1>3, AllNumbers
<1>5. Is(Built(leaves), n)
  <2>1. \E g : Is(g, n)
    BY <1>4
  <2> HIDE DEF Is
  <2> QED BY <1>1, <2>1
<1>6. \A d \in 0..n : Built(leaves)[d] = Body(Built(leaves), d)
  <2> HIDE DEF Body
  <2> QED BY <1>5
<1> QED BY <1>6

\* A list, of whatever, that is not empty.
IsLevel(s) == Len(s) \in Nat \ {0} /\ DOMAIN s = 1..Len(s)

\* The level above is a level, about half as long.
LEMMA UpIsLevel ==
  ASSUME NEW s, IsLevel(s)
  PROVE  /\ IsLevel(Up(s)) /\ Len(Up(s)) = (Len(s) + 1) \div 2
         /\ \A j \in 1..Len(Up(s)) :
              /\ 2 * j - 1 \in 1..Len(s)
              /\ 2 * j <= Len(s) => Up(s)[j] = Combine(s[2 * j - 1], s[2 * j])
              /\ 2 * j > Len(s) => Up(s)[j] = s[2 * j - 1]
<1> DEFINE m == (Len(s) + 1) \div 2
           e(j) == IF 2 * j <= Len(s) THEN Combine(s[2 * j - 1], s[2 * j]) ELSE Odd(s[2 * j - 1])
<1>1. m \in Nat \ {0}
  BY DEF IsLevel
<1>2. Up(s) = [j \in 1..m |-> e(j)]
  BY DEF Up
<1> HIDE DEF e
<1>3. Up(s) \in [1..m -> {e(j) : j \in 1..m}]
  BY <1>2
<1>4. Len(Up(s)) = m /\ DOMAIN Up(s) = 1..m
  <2> HIDE DEF m
  <2> QED BY <1>1, <1>3
<1>5. \A j \in 1..m : Up(s)[j] = e(j)
  <2> HIDE DEF m
  <2> QED BY <1>2
<1>6. \A j \in 1..m : 2 * j - 1 \in 1..Len(s)
  BY DEF IsLevel
<1>7. \A j \in 1..m : 2 * j \in Nat
  OBVIOUS
<1> HIDE DEF m
<1> QED BY <1>1, <1>4, <1>5, <1>6, <1>7 DEF IsLevel, e, Odd, m

\* Every level is a level, and the last is the root alone.
LEMMA BuiltLevels ==
  ASSUME NEW leaves, IsLevel(leaves)
  PROVE  /\ \A d \in 0..Len(leaves) : IsLevel(Built(leaves)[d])
         /\ Len(Built(leaves)[Len(leaves)]) = 1
<1> DEFINE n == Len(leaves)
           level(d) == Built(leaves)[d]
           P == {d \in 0..n : IsLevel(level(d)) /\ (Len(level(d)) = 1 \/ Len(level(d)) <= n - d)}
<1>0. n \in Nat
  BY DEF IsLevel
<1>1. level(0) = leaves /\ \A d \in 1..n : level(d) = Up(level(d - 1))
  BY <1>0, BuiltIs
<1> HIDE DEF level
<1>2. 0 \in P
  BY <1>0, <1>1
<1>3. ASSUME NEW d \in 1..n, d - 1 \in P PROVE d \in P
  <2>1. IsLevel(level(d - 1)) /\ level(d) = Up(level(d - 1))
    BY <1>1, <1>3
  <2>2. IsLevel(level(d)) /\ Len(level(d)) = (Len(level(d - 1)) + 1) \div 2
    BY <2>1, UpIsLevel
  <2>3. Len(level(d - 1)) \in Nat \ {0}
    BY <2>1 DEF IsLevel
  <2>4. Len(level(d)) = 1 \/ Len(level(d)) <= n - d
    <3>1. \A l \in Nat \ {0} : l = 1 \/ l <= n - (d - 1) =>
            (l + 1) \div 2 = 1 \/ (l + 1) \div 2 <= n - d
      BY <1>0
    <3> QED BY <1>3, <2>2, <2>3, <3>1
  <2> QED BY <2>2, <2>4
<1>4. \A d \in 0..n : d \in P
  <2> HIDE DEF P
  <2> QED BY <1>0, <1>2, <1>3, UpTo
<1>5. n \in P
  BY <1>0, <1>4
<1>6. Len(level(n)) = 1
  BY <1>5 DEF IsLevel
<1> QED BY <1>4, <1>6 DEF level

-----------------------------------------------------------------------------
\* A set of hashes with what its inner nodes were hashed from.
IsClosed(H) == \A h \in H : h.kind = "node" => h.left \in H /\ h.right \in H

\* A leaf that folds to a hash of such a set is in the set itself, whatever
\* the steps are.
LEMMA FoldIsCommitted ==
  ASSUME NEW H, IsClosed(H), NEW leaf, NEW steps, Len(steps) \in Nat,
         Folded(leaf, steps)[Len(steps)].hash \in H
  PROVE  leaf.hash \in H
<1> DEFINE n == Len(steps)
           node(k) == Folded(leaf, steps)[k]
           P == {k \in 0..n : node(n - k).hash \in H}
<1>1. node(0) = leaf
  BY FoldedIs
<1>2. ASSUME NEW k \in 1..n, node(k).hash \in H PROVE node(k - 1).hash \in H
  <2>1. \/ node(k) = Combine(steps[k].sibling, node(k - 1))
        \/ node(k) = Combine(node(k - 1), steps[k].sibling)
    BY FoldedIs
  <2> HIDE DEF node
  <2>2. node(k).hash.kind = "node" /\ node(k - 1).hash \in {node(k).hash.left, node(k).hash.right}
    BY <2>1 DEF Combine, Node
  <2> QED BY <1>2, <2>2 DEF IsClosed
<1>3. 0 \in P
  OBVIOUS
<1> HIDE DEF node
<1>4. ASSUME NEW k \in 1..n, k - 1 \in P PROVE k \in P
  <2>1. n - (k - 1) \in 1..n /\ (n - (k - 1)) - 1 = n - k
    OBVIOUS
  <2> QED BY <1>2, <1>4, <2>1
<1>5. n \in P
  <2>1. n \in 0..n
    OBVIOUS
  <2> HIDE DEF P
  <2> QED BY <1>3, <1>4, <2>1, UpTo
<1> QED BY <1>1, <1>5

\* A tree's nodes, at every level, and their hashes.
NodesOf(leaves) ==
  UNION {{Built(leaves)[d][j] : j \in DOMAIN Built(leaves)[d]} : d \in 0..Len(leaves)}

HashesOf(leaves) == {node.hash : node \in NodesOf(leaves)}

\* No hash of a leaf is an inner node's.
AreLeaves(leaves) == \A j \in DOMAIN leaves : leaves[j].hash.kind # "node"

\* The hashes of a tree: every inner one was made from two of them, and the
\* others are the leaves'.
LEMMA TreeIsClosed ==
  ASSUME NEW leaves, IsLevel(leaves), AreLeaves(leaves)
  PROVE  /\ IsClosed(HashesOf(leaves))
         /\ Root(leaves).hash \in HashesOf(leaves)
         /\ \A h \in HashesOf(leaves) :
              /\ h.kind # "node" => \E j \in DOMAIN leaves : leaves[j].hash = h
              /\ h.kind = "node" => {"kind", "left", "right"} \subseteq DOMAIN h
<1> DEFINE n == Len(leaves)
           level(d) == Built(leaves)[d]
           H == HashesOf(leaves)
           Good(h) == /\ h.kind = "node" => /\ h.left \in H /\ h.right \in H
                                             /\ {"kind", "left", "right"} \subseteq DOMAIN h
                      /\ h.kind # "node" => \E j \in DOMAIN leaves : leaves[j].hash = h
           P == {d \in 0..n : \A j \in DOMAIN level(d) : Good(level(d)[j].hash)}
<1>0. n \in Nat
  BY DEF IsLevel
<1>1. level(0) = leaves /\ \A d \in 1..n : level(d) = Up(level(d - 1))
  BY <1>0, BuiltIs
<1>2. \A d \in 0..n : IsLevel(level(d))
  BY BuiltLevels
<1>3. \A d \in 0..n : \A j \in DOMAIN level(d) : level(d)[j].hash \in H
  BY DEF HashesOf, NodesOf
<1> HIDE DEF level, H
<1>4. 0 \in P
  <2>1. \A j \in DOMAIN leaves : Good(leaves[j].hash)
    BY DEF AreLeaves
  <2> HIDE DEF Good
  <2> QED BY <1>0, <1>1, <2>1
<1>5. ASSUME NEW d \in 1..n, d - 1 \in P PROVE d \in P
  <2> SUFFICES ASSUME NEW j \in DOMAIN level(d) PROVE Good(level(d)[j].hash)
    OBVIOUS
  <2> DEFINE s == level(d - 1)
  <2>0. d - 1 \in 0..n /\ d \in 0..n
    BY <1>0
  <2>1. IsLevel(s) /\ level(d) = Up(s) /\ IsLevel(level(d))
    BY <1>1, <1>2, <2>0
  <2>2. /\ 2 * j - 1 \in 1..Len(s)
        /\ 2 * j <= Len(s) => level(d)[j] = Combine(s[2 * j - 1], s[2 * j])
        /\ 2 * j > Len(s) => level(d)[j] = s[2 * j - 1]
    <3>1. j \in 1..Len(Up(s))
      BY <2>1 DEF IsLevel
    <3> HIDE DEF s
    <3> QED BY <2>1, <3>1, UpIsLevel
  <2>3. DOMAIN s = 1..Len(s) /\ Len(s) \in Nat /\ j \in Nat
    BY <2>1 DEF IsLevel
  <2>4. CASE 2 * j <= Len(s)
    <3>1. 2 * j \in DOMAIN s /\ 2 * j - 1 \in DOMAIN s
      BY <2>2, <2>3, <2>4
    <3>2. s[2 * j].hash \in H /\ s[2 * j - 1].hash \in H
      BY <1>3, <2>0, <3>1
    <3> HIDE DEF s
    <3>3. /\ level(d)[j].hash.kind = "node"
          /\ level(d)[j].hash.left = s[2 * j - 1].hash
          /\ level(d)[j].hash.right = s[2 * j].hash
          /\ {"kind", "left", "right"} \subseteq DOMAIN level(d)[j].hash
      BY <2>2, <2>4 DEF Combine, Node
    <3> QED BY <3>2, <3>3
  <2>5. CASE 2 * j > Len(s)
    <3>1. 2 * j - 1 \in DOMAIN s /\ level(d)[j] = s[2 * j - 1]
      BY <2>2, <2>3, <2>5
    <3> HIDE DEF Good
    <3> QED BY <1>5, <3>1
  <2> QED BY <2>3, <2>4, <2>5
<1>6. \A d \in 0..n : d \in P
  <2> HIDE DEF P
  <2> QED BY <1>0, <1>4, <1>5, UpTo
<1>7. ASSUME NEW h \in H PROVE Good(h)
  <2>1. PICK d \in 0..n : \E j \in DOMAIN level(d) : h = level(d)[j].hash
    BY DEF H, HashesOf, NodesOf, level
  <2> HIDE DEF Good
  <2> QED BY <1>6, <2>1
<1>8. Root(leaves).hash \in H
  <2>1. n \in 0..n /\ 1 \in DOMAIN level(n)
    BY <1>0, <1>2 DEF IsLevel
  <2>2. Root(leaves) = level(n)[1]
    BY DEF Root, level
  <2> QED BY <1>3, <2>1, <2>2
<1> QED BY <1>7, <1>8 DEF IsClosed, H

-----------------------------------------------------------------------------
\* The sums are at least the balances.
Bounds(balances, sums) == \A a \in Assets : At(balances, a) <= At(sums, a)

\* An amount map says a natural number of every asset.
LEMMA AtNat ==
  ASSUME NEW s \in AmountMaps, NEW a
  PROVE  At(s, a) \in Nat
BY MaxAmountAssumption DEF AmountMaps, At

\* Checked addition yields amounts, none below either of what was added.
LEMMA AddedBounds ==
  ASSUME NEW s \in AmountMaps, NEW t \in AmountMaps, Fits(Added(s, t))
  PROVE  /\ Added(s, t) \in AmountMaps
         /\ Bounds(s, Added(s, t)) /\ Bounds(t, Added(s, t))
<1> DEFINE sum == Added(s, t)
<1>1. \A a : At(s, a) \in Nat /\ At(t, a) \in Nat
  BY AtNat
<1>2. DOMAIN s \subseteq Assets /\ DOMAIN t \subseteq Assets
  BY DEF AmountMaps
<1>3. sum = [a \in DOMAIN s \cup DOMAIN t |-> At(s, a) + At(t, a)]
  BY DEF Added
<1>4. \A a \in DOMAIN sum : sum[a] \in 0..MaxAmount
  <2>1. \A a \in DOMAIN sum : sum[a] <= MaxAmount
    BY DEF Fits
  <2>2. \A a \in DOMAIN sum : sum[a] = At(s, a) + At(t, a)
    BY <1>3
  <2>3. \A a \in DOMAIN sum : sum[a] \in Nat
    BY <1>1, <2>2
  <2> QED BY <2>1, <2>3, MaxAmountAssumption
<1>5. sum \in [DOMAIN s \cup DOMAIN t -> 0..MaxAmount]
  BY <1>3, <1>4
<1>6. sum \in AmountMaps
  BY <1>2, <1>5 DEF AmountMaps
<1>7. ASSUME NEW a \in Assets
      PROVE  At(s, a) <= At(sum, a) /\ At(t, a) <= At(sum, a)
  <2>1. CASE a \in DOMAIN s \cup DOMAIN t
    <3>1. At(sum, a) = At(s, a) + At(t, a)
      BY <1>3, <2>1 DEF At
    <3> QED BY <1>1, <3>1
  <2>2. CASE a \notin DOMAIN s \cup DOMAIN t
    BY <1>3, <2>2 DEF At
  <2> QED BY <2>1, <2>2
<1> QED BY <1>6, <1>7 DEF Bounds

\* One bound after another.
LEMMA BoundsTransitive ==
  ASSUME NEW s \in AmountMaps, NEW t \in AmountMaps, NEW u \in AmountMaps,
         Bounds(s, t), Bounds(t, u)
  PROVE  Bounds(s, u)
<1> SUFFICES ASSUME NEW a \in Assets PROVE At(s, a) <= At(u, a)
  BY DEF Bounds
<1>1. At(s, a) \in Nat /\ At(t, a) \in Nat /\ At(u, a) \in Nat
  BY AtNat
<1>2. At(s, a) <= At(t, a) /\ At(t, a) <= At(u, a)
  BY DEF Bounds
<1> QED BY <1>1, <1>2

\* What is added to the sums of a leaf on the way up only makes them more.
LEMMA FoldBounds ==
  ASSUME NEW leaf, leaf.sums \in AmountMaps, NEW steps, Len(steps) \in Nat,
         \A k \in 1..Len(steps) : steps[k].sibling.sums \in AmountMaps,
         \A k \in 1..Len(steps) : Fits(Folded(leaf, steps)[k].sums)
  PROVE  /\ Folded(leaf, steps)[Len(steps)].sums \in AmountMaps
         /\ Bounds(leaf.sums, Folded(leaf, steps)[Len(steps)].sums)
<1> DEFINE n == Len(steps)
           node(k) == Folded(leaf, steps)[k]
           P == {k \in 0..n : node(k).sums \in AmountMaps /\ Bounds(leaf.sums, node(k).sums)}
<1>1. 0 \in P
  <2>1. node(0) = leaf
    BY FoldedIs
  <2>2. ASSUME NEW a \in Assets PROVE At(leaf.sums, a) <= At(leaf.sums, a)
    <3>1. At(leaf.sums, a) \in Nat
      BY AtNat
    <3> QED BY <3>1
  <2>3. Bounds(leaf.sums, leaf.sums)
    BY <2>2 DEF Bounds
  <2> HIDE DEF node
  <2> QED BY <2>1, <2>3
<1>2. ASSUME NEW k \in 1..n, k - 1 \in P PROVE k \in P
  <2> DEFINE sib == steps[k].sibling
             below == node(k - 1)
  <2>1. node(k) = Combine(sib, below) \/ node(k) = Combine(below, sib)
    BY FoldedIs
  <2>2. /\ below.sums \in AmountMaps /\ Bounds(leaf.sums, below.sums)
        /\ sib.sums \in AmountMaps /\ Fits(node(k).sums)
    BY <1>2
  <2> HIDE DEF node, sib, below
  <2>3. node(k).sums = Added(sib.sums, below.sums) \/ node(k).sums = Added(below.sums, sib.sums)
    BY <2>1 DEF Combine, Node
  <2>4. node(k).sums \in AmountMaps /\ Bounds(below.sums, node(k).sums)
    BY <2>2, <2>3, AddedBounds
  <2> QED BY <2>2, <2>4, BoundsTransitive
<1>3. n \in P
  <2>1. n \in 0..n
    OBVIOUS
  <2> HIDE DEF P
  <2> QED BY <1>1, <1>2, <2>1, UpTo
<1> QED BY <1>3

\* A customer's balances are within the totals to which its leaf folds.
LEMMA FoldsToBounds ==
  ASSUME NEW leaf, leaf.sums \in AmountMaps, NEW steps, Len(steps) \in Nat,
         \A k \in 1..Len(steps) : steps[k].sibling.sums \in AmountMaps,
         NEW root, FoldsTo(leaf, steps, root)
  PROVE  Bounds(leaf.sums, root.sums)
<1>1. Bounds(leaf.sums, Folded(leaf, steps)[Len(steps)].sums)
  BY FoldBounds DEF FoldsTo
<1>2. SameSums(Folded(leaf, steps)[Len(steps)].sums, root.sums)
  BY DEF FoldsTo
<1> QED BY <1>1, <1>2 DEF Bounds, SameSums

\* No asset is lost on the way up.
LEMMA FoldKeepsAssets ==
  ASSUME NEW leaf, NEW steps, Len(steps) \in Nat
  PROVE  DOMAIN leaf.sums \subseteq DOMAIN Folded(leaf, steps)[Len(steps)].sums
<1> DEFINE n == Len(steps)
           node(k) == Folded(leaf, steps)[k]
           P == {k \in 0..n : DOMAIN leaf.sums \subseteq DOMAIN node(k).sums}
<1>1. 0 \in P
  BY FoldedIs
<1>2. ASSUME NEW k \in 1..n, k - 1 \in P PROVE k \in P
  <2> DEFINE sib == steps[k].sibling
             below == node(k - 1)
  <2>1. node(k) = Combine(sib, below) \/ node(k) = Combine(below, sib)
    BY FoldedIs
  <2>2. DOMAIN leaf.sums \subseteq DOMAIN below.sums
    BY <1>2
  <2> HIDE DEF node, sib, below
  <2>3. node(k).sums = Added(sib.sums, below.sums) \/ node(k).sums = Added(below.sums, sib.sums)
    BY <2>1 DEF Combine, Node
  <2>4. \A s, t : DOMAIN Added(s, t) = DOMAIN s \cup DOMAIN t
    BY DEF Added
  <2>5. DOMAIN node(k).sums = DOMAIN sib.sums \cup DOMAIN below.sums
    <3>1. CASE node(k).sums = Added(sib.sums, below.sums)
      BY <2>4, <3>1, Zenon
    <3>2. CASE node(k).sums = Added(below.sums, sib.sums)
      <4>1. DOMAIN node(k).sums = DOMAIN below.sums \cup DOMAIN sib.sums
        BY <2>4, <3>2, Zenon
      <4> QED BY <4>1
    <3> QED BY <2>3, <3>1, <3>2
  <2>6. DOMAIN leaf.sums \subseteq DOMAIN node(k).sums
    BY <2>2, <2>5
  <2> QED BY <2>6 DEF node
<1>3. \A k \in 1..n : k - 1 \in P => k \in P
  BY <1>2
<1>4. n \in 0..n
  OBVIOUS
<1> HIDE DEF P
<1>5. n \in P
  BY <1>1, <1>3, <1>4, UpTo
<1> QED BY <1>5 DEF P

-----------------------------------------------------------------------------
\* A node and its sibling are paired in the level above; without a sibling the
\* node is there itself.
LEMMA StepGoesUp ==
  ASSUME NEW s, IsLevel(s), NEW x \in Nat, x < Len(s)
  PROVE  /\ x \div 2 \in Nat /\ x \div 2 < Len(Up(s))
         /\ \/ StepAt(s, x) = << >> /\ Up(s)[(x \div 2) + 1] = s[x + 1]
            \/ \E j \in DOMAIN s, b \in BOOLEAN :
                 /\ StepAt(s, x) = <<[sibling |-> s[j], onLeft |-> b]>>
                 /\ Up(s)[(x \div 2) + 1] =
                      IF b THEN Combine(s[j], s[x + 1]) ELSE Combine(s[x + 1], s[j])
<1> DEFINE y == x \div 2
           n == Len(s)
<1>0. n \in Nat \ {0} /\ DOMAIN s = 1..n
  BY DEF IsLevel
<1>1. Len(Up(s)) = (n + 1) \div 2
  BY UpIsLevel
<1>2. y \in Nat /\ y < (n + 1) \div 2 /\ (x = 2 * y \/ x = 2 * y + 1)
  BY <1>0
<1>3. /\ 2 * (y + 1) <= n => Up(s)[y + 1] = Combine(s[2 * (y + 1) - 1], s[2 * (y + 1)])
      /\ 2 * (y + 1) > n => Up(s)[y + 1] = s[2 * (y + 1) - 1]
  <2>1. y + 1 \in 1..Len(Up(s))
    BY <1>1, <1>2
  <2> HIDE DEF y
  <2> QED BY <2>1, UpIsLevel
<1> HIDE DEF y
<1>4. CASE x = 2 * y + 1
  <2>1. Sibling(x) = x - 1 /\ x - 1 < n /\ x - 1 < x
    BY <1>0, <1>2, <1>4 DEF Sibling
  <2>2. StepAt(s, x) = <<[sibling |-> s[x], onLeft |-> TRUE]>>
    <3>1. (x - 1) + 1 = x /\ (x - 1 < x) = TRUE
      OBVIOUS
    <3> QED BY <2>1, <3>1 DEF StepAt
  <2>3. Up(s)[y + 1] = Combine(s[x], s[x + 1])
    <3>1. 2 * (y + 1) = x + 1 /\ 2 * (y + 1) - 1 = x /\ 2 * (y + 1) <= n
      BY <1>0, <1>2, <1>4
    <3> QED BY <1>3, <3>1
  <2>4. x \in DOMAIN s
    BY <1>0, <1>2, <1>4
  <2> QED BY <1>1, <1>2, <2>2, <2>3, <2>4 DEF y
<1>5. CASE x = 2 * y /\ x + 1 < n
  <2>1. Sibling(x) = x + 1 /\ x + 1 < n /\ ~(x + 1 < x)
    BY <1>0, <1>2, <1>5 DEF Sibling
  <2>2. StepAt(s, x) = <<[sibling |-> s[x + 2], onLeft |-> FALSE]>>
    <3>1. (x + 1) + 1 = x + 2 /\ (x + 1 < x) = FALSE
      OBVIOUS
    <3> QED BY <2>1, <3>1 DEF StepAt
  <2>3. Up(s)[y + 1] = Combine(s[x + 1], s[x + 2])
    <3>1. 2 * (y + 1) = x + 2 /\ 2 * (y + 1) - 1 = x + 1 /\ 2 * (y + 1) <= n
      BY <1>0, <1>2, <1>5
    <3> QED BY <1>3, <3>1
  <2>4. x + 2 \in DOMAIN s
    BY <1>0, <1>2, <1>5
  <2> QED BY <1>1, <1>2, <2>2, <2>3, <2>4 DEF y
<1>6. CASE x = 2 * y /\ ~(x + 1 < n)
  <2>1. Sibling(x) = x + 1
    BY <1>2, <1>6 DEF Sibling
  <2>2. StepAt(s, x) = << >>
    BY <1>6, <2>1 DEF StepAt
  <2>3. 2 * (y + 1) > n /\ 2 * (y + 1) - 1 = x + 1
    BY <1>0, <1>2, <1>6
  <2> QED BY <1>1, <1>2, <1>3, <2>2, <2>3 DEF y
<1> QED BY <1>2, <1>4, <1>5, <1>6

\* The places of a leaf's ancestors are what their recursion says.
LEMMA AncestorIs ==
  ASSUME NEW i, NEW n \in Nat
  PROVE  /\ Ancestor(i, n)[0] = i
         /\ \A d \in 1..n : Ancestor(i, n)[d] = Ancestor(i, n)[d - 1] \div 2
<1> DEFINE Body(g, d) == IF d = 0 THEN i ELSE g[d - 1] \div 2
           Is(g, m) == g = [d \in 0..m |-> Body(g, d)]
           P == {m \in Nat : \E g : Is(g, m)}
<1>1. Ancestor(i, n) = CHOOSE g : Is(g, n)
  BY DEF Ancestor
<1>2. 0 \in P
  <2> DEFINE g == [d \in 0..0 |-> i]
  <2>1. \A d \in 0..0 : g[d] = Body(g, d)
    OBVIOUS
  <2>2. g = [d \in 0..0 |-> Body(g, d)]
    BY <2>1
  <2> HIDE DEF g
  <2> QED BY <2>2
<1>3. ASSUME NEW m \in Nat, m \in P PROVE m + 1 \in P
  <2>1. PICK g : Is(g, m)
    BY <1>3
  <2> DEFINE h == [d \in 0..(m + 1) |-> Body(g, d)]
  <2>2. \A d \in 0..m : g[d] = Body(g, d)
    <3> HIDE DEF Body
    <3> QED BY <2>1
  <2>3. \A d \in 0..m : h[d] = g[d]
    <3> HIDE DEF Body
    <3> QED BY <2>2
  <2>4. ASSUME NEW d \in 0..(m + 1) PROVE Body(g, d) = Body(h, d)
    <3>1. d # 0 => d - 1 \in 0..m
      OBVIOUS
    <3> HIDE DEF h
    <3> QED BY <2>3, <3>1
  <2>5. h = [d \in 0..(m + 1) |-> Body(h, d)]
    <3>1. \A d \in 0..(m + 1) : h[d] = Body(g, d)
      OBVIOUS
    <3>2. h = [d \in 0..(m + 1) |-> h[d]]
      OBVIOUS
    <3> HIDE DEF h, Body
    <3> QED BY <2>4, <3>1, <3>2
  <2> HIDE DEF h, Body
  <2> QED BY <2>5
<1>4. n \in P
  <2> HIDE DEF P
  <2> QED BY <1>2, <1>3, AllNumbers
<1>5. Is(Ancestor(i, n), n)
  <2>1. \E g : Is(g, n)
    BY <1>4
  <2> HIDE DEF Is
  <2> QED BY <1>1, <2>1
<1>6. \A d \in 0..n : Ancestor(i, n)[d] = Body(Ancestor(i, n), d)
  <2> HIDE DEF Body
  <2> QED BY <1>5
<1> QED BY <1>6

\* The steps of a proof are what their recursion says.
LEMMA ProofToIs ==
  ASSUME NEW leaves, Len(leaves) \in Nat, NEW i
  PROVE  /\ ProofTo(leaves, i)[0] = << >>
         /\ \A d \in 1..Len(leaves) :
              ProofTo(leaves, i)[d] =
                ProofTo(leaves, i)[d - 1] \o
                  StepAt(Built(leaves)[d - 1], Ancestor(i, Len(leaves))[d - 1])
<1> DEFINE n == Len(leaves)
           at(d) == StepAt(Built(leaves)[d], Ancestor(i, n)[d])
           Body(g, d) == IF d = 0 THEN << >> ELSE g[d - 1] \o at(d - 1)
           Is(g, m) == g = [d \in 0..m |-> Body(g, d)]
           P == {m \in Nat : \E g : Is(g, m)}
<1>1. ProofTo(leaves, i) = CHOOSE g : Is(g, n)
  BY DEF ProofTo
<1> HIDE DEF at
<1>2. 0 \in P
  <2> DEFINE g == [d \in 0..0 |-> << >>]
  <2>1. \A d \in 0..0 : g[d] = Body(g, d)
    OBVIOUS
  <2>2. g = [d \in 0..0 |-> Body(g, d)]
    BY <2>1
  <2> HIDE DEF g
  <2> QED BY <2>2
<1>3. ASSUME NEW m \in Nat, m \in P PROVE m + 1 \in P
  <2>1. PICK g : Is(g, m)
    BY <1>3
  <2> DEFINE h == [d \in 0..(m + 1) |-> Body(g, d)]
  <2>2. \A d \in 0..m : g[d] = Body(g, d)
    <3> HIDE DEF Body
    <3> QED BY <2>1
  <2>3. \A d \in 0..m : h[d] = g[d]
    <3> HIDE DEF Body
    <3> QED BY <2>2
  <2>4. ASSUME NEW d \in 0..(m + 1) PROVE Body(g, d) = Body(h, d)
    <3>1. d # 0 => d - 1 \in 0..m
      OBVIOUS
    <3> HIDE DEF h
    <3> QED BY <2>3, <3>1
  <2>5. h = [d \in 0..(m + 1) |-> Body(h, d)]
    <3>1. \A d \in 0..(m + 1) : h[d] = Body(g, d)
      OBVIOUS
    <3>2. h = [d \in 0..(m + 1) |-> h[d]]
      OBVIOUS
    <3> HIDE DEF h, Body
    <3> QED BY <2>4, <3>1, <3>2
  <2> HIDE DEF h, Body
  <2> QED BY <2>5
<1>4. n \in P
  <2> HIDE DEF P
  <2> QED BY <1>2, <1>3, AllNumbers
<1>5. Is(ProofTo(leaves, i), n)
  <2>1. \E g : Is(g, n)
    BY <1>4
  <2> HIDE DEF Is
  <2> QED BY <1>1, <2>1
<1>6. \A d \in 0..n : ProofTo(leaves, i)[d] = Body(ProofTo(leaves, i), d)
  <2> HIDE DEF Body
  <2> QED BY <1>5
<1>7. /\ ProofTo(leaves, i)[0] = << >>
      /\ \A d \in 1..n : ProofTo(leaves, i)[d] = ProofTo(leaves, i)[d - 1] \o at(d - 1)
  <2>1. ASSUME NEW d \in 1..n
        PROVE  ProofTo(leaves, i)[d] = ProofTo(leaves, i)[d - 1] \o at(d - 1)
    <3>1. d \in 0..n /\ d # 0
      OBVIOUS
    <3> QED BY <1>6, <3>1
  <2>2. ProofTo(leaves, i)[0] = << >>
    <3>1. 0 \in 0..n
      OBVIOUS
    <3> QED BY <1>6, <3>1
  <2> QED BY <2>1, <2>2
<1> QED BY <1>7 DEF at

\* A proof with one more step folds as it did before, and once more.
LEMMA FoldedFurther ==
  ASSUME NEW S, NEW steps \in Seq(S), NEW e \in S, NEW leaf
  PROVE  LET longer == Append(steps, e) IN
         /\ Len(longer) = Len(steps) + 1
         /\ \A k \in 0..Len(steps) : Folded(leaf, longer)[k] = Folded(leaf, steps)[k]
         /\ Folded(leaf, longer)[Len(longer)] =
              LET below == Folded(leaf, steps)[Len(steps)]
              IN IF e.onLeft THEN Combine(e.sibling, below) ELSE Combine(below, e.sibling)
<1> DEFINE longer == Append(steps, e)
           n == Len(steps)
           old(k) == Folded(leaf, steps)[k]
           new(k) == Folded(leaf, longer)[k]
           P == {k \in 0..n : new(k) = old(k)}
<1>1. n \in Nat /\ Len(longer) = n + 1 /\ longer[n + 1] = e /\ \A k \in 1..n : longer[k] = steps[k]
  OBVIOUS
<1>2. /\ old(0) = leaf
      /\ \A k \in 1..n : old(k) = IF steps[k].onLeft THEN Combine(steps[k].sibling, old(k - 1))
                                                     ELSE Combine(old(k - 1), steps[k].sibling)
  BY <1>1, FoldedIs
<1> HIDE DEF longer
<1>3. /\ new(0) = leaf
      /\ \A k \in 1..(n + 1) :
           new(k) = IF longer[k].onLeft THEN Combine(longer[k].sibling, new(k - 1))
                                        ELSE Combine(new(k - 1), longer[k].sibling)
  BY <1>1, FoldedIs
<1> HIDE DEF old, new
<1>4. 0 \in P
  BY <1>1, <1>2, <1>3
<1>5. ASSUME NEW k \in 1..n, k - 1 \in P PROVE k \in P
  <2>1. new(k - 1) = old(k - 1) /\ longer[k] = steps[k] /\ k \in 1..(n + 1) /\ k \in 0..n
    BY <1>1, <1>5
  <2>2. new(k) = old(k)
    BY <1>2, <1>3, <2>1
  <2> QED BY <2>1, <2>2
<1>6. \A k \in 0..n : k \in P
  <2> HIDE DEF P
  <2> QED BY <1>1, <1>4, <1>5, UpTo
<1>7. new(n + 1) = IF e.onLeft THEN Combine(e.sibling, old(n)) ELSE Combine(old(n), e.sibling)
  <2>1. n + 1 \in 1..(n + 1) /\ (n + 1) - 1 = n /\ n \in 0..n
    BY <1>1
  <2> QED BY <1>1, <1>3, <1>6, <2>1
<1> QED BY <1>1, <1>6, <1>7 DEF longer, old, new

\* The steps of a proof: a sibling among the nodes of the tree, on one side.
StepsOf(leaves) == {[sibling |-> node, onLeft |-> b] : node \in NodesOf(leaves), b \in BOOLEAN}

\* At every level the proof so far is a list of such steps, and folds the leaf
\* to its ancestor there, through nodes of the tree.
LEMMA ProofFolds ==
  ASSUME NEW leaves, IsLevel(leaves), NEW i \in Nat, i < Len(leaves),
         NEW d \in 0..Len(leaves)
  PROVE  LET level == Built(leaves)[d]
             x     == Ancestor(i, Len(leaves))[d]
             steps == ProofTo(leaves, i)[d]
         IN /\ x \in Nat /\ x < Len(level)
            /\ steps \in Seq(StepsOf(leaves))
            /\ Folded(leaves[i + 1], steps)[Len(steps)] = level[x + 1]
            /\ \A k \in 0..Len(steps) : Folded(leaves[i + 1], steps)[k] \in NodesOf(leaves)
<1> DEFINE n == Len(leaves)
           level(c) == Built(leaves)[c]
           x(c) == Ancestor(i, n)[c]
           steps(c) == ProofTo(leaves, i)[c]
           leaf == leaves[i + 1]
           N == NodesOf(leaves)
           S == StepsOf(leaves)
           Good(c) == /\ x(c) \in Nat /\ x(c) < Len(level(c))
                      /\ steps(c) \in Seq(S)
                      /\ Folded(leaf, steps(c))[Len(steps(c))] = level(c)[x(c) + 1]
                      /\ \A k \in 0..Len(steps(c)) : Folded(leaf, steps(c))[k] \in N
           P == {c \in 0..n : Good(c)}
<1>0. n \in Nat \ {0} /\ DOMAIN leaves = 1..n
  BY DEF IsLevel
<1>1. level(0) = leaves /\ \A c \in 1..n : level(c) = Up(level(c - 1))
  BY <1>0, BuiltIs
<1>2. x(0) = i /\ \A c \in 1..n : x(c) = x(c - 1) \div 2
  BY <1>0, AncestorIs
<1>3. steps(0) = << >> /\ \A c \in 1..n : steps(c) = steps(c - 1) \o StepAt(level(c - 1), x(c - 1))
  BY <1>0, ProofToIs
<1>4. \A c \in 0..n : IsLevel(level(c))
  BY BuiltLevels
<1>5. \A c \in 0..n : \A j \in DOMAIN level(c) : level(c)[j] \in N
  BY DEF NodesOf
<1> HIDE DEF level, x, steps, N
<1>6. 0 \in P
  <2>1. Len(steps(0)) = 0 /\ steps(0) \in Seq(S)
    <3>1. steps(0) = << >>
      BY <1>3
    <3>2. << >> \in Seq(S) /\ Len(<< >>) = 0
      BY EmptySeq
    <3> HIDE DEF S
    <3> QED BY <3>1, <3>2
  <2>2. Folded(leaf, steps(0))[0] = leaf
    BY <2>1, FoldedIs
  <2>3. leaf = level(0)[x(0) + 1] /\ x(0) + 1 \in DOMAIN level(0)
    BY <1>0, <1>1, <1>2
  <2>4. leaf \in N
    BY <1>0, <1>5, <2>3
  <2>5. x(0) \in Nat /\ x(0) < Len(level(0))
    BY <1>1, <1>2
  <2> HIDE DEF leaf, S
  <2> QED BY <1>0, <2>1, <2>2, <2>3, <2>4, <2>5
<1>7. ASSUME NEW c \in 1..n, c - 1 \in P PROVE c \in P
  <2> DEFINE s == level(c - 1)
             y == x(c - 1)
             st == steps(c - 1)
             below == s[y + 1]
             above == level(c)[x(c) + 1]
  <2>0. c - 1 \in 0..n /\ c \in 0..n
    BY <1>0
  <2>1. /\ y \in Nat /\ y < Len(s) /\ st \in Seq(S)
        /\ Folded(leaf, st)[Len(st)] = below
        /\ \A k \in 0..Len(st) : Folded(leaf, st)[k] \in N
    BY <1>7
  <2>2. IsLevel(s) /\ level(c) = Up(s) /\ x(c) = y \div 2 /\ steps(c) = st \o StepAt(s, y)
    BY <1>1, <1>2, <1>3, <1>4, <2>0
  <2> HIDE DEF s, y, st, leaf
  <2>3. x(c) \in Nat /\ x(c) < Len(level(c))
    BY <2>1, <2>2, StepGoesUp
  <2>4. above \in N
    <3>1. x(c) + 1 \in DOMAIN level(c)
      BY <1>4, <2>0, <2>3 DEF IsLevel
    <3> QED BY <1>5, <2>0, <3>1
  <2>5. CASE StepAt(s, y) = << >> /\ above = below
    <3>1. steps(c) = st
      BY <2>1, <2>2, <2>5, ConcatEmptySeq
    <3> HIDE DEF above, below
    <3>2. Good(c)
      BY <2>1, <2>3, <2>5, <3>1 DEF above
    <3> QED BY <2>0, <3>2
  <2>6. CASE \E j \in DOMAIN s, b \in BOOLEAN :
               /\ StepAt(s, y) = <<[sibling |-> s[j], onLeft |-> b]>>
               /\ above = IF b THEN Combine(s[j], below) ELSE Combine(below, s[j])
    <3>1. PICK j \in DOMAIN s, b \in BOOLEAN :
               /\ StepAt(s, y) = <<[sibling |-> s[j], onLeft |-> b]>>
               /\ above = IF b THEN Combine(s[j], below) ELSE Combine(below, s[j])
      BY <2>6
    <3> DEFINE e == [sibling |-> s[j], onLeft |-> b]
    <3>2. e \in S
      <4>1. s[j] \in N
        BY <1>5, <2>0 DEF s
      <4> QED BY <4>1 DEF StepsOf, N
    <3>3. e.sibling = s[j] /\ e.onLeft = b /\ StepAt(s, y) = <<e>>
      BY <3>1
    <3> HIDE DEF e, S
    <3>4. steps(c) = Append(st, e)
      BY <2>1, <2>2, <3>2, <3>3
    <3>5. /\ Len(steps(c)) = Len(st) + 1 /\ Len(st) \in Nat
          /\ \A k \in 0..Len(st) : Folded(leaf, steps(c))[k] = Folded(leaf, st)[k]
          /\ Folded(leaf, steps(c))[Len(steps(c))] =
               IF b THEN Combine(s[j], below) ELSE Combine(below, s[j])
      BY <2>1, <3>2, <3>3, <3>4, FoldedFurther
    <3>6. steps(c) \in Seq(S)
      BY <2>1, <3>2, <3>4
    <3>7. Folded(leaf, steps(c))[Len(steps(c))] = above
      BY <3>1, <3>5
    <3>8. ASSUME NEW k \in 0..Len(steps(c)) PROVE Folded(leaf, steps(c))[k] \in N
      <4>1. k \in 0..Len(st) \/ k = Len(steps(c))
        BY <3>5
      <4> HIDE DEF above
      <4> QED BY <2>1, <2>4, <3>5, <3>7, <4>1
    <3> QED BY <2>0, <2>3, <3>6, <3>7, <3>8
  <2>7. \/ StepAt(s, y) = << >> /\ above = below
        \/ \E j \in DOMAIN s, b \in BOOLEAN :
               /\ StepAt(s, y) = <<[sibling |-> s[j], onLeft |-> b]>>
               /\ above = IF b THEN Combine(s[j], below) ELSE Combine(below, s[j])
    <3>1. \/ StepAt(s, y) = << >> /\ Up(s)[(y \div 2) + 1] = s[y + 1]
          \/ \E j \in DOMAIN s, b \in BOOLEAN :
               /\ StepAt(s, y) = <<[sibling |-> s[j], onLeft |-> b]>>
               /\ Up(s)[(y \div 2) + 1] =
                    IF b THEN Combine(s[j], s[y + 1]) ELSE Combine(s[y + 1], s[j])
      BY <2>1, <2>2, StepGoesUp
    <3>2. above = Up(s)[(y \div 2) + 1]
      BY <2>2
    <3> QED BY <3>1, <3>2
  <2> QED BY <2>5, <2>6, <2>7
<1>8. \A c \in 0..n : c \in P
  <2> HIDE DEF P
  <2> QED BY <1>0, <1>6, <1>7, UpTo
<1>9. Good(d)
  BY <1>8
<1> QED BY <1>9 DEF level, x, steps, N

\* The proof that prove makes for a leaf is made of nodes of the tree, and the
\* leaf folds with it to the root.
LEMMA ProveFoldsToRoot ==
  ASSUME NEW leaves, IsLevel(leaves), NEW i \in Nat, i < Len(leaves)
  PROVE  /\ Prove(leaves, i) \in Seq(StepsOf(leaves))
         /\ Folded(leaves[i + 1], Prove(leaves, i))[Len(Prove(leaves, i))] = Root(leaves)
         /\ Builds(leaves) => FoldsTo(leaves[i + 1], Prove(leaves, i), Root(leaves))
<1> DEFINE n == Len(leaves)
           steps == Prove(leaves, i)
           leaf == leaves[i + 1]
           x == Ancestor(i, n)[n]
<1>1. n \in Nat \ {0} /\ n \in 0..n
  BY DEF IsLevel
<1>2. steps = ProofTo(leaves, i)[n]
  BY DEF Prove
<1>3. /\ x \in Nat /\ x < Len(Built(leaves)[n])
      /\ steps \in Seq(StepsOf(leaves))
      /\ Folded(leaf, steps)[Len(steps)] = Built(leaves)[n][x + 1]
      /\ \A k \in 0..Len(steps) : Folded(leaf, steps)[k] \in NodesOf(leaves)
  <2>1. /\ x \in Nat /\ x < Len(Built(leaves)[n])
        /\ ProofTo(leaves, i)[n] \in Seq(StepsOf(leaves))
        /\ Folded(leaf, ProofTo(leaves, i)[n])[Len(ProofTo(leaves, i)[n])] = Built(leaves)[n][x + 1]
        /\ \A k \in 0..Len(ProofTo(leaves, i)[n]) :
             Folded(leaf, ProofTo(leaves, i)[n])[k] \in NodesOf(leaves)
    BY <1>1, ProofFolds
  <2> HIDE DEF steps
  <2> QED BY <1>2, <2>1
<1> HIDE DEF steps, x, leaf
<1>4. x + 1 = 1
  BY <1>3, BuiltLevels
<1>5. Folded(leaf, steps)[Len(steps)] = Root(leaves)
  BY <1>3, <1>4 DEF Root
<1>6. ASSUME Builds(leaves), NEW k \in 1..Len(steps)
      PROVE  Fits(Folded(leaf, steps)[k].sums)
  <2>1. k \in 0..Len(steps)
    OBVIOUS
  <2>2. Folded(leaf, steps)[k] \in NodesOf(leaves)
    BY <1>3, <2>1
  <2> QED BY <1>6, <2>2 DEF Builds, NodesOf
<1>7. SameSums(Root(leaves).sums, Root(leaves).sums)
  BY DEF SameSums
<1> QED BY <1>3, <1>5, <1>6, <1>7 DEF FoldsTo, steps, leaf

\* The root's totals are of every asset that some leaf has.
LEMMA RootHasAssets ==
  ASSUME NEW leaves, IsLevel(leaves), NEW j \in DOMAIN leaves
  PROVE  DOMAIN leaves[j].sums \subseteq DOMAIN Root(leaves).sums
<1> DEFINE steps == Prove(leaves, j - 1)
           leaf == leaves[j]
<1>1. j - 1 \in Nat /\ j - 1 < Len(leaves) /\ (j - 1) + 1 = j
  BY DEF IsLevel
<1>2. /\ steps \in Seq(StepsOf(leaves))
      /\ Folded(leaves[(j - 1) + 1], steps)[Len(steps)] = Root(leaves)
  BY <1>1, ProveFoldsToRoot
<1>3. Folded(leaf, steps)[Len(steps)] = Root(leaves)
  BY <1>1, <1>2
<1> HIDE DEF steps, leaf
<1>4. Len(steps) \in Nat
  BY <1>2
<1>5. DOMAIN leaf.sums \subseteq DOMAIN Folded(leaf, steps)[Len(steps)].sums
  BY <1>4, FoldKeepsAssets
<1> QED BY <1>3, <1>5 DEF leaf

-----------------------------------------------------------------------------
\* The same children under a root, whatever sums it states.
SameTree(hash, right) ==
  hash = right \/ (/\ hash.kind = "node" /\ right.kind = "node"
                   /\ hash.left = right.left /\ hash.right = right.right)

\* A leaf that folds to the root of a tree is one of that tree's leaves, even
\* if the root states sums that are not its children's.
LEMMA FoldsToALeaf ==
  ASSUME NEW leaves, IsLevel(leaves), AreLeaves(leaves),
         NEW leaf, leaf.hash.kind # "node", NEW steps, Len(steps) \in Nat,
         NEW root, SameTree(root.hash, Root(leaves).hash), FoldsTo(leaf, steps, root)
  PROVE  \E j \in DOMAIN leaves : leaves[j].hash = leaf.hash
<1> DEFINE H == HashesOf(leaves) \cup {root.hash}
<1>1. /\ IsClosed(HashesOf(leaves)) /\ Root(leaves).hash \in HashesOf(leaves)
      /\ \A h \in HashesOf(leaves) : h.kind # "node" => \E j \in DOMAIN leaves : leaves[j].hash = h
  BY TreeIsClosed
<1>2. root.hash.kind = "node" =>
        root.hash.left \in HashesOf(leaves) /\ root.hash.right \in HashesOf(leaves)
  BY <1>1 DEF SameTree, IsClosed
<1>3. IsClosed(H)
  BY <1>1, <1>2 DEF IsClosed
<1>4. Folded(leaf, steps)[Len(steps)].hash \in H
  BY DEF FoldsTo
<1> HIDE DEF H
<1>5. leaf.hash \in H
  BY <1>3, <1>4, FoldIsCommitted
<1>6. leaf.hash \in HashesOf(leaves)
  BY <1>1, <1>5 DEF H, SameTree
<1> QED BY <1>1, <1>6

\* What a root hash commits to: two trees over as many leaves that have one
\* root hash have the same leaves, in the same places.
LEMMA SameRootSameLeaves ==
  ASSUME NEW a, NEW b, IsLevel(a), IsLevel(b), Len(a) = Len(b),
         Root(a).hash = Root(b).hash
  PROVE  \A j \in DOMAIN a : a[j].hash = b[j].hash
<1> DEFINE n == Len(a)
           la(d) == Built(a)[d]
           lb(d) == Built(b)[d]
           Long == {d \in 0..n : Len(la(d)) = Len(lb(d))}
           Same(d) == \A j \in DOMAIN la(d) : la(d)[j].hash = lb(d)[j].hash
           P == {k \in 0..n : Same(n - k)}
<1>0. n \in Nat
  BY DEF IsLevel
<1>1. /\ la(0) = a /\ \A d \in 1..n : la(d) = Up(la(d - 1))
      /\ lb(0) = b /\ \A d \in 1..n : lb(d) = Up(lb(d - 1))
  BY <1>0, BuiltIs
<1>2. /\ \A d \in 0..n : IsLevel(la(d)) /\ IsLevel(lb(d))
      /\ Len(la(n)) = 1
  BY BuiltLevels
<1>3. la(n)[1].hash = lb(n)[1].hash
  BY DEF Root
<1> HIDE DEF la, lb
<1>4. \A d \in 0..n : d \in Long
  <2>1. 0 \in Long
    BY <1>0, <1>1
  <2>2. ASSUME NEW d \in 1..n, d - 1 \in Long PROVE d \in Long
    <3>1. d - 1 \in 0..n
      BY <1>0
    <3> QED BY <1>1, <1>2, <2>2, <3>1, UpIsLevel
  <2> HIDE DEF Long
  <2> QED BY <1>0, <2>1, <2>2, UpTo
<1>5. ASSUME NEW d \in 1..n, Same(d) PROVE Same(d - 1)
  <2> DEFINE s == la(d - 1)
             t == lb(d - 1)
  <2>1. d - 1 \in 0..n
    BY <1>0
  <2>2. IsLevel(s) /\ IsLevel(t) /\ Len(s) = Len(t) /\ la(d) = Up(s) /\ lb(d) = Up(t)
    BY <1>1, <1>2, <1>4, <2>1
  <2> HIDE DEF s, t
  <2>3. \A i \in 1..Len(Up(s)) : Up(s)[i].hash = Up(t)[i].hash
    BY <1>5, <2>2, UpIsLevel DEF IsLevel
  <2>4. ASSUME NEW j \in DOMAIN s PROVE s[j].hash = t[j].hash
    <3> DEFINE i == (j + 1) \div 2
    <3>1. j \in 1..Len(s) /\ Len(s) \in Nat
      BY <2>2 DEF IsLevel
    <3>2. i \in 1..Len(Up(s)) /\ i \in 1..Len(Up(t)) /\ (j = 2 * i - 1 \/ j = 2 * i)
      <4>1. Len(Up(s)) = (Len(s) + 1) \div 2 /\ Len(Up(t)) = (Len(s) + 1) \div 2
        BY <2>2, UpIsLevel
      <4>2. \A l \in Nat : \A k \in 1..l :
              (k + 1) \div 2 \in 1..((l + 1) \div 2)
              /\ (k = 2 * ((k + 1) \div 2) - 1 \/ k = 2 * ((k + 1) \div 2))
        OBVIOUS
      <4> QED BY <3>1, <4>1, <4>2
    <3> HIDE DEF i
    <3>3. Up(s)[i].hash = Up(t)[i].hash
      BY <2>3, <3>2
    <3>4. CASE 2 * i <= Len(s)
      <4>1. /\ Up(s)[i] = Combine(s[2 * i - 1], s[2 * i])
            /\ Up(t)[i] = Combine(t[2 * i - 1], t[2 * i])
        BY <2>2, <3>2, <3>4, UpIsLevel
      <4>2. s[2 * i - 1].hash = t[2 * i - 1].hash /\ s[2 * i].hash = t[2 * i].hash
        BY <3>3, <4>1 DEF Combine, Node
      <4> QED BY <3>2, <4>2
    <3>5. CASE 2 * i > Len(s)
      <4>1. Up(s)[i] = s[2 * i - 1] /\ Up(t)[i] = t[2 * i - 1]
        BY <2>2, <3>2, <3>5, UpIsLevel
      <4>2. j = 2 * i - 1
        BY <3>1, <3>2, <3>5
      <4> QED BY <3>3, <4>1, <4>2
    <3> QED BY <3>1, <3>2, <3>4, <3>5
  <2> QED BY <2>4 DEF s, t
<1>6. 0 \in P
  <2>1. DOMAIN la(n) = 1..1
    BY <1>0, <1>2 DEF IsLevel
  <2>2. Same(n - 0)
    BY <1>0, <1>3, <2>1
  <2> QED BY <1>0, <2>2
<1> HIDE DEF Same
<1>7. ASSUME NEW k \in 1..n, k - 1 \in P PROVE k \in P
  <2>1. n - (k - 1) \in 1..n /\ (n - (k - 1)) - 1 = n - k
    BY <1>0
  <2> QED BY <1>5, <1>7, <2>1
<1>8. n \in P
  <2>1. n \in 0..n
    BY <1>0
  <2> HIDE DEF P
  <2> QED BY <1>0, <1>6, <1>7, <2>1, UpTo
<1>9. n - n = 0
  BY <1>0
<1> QED BY <1>1, <1>8, <1>9 DEF Same

\* A node whose sums are amounts.
HasAmounts(node) == "sums" \in DOMAIN node /\ node.sums \in AmountMaps

\* Whatever is built from amounts without an overflow is amounts.
LEMMA NodesAreAmounts ==
  ASSUME NEW leaves, IsLevel(leaves), Builds(leaves),
         \A j \in DOMAIN leaves : HasAmounts(leaves[j])
  PROVE  \A node \in NodesOf(leaves) : HasAmounts(node)
<1> DEFINE n == Len(leaves)
           level(d) == Built(leaves)[d]
           P == {d \in 0..n : \A j \in DOMAIN level(d) : HasAmounts(level(d)[j])}
<1>0. n \in Nat
  BY DEF IsLevel
<1>1. level(0) = leaves /\ \A d \in 1..n : level(d) = Up(level(d - 1))
  BY <1>0, BuiltIs
<1>2. \A d \in 0..n : IsLevel(level(d))
  BY BuiltLevels
<1>3. \A d \in 0..n : \A j \in DOMAIN level(d) : Fits(level(d)[j].sums)
  BY DEF Builds
<1> HIDE DEF level
<1>4. 0 \in P
  BY <1>0, <1>1
<1>5. ASSUME NEW d \in 1..n, d - 1 \in P PROVE d \in P
  <2> SUFFICES ASSUME NEW j \in DOMAIN level(d) PROVE HasAmounts(level(d)[j])
    OBVIOUS
  <2> DEFINE s == level(d - 1)
  <2>0. d - 1 \in 0..n /\ d \in 0..n
    BY <1>0
  <2>1. IsLevel(s) /\ level(d) = Up(s) /\ IsLevel(level(d))
    BY <1>1, <1>2, <2>0
  <2>2. /\ 2 * j - 1 \in 1..Len(s)
        /\ 2 * j <= Len(s) => level(d)[j] = Combine(s[2 * j - 1], s[2 * j])
        /\ 2 * j > Len(s) => level(d)[j] = s[2 * j - 1]
    <3>1. j \in 1..Len(Up(s))
      BY <2>1 DEF IsLevel
    <3> HIDE DEF s
    <3> QED BY <2>1, <3>1, UpIsLevel
  <2>3. DOMAIN s = 1..Len(s) /\ Len(s) \in Nat /\ j \in Nat
    BY <2>1 DEF IsLevel
  <2>4. \A k \in DOMAIN s : HasAmounts(s[k])
    BY <1>5
  <2>5. Fits(level(d)[j].sums)
    BY <1>3, <2>0
  <2> HIDE DEF s
  <2>6. CASE 2 * j <= Len(s)
    <3>1. 2 * j \in DOMAIN s /\ 2 * j - 1 \in DOMAIN s
      BY <2>2, <2>3, <2>6
    <3>2. level(d)[j].sums = Added(s[2 * j - 1].sums, s[2 * j].sums)
      BY <2>2, <2>6 DEF Combine, Node
    <3>3. "sums" \in DOMAIN level(d)[j]
      BY <2>2, <2>6 DEF Combine, Node
    <3> QED BY <2>4, <2>5, <3>1, <3>2, <3>3, AddedBounds DEF HasAmounts
  <2>7. CASE 2 * j > Len(s)
    BY <2>2, <2>3, <2>4, <2>7
  <2> QED BY <2>3, <2>6, <2>7
<1>6. \A d \in 0..n : d \in P
  <2> HIDE DEF P
  <2> QED BY <1>0, <1>4, <1>5, UpTo
<1> QED BY <1>6 DEF NodesOf, level

\* The root is a node of the tree.
LEMMA RootIsANode ==
  ASSUME NEW leaves, IsLevel(leaves)
  PROVE  Root(leaves) \in NodesOf(leaves)
<1>1. Len(leaves) \in 0..Len(leaves) /\ IsLevel(Built(leaves)[Len(leaves)])
  <2>1. Len(leaves) \in Nat
    BY DEF IsLevel
  <2> QED BY <2>1, BuiltLevels
<1>2. 1 \in DOMAIN Built(leaves)[Len(leaves)]
  BY <1>1 DEF IsLevel
<1> QED BY <1>1, <1>2 DEF Root, NodesOf

\* A level of one node is the root, and nothing is added above it: to the tree
\* or to a proof.
LEMMA AboveTheRoot ==
  ASSUME NEW leaves, IsLevel(leaves), NEW i \in Nat, i < Len(leaves),
         NEW m \in 0..Len(leaves), Len(Built(leaves)[m]) = 1
  PROVE  /\ \A d \in m..Len(leaves) :
              Len(Built(leaves)[d]) = 1 /\ Built(leaves)[d][1] = Built(leaves)[m][1]
         /\ Root(leaves) = Built(leaves)[m][1]
         /\ Prove(leaves, i) = ProofTo(leaves, i)[m]
<1> DEFINE n == Len(leaves)
           level(d) == Built(leaves)[d]
           steps(d) == ProofTo(leaves, i)[d]
           x(d) == Ancestor(i, n)[d]
           Good(d) == Len(level(d)) = 1 /\ level(d)[1] = level(m)[1] /\ steps(d) = steps(m)
           P == {d \in 0..n : d >= m => Good(d)}
<1>0. n \in Nat /\ m \in Nat
  BY DEF IsLevel
<1>1. \A d \in 1..n : level(d) = Up(level(d - 1))
  BY <1>0, BuiltIs
<1>2. \A d \in 1..n : steps(d) = steps(d - 1) \o StepAt(level(d - 1), x(d - 1))
  BY <1>0, ProofToIs
<1>3. \A d \in 0..n : x(d) \in Nat /\ x(d) < Len(level(d)) /\ steps(d) \in Seq(StepsOf(leaves))
  BY ProofFolds
<1>4. \A d \in 0..n : IsLevel(level(d))
  BY BuiltLevels
<1>5. Len(level(m)) = 1
  OBVIOUS
<1> HIDE DEF level, steps, x
<1>6. 0 \in P
  BY <1>0, <1>5
<1>7. ASSUME NEW d \in 1..n, d - 1 \in P PROVE d \in P
  <2>1. CASE d <= m
    BY <1>0, <1>5, <2>1
  <2>2. CASE d > m
    <3>1. Good(d - 1) /\ d - 1 \in 0..n
      BY <1>0, <1>7, <2>2
    <3> DEFINE s == level(d - 1)
    <3>2. IsLevel(s) /\ Len(s) = 1 /\ level(d) = Up(s) /\ s[1] = level(m)[1]
      BY <1>1, <1>4, <3>1
    <3>6. x(d - 1) = 0
      <4>1. x(d - 1) \in Nat /\ x(d - 1) < 1
        BY <1>3, <3>1
      <4> QED BY <4>1
    <3> HIDE DEF s
    <3>3. Len(Up(s)) = 1 /\ Up(s)[1] = s[1]
      <4>1. Len(Up(s)) = (1 + 1) \div 2
        BY <3>2, UpIsLevel
      <4>2. Len(Up(s)) = 1
        BY <4>1
      <4>3. 1 \in 1..Len(Up(s)) /\ 2 * 1 > Len(s) /\ 2 * 1 - 1 = 1
        BY <3>2, <4>2
      <4>4. \A j \in 1..Len(Up(s)) : 2 * j > Len(s) => Up(s)[j] = s[2 * j - 1]
        BY <3>2, UpIsLevel
      <4> QED BY <4>2, <4>3, <4>4
    <3>5. Len(level(d)) = 1 /\ level(d)[1] = level(m)[1]
      BY <3>2, <3>3
    <3>7. StepAt(level(d - 1), x(d - 1)) = << >>
      <4>1. Sibling(0) = 1
        BY DEF Sibling
      <4>2. StepAt(s, 0) = << >>
        BY <3>2, <4>1 DEF StepAt
      <4> QED BY <3>6, <4>2 DEF s
    <3>8. steps(d) = steps(d - 1)
      BY <1>2, <1>3, <3>1, <3>7, ConcatEmptySeq
    <3> QED BY <3>1, <3>5, <3>8
  <2> QED BY <1>0, <2>1, <2>2
<1>8. \A d \in 0..n : d \in P
  <2> HIDE DEF P
  <2> QED BY <1>0, <1>6, <1>7, UpTo
<1>9. \A d \in m..n : Good(d)
  BY <1>0, <1>8
<1>10. n \in m..n
  BY <1>0
<1>11. Root(leaves) = level(n)[1] /\ Prove(leaves, i) = steps(n)
  BY DEF Root, Prove, level, steps
<1> QED BY <1>9, <1>10, <1>11 DEF level, steps


-----------------------------------------------------------------------------
(***************************************************************************)
(* Totals.                                                                 *)
(***************************************************************************)
LevelTotal(level, a) == SumFunction([j \in DOMAIN level |-> At(level[j].sums, a)])

\* Addition adds of every asset.
LEMMA AtAdded ==
  ASSUME NEW s \in AmountMaps, NEW t \in AmountMaps, NEW a
  PROVE  At(Added(s, t), a) = At(s, a) + At(t, a)
<1>1. At(s, a) \in Nat /\ At(t, a) \in Nat
  BY AtNat
<1>2. CASE a \in DOMAIN s \cup DOMAIN t
  BY <1>2 DEF Added, At
<1>3. CASE a \notin DOMAIN s \cup DOMAIN t
  BY <1>3 DEF Added, At
<1> QED BY <1>2, <1>3

\* A level's total is the sum over its places, of natural numbers.
LEMMA TotalIs ==
  ASSUME NEW s, IsLevel(s), \A j \in 1..Len(s) : HasAmounts(s[j]), NEW a
  PROVE  \E f : /\ LevelTotal(s, a) = SumFunctionOnSet(f, 1..Len(s))
                /\ \A j \in 1..Len(s) : f[j] = At(s[j].sums, a) /\ f[j] \in Nat
<1> DEFINE f == [j \in DOMAIN s |-> At(s[j].sums, a)]
<1>1. DOMAIN f = 1..Len(s) /\ \A j \in 1..Len(s) : f[j] = At(s[j].sums, a)
  BY DEF IsLevel
<1>2. LevelTotal(s, a) = SumFunctionOnSet(f, DOMAIN f)
  BY DEF LevelTotal, SumFunction
<1>3. \A j \in 1..Len(s) : At(s[j].sums, a) \in Nat
  BY AtNat DEF HasAmounts
<1> HIDE DEF f
<1> QED BY <1>1, <1>2, <1>3

\* The level above totals the same.
LEMMA TotalUp ==
  ASSUME NEW s, IsLevel(s), \A j \in 1..Len(s) : HasAmounts(s[j]), NEW a,
         \A j \in 1..Len(Up(s)) : HasAmounts(Up(s)[j])
  PROVE  LevelTotal(Up(s), a) = LevelTotal(s, a)
<1> DEFINE n == Len(s)
<1>1. PICK f : /\ LevelTotal(s, a) = SumFunctionOnSet(f, 1..n)
               /\ \A j \in 1..n : f[j] = At(s[j].sums, a) /\ f[j] \in Nat
  BY TotalIs
<1>2. n \in Nat /\ IsLevel(Up(s)) /\ Len(Up(s)) = (n + 1) \div 2
  BY UpIsLevel DEF IsLevel
<1>3. PICK g : /\ LevelTotal(Up(s), a) = SumFunctionOnSet(g, 1..Len(Up(s)))
               /\ \A j \in 1..Len(Up(s)) : g[j] = At(Up(s)[j].sums, a) /\ g[j] \in Nat
  BY <1>2, TotalIs
<1>4. ASSUME NEW j \in 1..((n + 1) \div 2)
      PROVE  g[j] = f[2 * j - 1] + (IF 2 * j <= n THEN f[2 * j] ELSE 0)
  <2>1. /\ 2 * j - 1 \in 1..n
        /\ 2 * j <= n => Up(s)[j] = Combine(s[2 * j - 1], s[2 * j])
        /\ 2 * j > n => Up(s)[j] = s[2 * j - 1]
    BY <1>2, UpIsLevel
  <2>2. g[j] = At(Up(s)[j].sums, a) /\ f[2 * j - 1] = At(s[2 * j - 1].sums, a) /\ f[2 * j - 1] \in Nat
    BY <1>1, <1>2, <1>3, <2>1
  <2>3. CASE 2 * j <= n
    <3>1. 2 * j \in 1..n
      BY <1>2, <2>3
    <3>2. f[2 * j] = At(s[2 * j].sums, a)
      BY <1>1, <3>1
    <3>3. Up(s)[j].sums = Added(s[2 * j - 1].sums, s[2 * j].sums)
      BY <2>1, <2>3 DEF Combine, Node
    <3>4. At(Up(s)[j].sums, a) = At(s[2 * j - 1].sums, a) + At(s[2 * j].sums, a)
      BY <2>1, <3>1, <3>3, AtAdded DEF HasAmounts
    <3> QED BY <2>2, <2>3, <3>2, <3>4
  <2>4. CASE ~(2 * j <= n)
    <3>1. Up(s)[j] = s[2 * j - 1]
      BY <1>2, <2>1, <2>4
    <3> QED BY <2>2, <2>4, <3>1
  <2> QED BY <2>3, <2>4
<1> HIDE DEF n
<1> QED BY <1>1, <1>2, <1>3, <1>4, SumPairs

\* The root of a tree that builds states the leaves' total.
LEMMA RootIsTotal ==
  ASSUME NEW leaves, IsLevel(leaves), Builds(leaves),
         \A j \in DOMAIN leaves : HasAmounts(leaves[j]), NEW a
  PROVE  At(Root(leaves).sums, a) = LevelTotal(leaves, a)
<1> DEFINE n == Len(leaves)
           level(d) == Built(leaves)[d]
           P == {d \in 0..n : LevelTotal(level(d), a) = LevelTotal(leaves, a)}
<1>0. n \in Nat
  BY DEF IsLevel
<1>1. level(0) = leaves /\ \A d \in 1..n : level(d) = Up(level(d - 1))
  BY <1>0, BuiltIs
<1>2. (\A d \in 0..n : IsLevel(level(d))) /\ Len(level(n)) = 1
  BY BuiltLevels
<1>3. ASSUME NEW d \in 0..n, NEW j \in 1..Len(level(d)) PROVE HasAmounts(level(d)[j])
  <2>1. level(d)[j] \in NodesOf(leaves)
    BY <1>2 DEF NodesOf, IsLevel
  <2> QED BY <2>1, NodesAreAmounts
<1>4. Root(leaves) = level(n)[1]
  BY DEF Root
<1> HIDE DEF level
<1>5. 0 \in P
  BY <1>0, <1>1
<1>6. ASSUME NEW d \in 1..n, d - 1 \in P PROVE d \in P
  <2>1. d - 1 \in 0..n /\ d \in 0..n /\ level(d) = Up(level(d - 1)) /\ IsLevel(level(d - 1))
    BY <1>0, <1>1, <1>2
  <2>2. LevelTotal(level(d), a) = LevelTotal(level(d - 1), a)
    BY <1>3, <2>1, TotalUp
  <2> QED BY <1>6, <2>1, <2>2
<1>7. n \in P
  <2>1. n \in 0..n
    BY <1>0
  <2> HIDE DEF P
  <2> QED BY <1>0, <1>5, <1>6, <2>1, UpTo
<1>8. PICK f : /\ LevelTotal(level(n), a) = SumFunctionOnSet(f, 1..1)
               /\ \A j \in 1..1 : f[j] = At(level(n)[j].sums, a) /\ f[j] \in Nat
  <2>1. n \in 0..n
    BY <1>0
  <2>2. \A j \in 1..Len(level(n)) : HasAmounts(level(n)[j])
    BY <1>3, <2>1
  <2>3. \E f : /\ LevelTotal(level(n), a) = SumFunctionOnSet(f, 1..Len(level(n)))
               /\ \A j \in 1..Len(level(n)) : f[j] = At(level(n)[j].sums, a) /\ f[j] \in Nat
    BY <1>2, <2>1, <2>2, TotalIs
  <2> QED BY <1>2, <2>3
<1>9. SumFunctionOnSet(f, 1..1) = f[1]
  <2> DEFINE S == {1}
  <2>1. 1..1 = S /\ S \ {1} = {} /\ 1 \in S
    OBVIOUS
  <2>2. IsFiniteSet(S) /\ \A x \in S : f[x] \in Nat
    <3>1. IsFiniteSet({1})
      BY FS_Singleton
    <3>2. f[1] \in Nat
      BY <1>8
    <3> QED BY <3>1, <3>2
  <2>3. IsFiniteSet({}) /\ SumFunctionOnSet(f, {}) = 0
    BY FS_EmptySet, SumChosen
  <2> HIDE DEF S
  <2>4. SumFunctionOnSet(f, S) = f[1] + SumFunctionOnSet(f, {})
    BY <2>1, <2>2, SumPick
  <2>5. f[1] \in Nat
    BY <2>1, <2>2
  <2> QED BY <2>1, <2>3, <2>4, <2>5
<1> QED BY <1>4, <1>7, <1>8, <1>9

-----------------------------------------------------------------------------
\* A set of numbers has a first.
LEMMA FirstExists ==
  ASSUME NEW S, S \subseteq Nat, S # {}
  PROVE  FirstOf(S) \in S
BY LeastNumber DEF FirstOf

\* A list of checks, none of which fails with "ok"; and that all of them hold.
Fails(check) == check.failure # "ok"
IsChecks(checks) == (\E S : checks \in Seq(S)) /\ \A i \in DOMAIN checks : Fails(checks[i])

AllHold(checks) == \A i \in DOMAIN checks : checks[i].holds

\* A verifier that makes all its checks and answers "ok" has seen all of them hold.
LEMMA OkMeansAllHold ==
  ASSUME NEW checks, IsChecks(checks), Outcome(checks, {}) = "ok"
  PROVE  AllHold(checks)
<1> DEFINE failing == {i \in DOMAIN checks : ~checks[i].holds /\ checks[i].name \notin {}}
<1>1. CASE failing = {}
  BY <1>1 DEF AllHold
<1>2. CASE failing # {}
  <2>1. FirstOf(failing) \in failing
    <3> HIDE DEF failing
    <3>1. DOMAIN checks \subseteq Nat
      BY DEF IsChecks
    <3>2. failing \subseteq Nat
      BY <3>1 DEF failing
    <3> QED BY <1>2, <3>2, FirstExists
  <2>2. checks[FirstOf(failing)].failure = "ok"
    BY <1>2 DEF Outcome
  <2>3. FirstOf(failing) \in DOMAIN checks
    BY <2>1
  <2> QED BY <2>2, <2>3 DEF IsChecks, Fails
<1> QED BY <1>1, <1>2

\* And one that has not, does not answer so.
LEMMA AllHoldMeansOk ==
  ASSUME NEW checks, AllHold(checks)
  PROVE  Outcome(checks, {}) = "ok"
<1>1. {i \in DOMAIN checks : ~checks[i].holds /\ checks[i].name \notin {}} = {}
  BY DEF AllHold
<1> QED BY <1>1 DEF Outcome

\* One list of checks after another.
LEMMA OneAfterAnother ==
  ASSUME NEW s, NEW t, IsChecks(s), IsChecks(t)
  PROVE  IsChecks(s \o t) /\ (AllHold(s \o t) <=> AllHold(s) /\ AllHold(t))
<1>1. PICK S : s \in Seq(S)
  BY DEF IsChecks
<1>2. PICK T : t \in Seq(T)
  BY DEF IsChecks
<1> DEFINE U == S \cup T
           r == s \o t
<1>3. s \in Seq(U) /\ t \in Seq(U)
  BY <1>1, <1>2
<1> HIDE DEF U
<1>4. /\ r \in Seq(U) /\ Len(r) = Len(s) + Len(t)
      /\ \A i \in 1..(Len(s) + Len(t)) :
           r[i] = IF i <= Len(s) THEN s[i] ELSE t[i - Len(s)]
  BY <1>3, ConcatProperties
<1>5. /\ Len(s) \in Nat /\ Len(t) \in Nat
      /\ DOMAIN s = 1..Len(s) /\ DOMAIN t = 1..Len(t) /\ DOMAIN r = 1..(Len(s) + Len(t))
  BY <1>3, <1>4
<1> HIDE DEF r
<1>6. \A i \in DOMAIN s : i \in DOMAIN r /\ r[i] = s[i]
  BY <1>4, <1>5
<1>7. \A i \in DOMAIN t : Len(s) + i \in DOMAIN r /\ r[Len(s) + i] = t[i]
  BY <1>4, <1>5
<1>8. \A i \in DOMAIN r : (i \in DOMAIN s /\ r[i] = s[i])
                          \/ (i - Len(s) \in DOMAIN t /\ r[i] = t[i - Len(s)])
  BY <1>4, <1>5
<1>9. IsChecks(r)
  BY <1>4, <1>8 DEF IsChecks
<1>10. AllHold(r) => AllHold(s)
  BY <1>6, Zenon DEF AllHold
<1>11. AllHold(r) => AllHold(t)
  BY <1>7, Zenon DEF AllHold
<1>12. AllHold(s) /\ AllHold(t) => AllHold(r)
  BY <1>8, Zenon DEF AllHold
<1> QED BY <1>9, <1>10, <1>11, <1>12 DEF r

\* Lists that are written out.
LEMMA ListedChecks ==
  /\ \A a : Fails(a) => IsChecks(<<a>>)
  /\ \A a, b : Fails(a) /\ Fails(b) => IsChecks(<<a, b>>)
  /\ \A a, b, c : Fails(a) /\ Fails(b) /\ Fails(c) => IsChecks(<<a, b, c>>)
  /\ \A a, b, c, d : Fails(a) /\ Fails(b) /\ Fails(c) /\ Fails(d) => IsChecks(<<a, b, c, d>>)
  /\ \A a, b, c, d, e, f :
       Fails(a) /\ Fails(b) /\ Fails(c) /\ Fails(d) /\ Fails(e) /\ Fails(f) =>
         IsChecks(<<a, b, c, d, e, f>>)
<1>1. ASSUME NEW S, \A x \in S : Fails(x), NEW s \in Seq(S) PROVE IsChecks(s)
  <2>1. \A i \in DOMAIN s : Fails(s[i])
    BY <1>1
  <2> QED BY <2>1 DEF IsChecks
<1>2. ASSUME NEW a, NEW b, NEW c, NEW d, NEW e, NEW f
      PROVE  /\ <<a>> \in Seq({a}) /\ <<a, b>> \in Seq({a, b}) /\ <<a, b, c>> \in Seq({a, b, c})
             /\ <<a, b, c, d>> \in Seq({a, b, c, d})
             /\ <<a, b, c, d, e, f>> \in Seq({a, b, c, d, e, f})
  OBVIOUS
<1>3. ASSUME NEW a, Fails(a) PROVE IsChecks(<<a>>)
  <2>1. \A x \in {a} : Fails(x)
    BY <1>3
  <2> QED BY <1>1, <1>2, <2>1
<1>4. ASSUME NEW a, NEW b, Fails(a), Fails(b) PROVE IsChecks(<<a, b>>)
  <2>1. \A x \in {a, b} : Fails(x)
    BY <1>4
  <2> QED BY <1>1, <1>2, <2>1
<1>5. ASSUME NEW a, NEW b, NEW c, Fails(a), Fails(b), Fails(c) PROVE IsChecks(<<a, b, c>>)
  <2>1. \A x \in {a, b, c} : Fails(x)
    BY <1>5
  <2> QED BY <1>1, <1>2, <2>1
<1>6. ASSUME NEW a, NEW b, NEW c, NEW d, Fails(a), Fails(b), Fails(c), Fails(d)
      PROVE  IsChecks(<<a, b, c, d>>)
  <2>1. \A x \in {a, b, c, d} : Fails(x)
    BY <1>6
  <2> QED BY <1>1, <1>2, <2>1
<1>7. ASSUME NEW a, NEW b, NEW c, NEW d, NEW e, NEW f,
             Fails(a), Fails(b), Fails(c), Fails(d), Fails(e), Fails(f)
      PROVE  IsChecks(<<a, b, c, d, e, f>>)
  <2>1. \A x \in {a, b, c, d, e, f} : Fails(x)
    BY <1>7
  <2> QED BY <1>1, <1>2, <2>1
<1> QED BY <1>3, <1>4, <1>5, <1>6, <1>7

\* All the checks of a list that is written out hold if each of them does.
LEMMA ListedHold ==
  /\ \A a : AllHold(<<a>>) <=> a.holds
  /\ \A a, b : AllHold(<<a, b>>) <=> a.holds /\ b.holds
  /\ \A a, b, c : AllHold(<<a, b, c>>) <=> a.holds /\ b.holds /\ c.holds
<1>1. /\ \A a : DOMAIN <<a>> = {1} /\ <<a>>[1] = a
      /\ \A a, b : DOMAIN <<a, b>> = {1, 2} /\ <<a, b>>[1] = a /\ <<a, b>>[2] = b
      /\ \A a, b, c : /\ DOMAIN <<a, b, c>> = {1, 2, 3}
                      /\ <<a, b, c>>[1] = a /\ <<a, b, c>>[2] = b /\ <<a, b, c>>[3] = c
  OBVIOUS
<1>2. /\ \A s, a : DOMAIN s = {1} /\ s[1] = a => (AllHold(s) <=> a.holds)
      /\ \A s, a, b : DOMAIN s = {1, 2} /\ s[1] = a /\ s[2] = b =>
           (AllHold(s) <=> a.holds /\ b.holds)
      /\ \A s, a, b, c : DOMAIN s = {1, 2, 3} /\ s[1] = a /\ s[2] = b /\ s[3] = c =>
           (AllHold(s) <=> a.holds /\ b.holds /\ c.holds)
  BY DEF AllHold
<1>3. ASSUME NEW a PROVE AllHold(<<a>>) <=> a.holds
  BY <1>1, <1>2
<1>4. ASSUME NEW a, NEW b PROVE AllHold(<<a, b>>) <=> a.holds /\ b.holds
  BY <1>1, <1>2
<1>5. ASSUME NEW a, NEW b, NEW c PROVE AllHold(<<a, b, c>>) <=> a.holds /\ b.holds /\ c.holds
  BY <1>1, <1>2
<1> QED BY <1>3, <1>4, <1>5

\* A check of some name and failure.
LEMMA ChecksFail ==
  \A n, failure, h : failure # "ok" => Fails(Check(n, failure, h))
BY DEF Check, Fails

\* What the last check of a signature's two says.
LEMMA TrustedIsSigned ==
  ASSUME NEW signed, NEW key
  PROVE  /\ IsChecks(TrustedSignature(signed, key))
         /\ AllHold(TrustedSignature(signed, key)) =>
              GoodSignature(signed.signature, key, Digest(signed.report))
<1> DEFINE authentic == GoodSignature(signed.signature, key, Digest(signed.report))
           a == Check("trusted key", "unknown_signer", signed.signature.key = key)
           b == Check("signature", "bad_signature", authentic)
<1>1. TrustedSignature(signed, key) = <<a, b>>
  BY Zenon DEF TrustedSignature
<1>2. Fails(a) /\ Fails(b)
  BY ChecksFail
<1>3. b.holds => authentic
  <2> HIDE DEF authentic
  <2> QED BY Zenon DEF Check
<1> HIDE DEF a, b, authentic
<1>4. AllHold(<<a, b>>) => b.holds
  BY DEF AllHold
<1> QED BY <1>1, <1>2, <1>3, <1>4, ListedChecks DEF authentic

\* A leaf that folds, by a proof's steps, to the root of a report.
EndsAtRoot(signed, leaf, steps) == Folded(leaf, steps)[Len(steps)].hash = signed.report.root

LeafFolds(signed, proof) ==
  EndsAtRoot(signed, Leaf(proof.leaf.user, proof.leaf.balances), proof.steps)

\* The checks of verify before those of the proof itself.
LEMMA PartsAreChecks ==
  ASSUME NEW signed, NEW report, NEW proof
  PROVE  /\ IsChecks(VersionAndManifest(report)) /\ IsChecks(ValidProfile(report))
         /\ IsChecks(LeafKind(report, {"Customer"})) /\ IsChecks(ProofVersion(proof, "proof-v1"))
         /\ IsChecks(Algorithm(signed))
<1>1. IsChecks(VersionAndManifest(report))
  <2>1. \E h1, h2, h3, h4, h5, h6 : VersionAndManifest(report) =
          <<Check("report.format_version", "unsupported_version", h1),
            Check("v1 without manifest", "manifest_presence", h2),
            Check("v2 with manifest", "manifest_presence", h3),
            Check("manifest: known fields", "manifest_inconsistent", h4),
            Check("manifest: published is carried", "manifest_inconsistent", h5),
            Check("manifest: withheld is not carried", "manifest_inconsistent", h6)>>
    BY Zenon DEF VersionAndManifest
  <2> QED BY <2>1, ListedChecks, ChecksFail
<1>2. IsChecks(ValidProfile(report))
  <2>1. \E h1, h2, h3, h4 : ValidProfile(report) =
          <<Check("profile: registered", "profile", h1),
            Check("profile: aggregates", "profile", h2),
            Check("profile: coverage", "profile", h3),
            Check("profile: unanimity", "profile", h4)>>
    BY Zenon DEF ValidProfile
  <2> QED BY <2>1, ListedChecks, ChecksFail
<1>3. /\ IsChecks(LeafKind(report, {"Customer"}))
      /\ IsChecks(ProofVersion(proof, "proof-v1"))
      /\ IsChecks(Algorithm(signed))
  <2>1. /\ \E h : LeafKind(report, {"Customer"}) = <<Check("profile: leaf kind", "profile", h)>>
        /\ \E h : ProofVersion(proof, "proof-v1") =
                    <<Check("proof.format_version", "unsupported_version", h)>>
        /\ \E h : Algorithm(signed) =
                    <<Check("signature.algorithm", "unsupported_version", h)>>
    BY Zenon DEF LeafKind, ProofVersion, Algorithm
  <2> QED BY <2>1, ListedChecks, ChecksFail
<1> QED BY <1>1, <1>2, <1>3

\* A proof that passes is of a report with a good signature, and leads from its leaf
\* to the report's root.
LEMMA VerifiedIsSigned ==
  ASSUME NEW signed, NEW proof, NEW key
  PROVE  /\ IsChecks(Verify(signed, proof, key))
         /\ AllHold(Verify(signed, proof, key)) =>
              /\ GoodSignature(signed.signature, key, Digest(signed.report))
              /\ LeafFolds(signed, proof)
<1> DEFINE report == signed.report
           signatureChecks == TrustedSignature(signed, key)
<1>1. /\ IsChecks(VersionAndManifest(report)) /\ IsChecks(ValidProfile(report))
      /\ IsChecks(LeafKind(report, {"Customer"})) /\ IsChecks(ProofVersion(proof, "proof-v1"))
      /\ IsChecks(Algorithm(signed))
  BY PartsAreChecks
<1>4. \A leaf, steps, digest :
        LET checks == AgainstReport(signed, leaf, steps, digest, key)
        IN /\ IsChecks(checks)
           /\ AllHold(checks) => AllHold(signatureChecks) /\ EndsAtRoot(signed, leaf, steps)
  <2> SUFFICES ASSUME NEW leaf, NEW steps, NEW digest
               PROVE  LET checks == AgainstReport(signed, leaf, steps, digest, key)
                      IN /\ IsChecks(checks)
                         /\ AllHold(checks) =>
                              AllHold(signatureChecks) /\ EndsAtRoot(signed, leaf, steps)
    OBVIOUS
  <2> DEFINE same == EndsAtRoot(signed, leaf, steps)
             root == Check("root hash", "root_hash_mismatch", same)
  <2>1. \E h, h1, h3 :
          AgainstReport(signed, leaf, steps, digest, key) =
            <<Check("proof digest", "digest_mismatch", h)>>
              \o signatureChecks
              \o <<Check("fold: no overflow", "malformed", h1), root,
                   Check("root sums", "root_sums_mismatch", h3)>>
    BY Zenon DEF AgainstReport, EndsAtRoot
  <2>2. Fails(root) /\ (root.holds => same)
    <3> HIDE DEF same
    <3>1. root.holds => same
      BY Zenon DEF Check
    <3> QED BY <3>1, ChecksFail
  <2> HIDE DEF signatureChecks, root, same
  <2>3. PICK x, a, b :
          /\ AgainstReport(signed, leaf, steps, digest, key) = x \o signatureChecks \o <<a, root, b>>
          /\ IsChecks(x) /\ Fails(a) /\ Fails(b)
    BY <2>1, ListedChecks, ChecksFail
  <2>4. IsChecks(signatureChecks) /\ IsChecks(<<a, root, b>>)
    BY <2>2, <2>3, ListedChecks, TrustedIsSigned DEF signatureChecks
  <2>5. AllHold(<<a, root, b>>) => same
    BY <2>2, ListedHold
  <2> QED BY <2>3, <2>4, <2>5, OneAfterAnother DEF same
<1>5. PICK against :
        /\ Verify(signed, proof, key) =
             VersionAndManifest(report) \o ValidProfile(report) \o LeafKind(report, {"Customer"})
               \o ProofVersion(proof, "proof-v1") \o Algorithm(signed) \o against
        /\ IsChecks(against)
        /\ AllHold(against) => AllHold(signatureChecks) /\ LeafFolds(signed, proof)
  <2> DEFINE leaf == Leaf(proof.leaf.user, proof.leaf.balances)
             against == AgainstReport(signed, leaf, proof.steps, proof.digest, key)
  <2>1. Verify(signed, proof, key) =
          VersionAndManifest(report) \o ValidProfile(report) \o LeafKind(report, {"Customer"})
            \o ProofVersion(proof, "proof-v1") \o Algorithm(signed) \o against
    BY Zenon DEF Verify
  <2>2. /\ IsChecks(against)
        /\ AllHold(against) => AllHold(signatureChecks) /\ LeafFolds(signed, proof)
    BY <1>4 DEF LeafFolds
  <2> HIDE DEF against
  <2> QED BY <2>1, <2>2
<1> HIDE DEF report, signatureChecks
<1>6. /\ IsChecks(Verify(signed, proof, key))
      /\ AllHold(Verify(signed, proof, key)) => AllHold(against)
  BY <1>1, <1>5, OneAfterAnother
<1> QED BY <1>5, <1>6, TrustedIsSigned DEF signatureChecks

\* A proof that is followed from an anchor is of a report with that anchor's
\* digest, signed with the anchor's key, and leads to its root.
LEMMA FollowedIsSigned ==
  ASSUME NEW signed, NEW proof, NEW anchor,
         Outcome(VerifyWithAnchor(signed, proof, anchor), {}) = "ok"
  PROVE  /\ anchor.digest = Digest(signed.report)
         /\ GoodSignature(signed.signature, anchor.key, Digest(signed.report))
         /\ LeafFolds(signed, proof)
<1> DEFINE same == anchor.digest = Digest(signed.report)
           x == Check("anchor: digest", "digest_mismatch", same)
           proofChecks == Verify(signed, proof, anchor.key)
           checks == VerifyWithAnchor(signed, proof, anchor)
<1>1. PICK h : checks = <<Check("anchor.format_version", "unsupported_version", h), x>> \o proofChecks
  BY Zenon DEF VerifyWithAnchor
<1>2. (x.holds => same) /\ Fails(x)
  <2> HIDE DEF same
  <2>1. x.holds => same
    BY Zenon DEF Check
  <2> QED BY <2>1, ChecksFail
<1> DEFINE w == Check("anchor.format_version", "unsupported_version", h)
<1>3. checks = <<w, x>> \o proofChecks /\ Fails(w)
  BY <1>1, ChecksFail
<1> HIDE DEF x, w, checks
<1>4. IsChecks(<<w, x>>) /\ IsChecks(proofChecks)
  BY <1>2, <1>3, ListedChecks, VerifiedIsSigned
<1>5. AllHold(<<w, x>>) /\ AllHold(proofChecks)
  <2> HIDE DEF proofChecks
  <2>1. IsChecks(checks)
    BY <1>3, <1>4, OneAfterAnother
  <2>2. AllHold(checks)
    BY <2>1, OkMeansAllHold DEF checks
  <2> QED BY <1>3, <1>4, <2>2, OneAfterAnother
<1>6. x.holds
  BY <1>5 DEF AllHold
<1> QED BY <1>2, <1>5, <1>6, VerifiedIsSigned


-----------------------------------------------------------------------------
(***************************************************************************)
(* Coverage.                                                               *)
(***************************************************************************)
\* What it takes for a pair of reports to be taken for one statement.
Pairs(custody, liabilities, statement, custodyKey, liabilitiesKey, maxSkew) ==
  LET s == custody.report.meta.time
      t == liabilities.report.meta.time
  IN /\ statement.version = "coverage-v1"
     /\ custody.report.meta.profile = "coverage.custody"
     /\ liabilities.report.meta.profile = "solvency.liabilities"
     /\ statement.custody = Digest(custody.report)
     /\ statement.liabilities = Digest(liabilities.report)
     /\ custody.signature.key = custodyKey
     /\ GoodSignature(custody.signature, custodyKey, Digest(custody.report))
     /\ liabilities.signature.key = liabilitiesKey
     /\ GoodSignature(liabilities.signature, liabilitiesKey, Digest(liabilities.report))
     /\ Parses(s) /\ Parses(t)
     /\ Skew(s, t) <= maxSkew

\* All the checks of a signature hold if it is the key's, over the digest.
LEMMA TrustedHolds ==
  ASSUME NEW signed, NEW key
  PROVE  AllHold(TrustedSignature(signed, key)) <=>
           /\ signed.signature.key = key
           /\ GoodSignature(signed.signature, key, Digest(signed.report))
<1> DEFINE authentic == GoodSignature(signed.signature, key, Digest(signed.report))
           its == signed.signature.key = key
           a == Check("trusted key", "unknown_signer", its)
           b == Check("signature", "bad_signature", authentic)
<1>1. TrustedSignature(signed, key) = <<a, b>>
  BY Zenon DEF TrustedSignature
<1>2. (a.holds <=> its) /\ (b.holds <=> authentic)
  <2> HIDE DEF authentic, its
  <2> QED BY Zenon DEF Check
<1> HIDE DEF a, b, authentic, its
<1>3. AllHold(<<a, b>>) <=> a.holds /\ b.holds
  BY ListedHold
<1> QED BY <1>1, <1>2, <1>3 DEF authentic, its

\* The coverage verb takes a pair exactly if it is one (coverage.rs:67-160).
LEMMA CoverageTakesPairs ==
  ASSUME NEW custody, NEW liabilities, NEW statement, NEW custodyKey, NEW liabilitiesKey,
         NEW maxSkew
  PROVE  Outcome(VerifyCoverage(custody, liabilities, statement, custodyKey, liabilitiesKey,
                                maxSkew), {}) = "ok" <=>
         Pairs(custody, liabilities, statement, custodyKey, liabilitiesKey, maxSkew)
<1> DEFINE s == custody.report.meta.time
           t == liabilities.report.meta.time
           h1 == statement.version = "coverage-v1"
           h2 == custody.report.meta.profile = "coverage.custody"
           h3 == liabilities.report.meta.profile = "solvency.liabilities"
           h4 == statement.custody = Digest(custody.report)
           h5 == statement.liabilities = Digest(liabilities.report)
           h6 == Parses(s) /\ Parses(t)
           h7 == Parses(s) /\ Parses(t) => Skew(s, t) <= maxSkew
           c1 == Check("coverage.format_version", "unsupported_version", h1)
           c2 == Check("coverage: custody profile", "profile", h2)
           c3 == Check("coverage: liabilities profile", "profile", h3)
           c4 == Check("custody digest", "digest_mismatch", h4)
           c5 == Check("liabilities digest", "digest_mismatch", h5)
           c6 == Check("coverage: times parse", "malformed", h6)
           c7 == Check("coverage: skew", "temporal_mismatch", h7)
           its == TrustedSignature(custody, custodyKey)
           theirs == TrustedSignature(liabilities, liabilitiesKey)
           checks == VerifyCoverage(custody, liabilities, statement, custodyKey, liabilitiesKey,
                                    maxSkew)
<1>1. checks = <<c1, c2, c3>> \o (<<c4, c5>> \o its \o theirs \o <<c6, c7>>)
  BY Zenon DEF VerifyCoverage, CoveragePairing
<1>2. /\ (c1.holds <=> h1) /\ (c2.holds <=> h2) /\ (c3.holds <=> h3) /\ (c4.holds <=> h4)
      /\ (c5.holds <=> h5) /\ (c6.holds <=> h6) /\ (c7.holds <=> h7)
  <2> HIDE DEF h1, h2, h3, h4, h5, h6, h7
  <2> QED BY Zenon DEF Check
<1>3. Fails(c1) /\ Fails(c2) /\ Fails(c3) /\ Fails(c4) /\ Fails(c5) /\ Fails(c6) /\ Fails(c7)
  <2> HIDE DEF h1, h2, h3, h4, h5, h6, h7
  <2> QED BY ChecksFail
<1>4. IsChecks(its) /\ IsChecks(theirs)
  BY TrustedIsSigned
<1>5. /\ AllHold(its) <=> /\ custody.signature.key = custodyKey
                          /\ GoodSignature(custody.signature, custodyKey, Digest(custody.report))
      /\ AllHold(theirs) <=>
           /\ liabilities.signature.key = liabilitiesKey
           /\ GoodSignature(liabilities.signature, liabilitiesKey, Digest(liabilities.report))
  BY TrustedHolds
<1> HIDE DEF its, theirs, checks, c1, c2, c3, c4, c5, c6, c7
<1>6. /\ IsChecks(<<c1, c2, c3>>) /\ IsChecks(<<c4, c5>>) /\ IsChecks(<<c6, c7>>)
      /\ AllHold(<<c1, c2, c3>>) <=> c1.holds /\ c2.holds /\ c3.holds
      /\ AllHold(<<c4, c5>>) <=> c4.holds /\ c5.holds
      /\ AllHold(<<c6, c7>>) <=> c6.holds /\ c7.holds
  <2> HIDE DEF h1, h2, h3, h4, h5, h6, h7
  <2>1. IsChecks(<<c1, c2, c3>>) /\ IsChecks(<<c4, c5>>) /\ IsChecks(<<c6, c7>>)
    BY <1>3, ListedChecks
  <2>2. /\ AllHold(<<c1, c2, c3>>) <=> c1.holds /\ c2.holds /\ c3.holds
        /\ AllHold(<<c4, c5>>) <=> c4.holds /\ c5.holds
        /\ AllHold(<<c6, c7>>) <=> c6.holds /\ c7.holds
    BY ListedHold
  <2> QED BY <2>1, <2>2
<1> DEFINE x == <<c1, c2, c3>>
           y == <<c4, c5>>
           z == <<c6, c7>>
<1>7. /\ IsChecks(checks)
      /\ AllHold(checks) <=> AllHold(x) /\ AllHold(y) /\ AllHold(its) /\ AllHold(theirs) /\ AllHold(z)
  <2> HIDE DEF x, y, z, h1, h2, h3, h4, h5, h6, h7
  <2>0. IsChecks(x) /\ IsChecks(y) /\ IsChecks(z) /\ checks = x \o (y \o its \o theirs \o z)
    BY <1>1, <1>6 DEF x, y, z
  <2>1. IsChecks(y \o its) /\ (AllHold(y \o its) <=> AllHold(y) /\ AllHold(its))
    BY <1>4, <2>0, OneAfterAnother
  <2>2. /\ IsChecks(y \o its \o theirs)
        /\ AllHold(y \o its \o theirs) <=> AllHold(y \o its) /\ AllHold(theirs)
    BY <1>4, <2>1, OneAfterAnother
  <2>3. /\ IsChecks(y \o its \o theirs \o z)
        /\ AllHold(y \o its \o theirs \o z) <=> AllHold(y \o its \o theirs) /\ AllHold(z)
    BY <2>0, <2>2, OneAfterAnother
  <2>4. /\ IsChecks(checks)
        /\ AllHold(checks) <=> AllHold(x) /\ AllHold(y \o its \o theirs \o z)
    BY <2>0, <2>3, OneAfterAnother
  <2> QED BY <2>1, <2>2, <2>3, <2>4
<1>8. Outcome(checks, {}) = "ok" <=> AllHold(checks)
  BY <1>7, OkMeansAllHold, AllHoldMeansOk
<1>9. h6 /\ h7 <=> Parses(s) /\ Parses(t) /\ Skew(s, t) <= maxSkew
  OBVIOUS
<1>10. Outcome(checks, {}) = "ok" <=>
         h1 /\ h2 /\ h3 /\ h4 /\ h5 /\ AllHold(its) /\ AllHold(theirs) /\ h6 /\ h7
  <2> HIDE DEF h1, h2, h3, h4, h5, h6, h7
  <2> QED BY <1>2, <1>6, <1>7, <1>8
<1>11. Outcome(checks, {}) = "ok" <=>
         Pairs(custody, liabilities, statement, custodyKey, liabilitiesKey, maxSkew)
  BY <1>5, <1>9, <1>10, Zenon DEF Pairs
<1> QED BY <1>11 DEF checks


-----------------------------------------------------------------------------
(***************************************************************************)
(* What the proof verb takes.                                              *)
(***************************************************************************)
\* A manifest that fits the report: it says of known fields only, and of each
\* figure whether the report carries it.
FitsReport(report) ==
  LET m == report.meta.manifest IN
  IF m = None THEN report.version = V1
  ELSE /\ report.version = V2
       /\ DOMAIN m.fields \subseteq KnownFields
       /\ \A f \in DOMAIN m.fields \cap ResidentFields :
            (m.fields[f] = "published") = CarriesData(report, f)

LEMMA FittingManifestHolds ==
  ASSUME NEW report, FitsReport(report)
  PROVE  AllHold(VersionAndManifest(report))
<1> DEFINE m == report.meta.manifest
           stated == IF m = None THEN {} ELSE DOMAIN m.fields
           Shown(states) == {f \in stated \cap ResidentFields : m.fields[f] \in states}
           h1 == report.version \in {V1, V2}
           h2 == report.version = V1 => m = None
           h3 == report.version = V2 => m # None
           h4 == report.version = V2 => stated \subseteq KnownFields
           h5 == report.version = V2 => \A f \in Shown({"published"}) : CarriesData(report, f)
           h6 == report.version = V2 =>
                   \A f \in Shown({"withheld", "committed"}) : ~CarriesData(report, f)
           c1 == Check("report.format_version", "unsupported_version", h1)
           c2 == Check("v1 without manifest", "manifest_presence", h2)
           c3 == Check("v2 with manifest", "manifest_presence", h3)
           c4 == Check("manifest: known fields", "manifest_inconsistent", h4)
           c5 == Check("manifest: published is carried", "manifest_inconsistent", h5)
           c6 == Check("manifest: withheld is not carried", "manifest_inconsistent", h6)
<1>1. VersionAndManifest(report) = <<c1, c2, c3, c4, c5, c6>>
  BY Zenon DEF VersionAndManifest
<1>2. h1 /\ h2 /\ h3 /\ h4
  BY DEF FitsReport, V1, V2
<1>3. h5
  BY DEF FitsReport, V1, V2
<1>4. h6
  <2> SUFFICES ASSUME report.version = V2, NEW f \in Shown({"withheld", "committed"})
               PROVE  ~CarriesData(report, f)
    OBVIOUS
  <2>1. m # None /\ f \in DOMAIN m.fields \cap ResidentFields /\ m.fields[f] # "published"
    OBVIOUS
  <2>2. (m.fields[f] = "published") = CarriesData(report, f)
    BY <2>1 DEF FitsReport
  <2> QED BY <2>1, <2>2
<1> HIDE DEF h1, h2, h3, h4, h5, h6
<1>5. c1.holds /\ c2.holds /\ c3.holds /\ c4.holds /\ c5.holds /\ c6.holds
  BY <1>2, <1>3, <1>4 DEF Check
<1> HIDE DEF c1, c2, c3, c4, c5, c6
<1>6. AllHold(<<c1, c2, c3, c4, c5, c6>>)
  BY <1>5 DEF AllHold
<1> QED BY <1>1, <1>6

\* A report of customers' balances, some there are.
LEMMA CustomersProfileHolds ==
  ASSUME NEW report, report.meta.profile = "solvency.liabilities", DOMAIN report.sums # {}
  PROVE  AllHold(ValidProfile(report)) /\ AllHold(LeafKind(report, {"Customer"}))
<1> DEFINE rules == Rules("solvency.liabilities", "Customer", {"root_sums"})
           h1 == Registered(report)
           h2 == Registered(report) => HasAggregates(report)
           h3 == Registered(report) => IsCovered(report)
           h4 == Registered(report) => IsUnanimous(report)
           h5 == Registered(report) => RulesOf(report).leaf \in {"Customer"}
           c1 == Check("profile: registered", "profile", h1)
           c2 == Check("profile: aggregates", "profile", h2)
           c3 == Check("profile: coverage", "profile", h3)
           c4 == Check("profile: unanimity", "profile", h4)
           c5 == Check("profile: leaf kind", "profile", h5)
<1>1. rules \in Registry /\ rules.name = "solvency.liabilities"
  BY DEF Registry, Rules
<1>2. \A r \in Registry : r.name = "solvency.liabilities" => r = rules
  <2>1. \A name, leaf, aggregates, x, y, z : \A q :
          /\ q = Rules(name, leaf, aggregates)
          => /\ q.name = name
             /\ [q EXCEPT !.coverage = x].name = name
             /\ [q EXCEPT !.leafMaps = y].name = name
             /\ [q EXCEPT !.leafMaps = y, !.unanimous = z].name = name
    BY DEF Rules
  <2>2. \A name, leaf, aggregates, x, y, z :
          /\ Rules(name, leaf, aggregates).name = name
          /\ [Rules(name, leaf, aggregates) EXCEPT !.coverage = x].name = name
          /\ [Rules(name, leaf, aggregates) EXCEPT !.leafMaps = y].name = name
          /\ [Rules(name, leaf, aggregates) EXCEPT !.leafMaps = y, !.unanimous = z].name = name
    BY <2>1
  <2>3. \A r \in Registry :
          r = rules \/ r.name \in {"solvency.group", "collateral.repo", "fund.nav",
                                   "settlement.dvp", "eligibility.holder", "coverage.custody"}
    <3> DEFINE G == Rules("solvency.group", "Entity", {"root_sums"})
               C == [Rules("collateral.repo", "RepoLeg", {"collateral", "exposure"})
                       EXCEPT !.coverage = {[covering |-> "collateral", covered |-> "exposure"]}]
               F == Rules("fund.nav", "Shareholder", {"units", "entitlement"})
               S == [Rules("settlement.dvp", "SettledTrade", {"delivered", "paid"})
                       EXCEPT !.leafMaps = {"delivered", "paid"}]
               E == [Rules("eligibility.holder", "AttestedHolder", {"attested"})
                       EXCEPT !.leafMaps = {"attested"}, !.unanimous = {"attested"}]
               H == [Rules("coverage.custody", "CustodyPosition", {"held"}) EXCEPT !.leafMaps = {"held"}]
    <3>1. Registry = {rules, G, C, F, S, E, H}
      BY DEF Registry
    <3>2. G.name = "solvency.group" /\ F.name = "fund.nav"
      BY <2>2
    <3>3. C.name = "collateral.repo"
      BY <2>2
    <3>4. S.name = "settlement.dvp" /\ H.name = "coverage.custody"
      BY <2>2
    <3>5. E.name = "eligibility.holder"
      BY <2>2
    <3> HIDE DEF rules, G, C, F, S, E, H
    <3> QED BY <3>1, <3>2, <3>3, <3>4, <3>5
  <2> QED BY <2>3
<1>3. RulesOf(report) = rules /\ h1
  <2> HIDE DEF rules
  <2>1. \E r \in Registry : r.name = report.meta.profile
    BY <1>1
  <2>2. RulesOf(report) \in Registry /\ RulesOf(report).name = report.meta.profile
    BY <2>1 DEF RulesOf
  <2> QED BY <1>2, <2>1, <2>2 DEF Registered
<1>4. /\ rules.leaf = "Customer" /\ rules.aggregates = {"root_sums"}
      /\ rules.coverage = {} /\ rules.unanimous = {}
  BY DEF Rules
<1> HIDE DEF rules
<1>5. HasAggregates(report) /\ IsCovered(report) /\ IsUnanimous(report)
  BY <1>3, <1>4 DEF HasAggregates, IsCovered, IsUnanimous, Carries
<1>6. h1 /\ h2 /\ h3 /\ h4 /\ h5
  BY <1>3, <1>4, <1>5
<1>7. ValidProfile(report) = <<c1, c2, c3, c4>> /\ LeafKind(report, {"Customer"}) = <<c5>>
  BY Zenon DEF ValidProfile, LeafKind
<1> HIDE DEF h1, h2, h3, h4, h5
<1>8. c1.holds /\ c2.holds /\ c3.holds /\ c4.holds /\ c5.holds
  BY <1>6 DEF Check
<1> HIDE DEF c1, c2, c3, c4, c5
<1>9. AllHold(<<c1, c2, c3, c4>>) /\ AllHold(<<c5>>)
  BY <1>8 DEF AllHold
<1> QED BY <1>7, <1>9

\* The last checks of verify hold of a proof that folds to a signed report.
LEMMA FoldingProofHolds ==
  ASSUME NEW signed, NEW leaf, NEW steps, NEW key, DOMAIN steps = 1..Len(steps),
         signed.signature.key = key,
         GoodSignature(signed.signature, key, Digest(signed.report)),
         FoldsTo(leaf, steps, [hash |-> signed.report.root, sums |-> signed.report.sums])
  PROVE  LET checks == AgainstReport(signed, leaf, steps, Digest(signed.report), key)
         IN  IsChecks(checks) /\ AllHold(checks)
<1> DEFINE node == Folded(leaf, steps)
           digest == Digest(signed.report)
           checks == AgainstReport(signed, leaf, steps, digest, key)
           its == TrustedSignature(signed, key)
           h1 == digest = digest
           h2 == \A k \in DOMAIN steps : Fits(node[k].sums)
           h3 == node[Len(steps)].hash = signed.report.root
           h4 == SameSums(node[Len(steps)].sums, signed.report.sums)
           c1 == Check("proof digest", "digest_mismatch", h1)
           c2 == Check("fold: no overflow", "malformed", h2)
           c3 == Check("root hash", "root_hash_mismatch", h3)
           c4 == Check("root sums", "root_sums_mismatch", h4)
<1>1. checks = <<c1>> \o its \o <<c2, c3, c4>>
  BY Zenon DEF AgainstReport
<1>2. h1 /\ h2 /\ h3 /\ h4
  <2> HIDE DEF node
  <2> QED BY DEF FoldsTo, node
<1>3. IsChecks(its) /\ AllHold(its)
  BY TrustedIsSigned, TrustedHolds
<1> HIDE DEF h1, h2, h3, h4, its, checks
<1>4. c1.holds /\ c2.holds /\ c3.holds /\ c4.holds
  BY <1>2 DEF Check
<1>5. Fails(c1) /\ Fails(c2) /\ Fails(c3) /\ Fails(c4)
  BY ChecksFail
<1> HIDE DEF c1, c2, c3, c4
<1>6. /\ IsChecks(<<c1>>) /\ AllHold(<<c1>>)
      /\ IsChecks(<<c2, c3, c4>>) /\ AllHold(<<c2, c3, c4>>)
  BY <1>4, <1>5, ListedChecks, ListedHold
<1> DEFINE x == <<c1>>
           y == <<c2, c3, c4>>
<1>7. IsChecks(x) /\ AllHold(x) /\ IsChecks(y) /\ AllHold(y) /\ checks = x \o its \o y
  BY <1>1, <1>6
<1> HIDE DEF x, y
<1>8. IsChecks(x \o its) /\ AllHold(x \o its)
  BY <1>3, <1>7, OneAfterAnother
<1>9. IsChecks(checks) /\ AllHold(checks)
  BY <1>7, <1>8, OneAfterAnother
<1> QED BY <1>9 DEF checks

\* A proof of a report that fits its manifest, is of customers' balances, is
\* signed with the key, and is where the proof leads, passes.
LEMMA GoodProofPasses ==
  ASSUME NEW signed, NEW proof, NEW key,
         FitsReport(signed.report), signed.report.meta.profile = "solvency.liabilities",
         DOMAIN signed.report.sums # {},
         proof.version = "proof-v1", proof.digest = Digest(signed.report),
         signed.signature = Sign(key, Digest(signed.report)),
         DOMAIN proof.steps = 1..Len(proof.steps),
         FoldsTo(Leaf(proof.leaf.user, proof.leaf.balances), proof.steps,
                 [hash |-> signed.report.root, sums |-> signed.report.sums])
  PROVE  Outcome(Verify(signed, proof, key), {}) = "ok"
<1> DEFINE report == signed.report
           leaf == Leaf(proof.leaf.user, proof.leaf.balances)
           a == VersionAndManifest(report)
           b == ValidProfile(report)
           c == LeafKind(report, {"Customer"})
           d == ProofVersion(proof, "proof-v1")
           e == Algorithm(signed)
           f == AgainstReport(signed, leaf, proof.steps, proof.digest, key)
           checks == Verify(signed, proof, key)
<1>1. checks = a \o b \o c \o d \o e \o f
  BY Zenon DEF Verify
<1>2. IsChecks(a) /\ IsChecks(b) /\ IsChecks(c) /\ IsChecks(d) /\ IsChecks(e)
  BY PartsAreChecks
<1>3. AllHold(a) /\ AllHold(b) /\ AllHold(c)
  BY FittingManifestHolds, CustomersProfileHolds
<1>4. /\ signed.signature.key = key /\ signed.signature.algorithm = Ed25519
      /\ GoodSignature(signed.signature, key, Digest(report))
  BY DEF Sign, GoodSignature
<1>5. AllHold(d) /\ AllHold(e)
  <2> DEFINE x == Check("proof.format_version", "unsupported_version", proof.version = "proof-v1")
             y == Check("signature.algorithm", "unsupported_version",
                        signed.signature.algorithm = Ed25519)
  <2>1. d = <<x>> /\ e = <<y>>
    BY Zenon DEF ProofVersion, Algorithm
  <2>2. x.holds /\ y.holds
    BY <1>4 DEF Check
  <2> HIDE DEF x, y
  <2> QED BY <2>1, <2>2, ListedHold
<1>6. IsChecks(f) /\ AllHold(f)
  BY <1>4, FoldingProofHolds
<1> HIDE DEF a, b, c, d, e, f, checks
<1>7. IsChecks(a \o b) /\ AllHold(a \o b)
  BY <1>2, <1>3, OneAfterAnother
<1>8. IsChecks(a \o b \o c) /\ AllHold(a \o b \o c)
  BY <1>2, <1>3, <1>7, OneAfterAnother
<1>9. IsChecks(a \o b \o c \o d) /\ AllHold(a \o b \o c \o d)
  BY <1>2, <1>5, <1>8, OneAfterAnother
<1>10. IsChecks(a \o b \o c \o d \o e) /\ AllHold(a \o b \o c \o d \o e)
  BY <1>2, <1>5, <1>9, OneAfterAnother
<1>11. AllHold(checks)
  BY <1>1, <1>6, <1>10, OneAfterAnother
<1> QED BY <1>11, AllHoldMeansOk DEF checks
=============================================================================
