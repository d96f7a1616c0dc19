------------------------------- MODULE Lemmas -------------------------------
(***************************************************************************)
(* Induction, and what SumFunction of the community modules computes.      *)
(*                                                                         *)
(* SumFunction is a fold: the value of a function CHOOSEn to satisfy a     *)
(* recursion over the subsets of a domain.  SumsExist and SumsUnique show  *)
(* that there is exactly one; the facts about sums follow by induction     *)
(* over the subsets of a finite set (SubsetInduction).  The inductions,    *)
(* SequenceInduction among them, are stated of a set and not of a          *)
(* predicate, and come from the least element a well-founded order has.    *)
(***************************************************************************)
EXTENDS Integers, FiniteSets, Functions, FiniteSetTheorems, WellFoundedInduction,
        SequenceTheorems, TLAPS

\* Induction over the naturals, as a fact about sets: the least number a set that
\* is closed under successor leaves out would have a predecessor in it.
LEMMA Induction ==
  ASSUME NEW N \in SUBSET Nat, 0 \in N, \A n \in N : n + 1 \in N
  PROVE  N = Nat
<1>1. SUFFICES ASSUME Nat \ N # {} PROVE FALSE OBVIOUS
<1>2. PICK x \in Nat \ N : \A y \in Nat \ N : ~(<<y, x>> \in OpToRel(<, Nat))
  BY <1>1, WFMin, NatLessThanWellFounded
<1>3. x \in Nat /\ x # 0 /\ x - 1 \in Nat OBVIOUS
<1>4. x - 1 \in Nat \ N
  <2>1. ASSUME x - 1 \in N PROVE FALSE
    <3>1. (x - 1) + 1 \in N BY <2>1
    <3> QED BY <3>1, <1>3
  <2> QED BY <2>1, <1>3
<1>5. <<x - 1, x>> \in OpToRel(<, Nat) BY <1>3 DEF OpToRel
<1> QED BY <1>2, <1>4, <1>5

\* Induction over the subsets of a finite set, likewise.
LEMMA SubsetInduction ==
  ASSUME NEW U, IsFiniteSet(U), NEW C, {} \in C,
         \A S \in SUBSET U : S # {} /\ (\A x \in S : S \ {x} \in C) => S \in C
  PROVE  \A S \in SUBSET U : S \in C
<1> DEFINE N == {n \in Nat : \A S \in SUBSET U : Cardinality(S) = n => S \in C}
<1>1. \A S \in SUBSET U : IsFiniteSet(S) /\ Cardinality(S) \in Nat
  BY FS_Subset, FS_CardinalityType
<1>2. 0 \in N BY <1>1, FS_EmptySet
<1>3. ASSUME NEW n \in N PROVE n + 1 \in N
  <2>1. SUFFICES ASSUME NEW S \in SUBSET U, Cardinality(S) = n + 1 PROVE S \in C OBVIOUS
  <2>2. S # {}
    <3>1. n \in Nat /\ n + 1 # 0 OBVIOUS
    <3> QED BY <2>1, <3>1, FS_EmptySet
  <2>3. ASSUME NEW x \in S PROVE S \ {x} \in C
    <3>1. Cardinality(S \ {x}) = n BY <1>1, <2>1, FS_RemoveElement
    <3> QED BY <3>1
  <2> QED BY <2>2, <2>3
<1> HIDE DEF N
<1>4. N \in SUBSET Nat BY DEF N
<1>5. N = Nat BY <1>2, <1>3, <1>4, Induction
<1> QED BY <1>1, <1>5 DEF N

\* The values of a function on a finite set.
LEMMA ImageFinite ==
  ASSUME NEW S, IsFiniteSet(S), NEW f
  PROVE  IsFiniteSet({f[x] : x \in S})
<1> DEFINE T == {f[x] : x \in S}
           g == [x \in S |-> f[x]]
<1>1. g \in Surjection(S, T) BY DEF Surjection
<1> QED BY <1>1, FS_Surjection

\* Induction over the sequences of a set, by Append.
LEMMA SequenceInduction ==
  ASSUME NEW S, NEW C, << >> \in C, \A s \in Seq(S), x \in S : s \in C => Append(s, x) \in C
  PROVE  \A s \in Seq(S) : s \in C
<1> DEFINE N == {n \in Nat : \A s \in Seq(S) : Len(s) = n => s \in C}
<1>1. 0 \in N
  <2>1. SUFFICES ASSUME NEW s \in Seq(S), Len(s) = 0 PROVE s \in C OBVIOUS
  <2>2. s = << >> BY <2>1, EmptySeq
  <2> QED BY <2>2
<1>2. ASSUME NEW n \in N PROVE n + 1 \in N
  <2>1. SUFFICES ASSUME NEW s \in Seq(S), Len(s) = n + 1 PROVE s \in C OBVIOUS
  <2>2. s # << >> BY <2>1, EmptySeq
  <2>3. PICK t \in Seq(S), x \in S : s = Append(t, x) BY <2>2, SequenceEmptyOrAppend
  <2>4. Len(t) = n BY <2>1, <2>3, AppendProperties
  <2> QED BY <2>3, <2>4
<1> HIDE DEF N
<1>3. N \in SUBSET Nat BY DEF N
<1>4. N = Nat BY <1>1, <1>2, <1>3, Induction
<1> QED BY <1>4 DEF N

\* A part of a sequence has elements of the same set.
LEMMA PartTyped ==
  ASSUME NEW A, NEW s \in Seq(A), NEW m \in Nat \ {0}, NEW n \in 0 .. Len(s)
  PROVE  SubSeq(s, m, n) \in Seq(A)
<1>1. Len(s) \in Nat BY LenProperties
<1>2. \A i \in m .. n : i \in 1 .. Len(s) BY <1>1
<1>3. \A i \in m .. n : s[i] \in A BY <1>2, ElementOfSeq
<1>4. m \in Int /\ n \in Int BY <1>1
<1> QED BY <1>3, <1>4, SubSeqProperties

\* A set of positions has a last one and a first one.
LEMMA BoundsExist ==
  \A n \in Nat : \A I \in SUBSET (1 .. n) :
    I # {} => /\ \E k \in I : \A j \in I : k >= j
              /\ \E k \in I : \A j \in I : k <= j
<1> DEFINE N == {n \in Nat : \A I \in SUBSET (1 .. n) :
                   I # {} => /\ \E k \in I : \A j \in I : k >= j
                             /\ \E k \in I : \A j \in I : k <= j}
<1>1. 0 \in N
  <2>1. 1 .. 0 = {} OBVIOUS
  <2> QED BY <2>1
<1>2. ASSUME NEW n \in N PROVE n + 1 \in N
  <2>1. SUFFICES ASSUME NEW I \in SUBSET (1 .. n + 1), I # {}
                 PROVE  /\ \E k \in I : \A j \in I : k >= j
                        /\ \E k \in I : \A j \in I : k <= j
    OBVIOUS
  <2> DEFINE J == I \ {n + 1}
  <2>2. J \in SUBSET (1 .. n) OBVIOUS
  <2>3. J # {} => /\ \E k \in J : \A j \in J : k >= j
                  /\ \E k \in J : \A j \in J : k <= j
    BY <2>2
  <2>4. n \in Nat /\ \A j \in I : j \in Nat /\ j <= n + 1 OBVIOUS
  <2> HIDE DEF N
  <2>5. CASE J = {}
    <3>1. I = {n + 1} BY <2>5, <2>1
    <3> QED BY <3>1, <2>4
  <2>6. CASE J # {}
    <3>1. PICK k \in J : \A j \in J : k >= j BY <2>3, <2>6
    <3>2. PICK l \in J : \A j \in J : l <= j BY <2>3, <2>6
    <3>3. \E m \in I : \A j \in I : m >= j
      <4>1. CASE n + 1 \in I BY <4>1, <2>4
      <4>2. CASE n + 1 \notin I
        <5>1. J = I BY <4>2
        <5> QED BY <3>1, <5>1
      <4> QED BY <4>1, <4>2
    <3>4. \A j \in I : l <= j
      <4>1. ASSUME NEW j \in I PROVE l <= j
        <5>1. CASE j = n + 1 BY <5>1, <2>4
        <5>2. CASE j # n + 1 BY <5>2, <3>2
        <5> QED BY <5>1, <5>2
      <4> QED BY <4>1
    <3> QED BY <3>3, <3>4
  <2> QED BY <2>5, <2>6
<1> HIDE DEF N
<1>3. N \in SUBSET Nat BY DEF N
<1>4. N = Nat BY <1>1, <1>2, <1>3, Induction
<1> QED BY <1>4 DEF N

-----------------------------------------------------------------------------
Pick(s) == CHOOSE x \in s : TRUE

\* the recursion SumFunctionOnSet(f, S) is defined by
Sums(g, f, S) ==
  g = [s \in SUBSET S |-> IF s = {} THEN 0 ELSE f[Pick(s)] + g[s \ {Pick(s)}]]

\* The element the fold takes next is one of the set.
LEMMA PickIn == \A s : s # {} => Pick(s) \in s
  BY DEF Pick

\* What the recursion says of one set.
LEMMA SumsAt ==
  ASSUME NEW S, NEW f, NEW g, Sums(g, f, S)
  PROVE  /\ g[{}] = 0
         /\ \A s \in SUBSET S : s # {} => g[s] = f[Pick(s)] + g[s \ {Pick(s)}]
  BY DEF Sums

\* The recursion has one solution, and the same one for every larger set.
LEMMA SumsUnique ==
  ASSUME NEW S, NEW T \in SUBSET S, IsFiniteSet(S), NEW f, NEW g, NEW h, Sums(g, f, S), Sums(h, f, T)
  PROVE  \A s \in SUBSET T : g[s] = h[s]
<1> DEFINE C == {s \in SUBSET T : g[s] = h[s]}
<1>1. IsFiniteSet(T) BY FS_Subset
<1>2. {} \in C BY SumsAt
<1>3. ASSUME NEW s \in SUBSET T, s # {}, \A x \in s : s \ {x} \in C PROVE s \in C
  <2>1. s \ {Pick(s)} \in C /\ s \in SUBSET S BY <1>3, PickIn
  <2>2. g[s] = f[Pick(s)] + g[s \ {Pick(s)}] BY <1>3, <2>1, SumsAt
  <2>3. h[s] = f[Pick(s)] + h[s \ {Pick(s)}] BY <1>3, SumsAt
  <2> QED BY <2>1, <2>2, <2>3
<1> HIDE DEF C
<1>4. \A s \in SUBSET T : s \in C BY <1>1, <1>2, <1>3, SubsetInduction
<1> QED BY <1>4 DEF C

\* Two solutions are equal, as functions.
LEMMA SumsSame ==
  ASSUME NEW S, IsFiniteSet(S), NEW f, NEW g, NEW h, Sums(g, f, S), Sums(h, f, S)
  PROVE  g = h
<1>1. \A s \in SUBSET S : g[s] = h[s] BY SMTT(20), SumsUnique
<1>2. g = [s \in SUBSET S |-> g[s]] /\ h = [s \in SUBSET S |-> h[s]] BY DEF Sums
<1> QED BY <1>1, <1>2

\* It has one.
LEMMA SumsExist ==
  ASSUME NEW U, IsFiniteSet(U), NEW f
  PROVE  \E g : Sums(g, f, U)
<1> DEFINE C == {S \in SUBSET U : \A s \in SUBSET S : \E g : Sums(g, f, s)}
           V(s) == (CHOOSE it : Sums(it, f, s))[s]
<1>1. {} \in C
  <2>1. Sums([s \in SUBSET {} |-> 0], f, {}) BY DEF Sums
  <2> QED BY <2>1
<1>2. ASSUME NEW S \in SUBSET U, S # {}, \A x \in S : S \ {x} \in C PROVE S \in C
  <2>1. \A s \in SUBSET S : s # S => \E g : Sums(g, f, s)
    <3>1. TAKE s \in SUBSET S
    <3>2. HAVE s # S
    <3>3. PICK x \in S : s \in SUBSET (S \ {x}) BY <3>2
    <3> QED BY <1>2, <3>3
  <2>2. ASSUME NEW s \in SUBSET S, s # S, s # {} PROVE V(s) = f[Pick(s)] + V(s \ {Pick(s)})
    <3> DEFINE g == CHOOSE it : Sums(it, f, s) t == s \ {Pick(s)} h == CHOOSE it : Sums(it, f, t)
    <3>1. t \in SUBSET S /\ t # S BY <2>2
    <3>2. Sums(g, f, s) BY <2>1, <2>2
    <3>3. Sums(h, f, t) BY <2>1, <3>1
    <3>4. t \in SUBSET s OBVIOUS
    <3>5. IsFiniteSet(s) BY FS_Subset
    <3> HIDE DEF g, h, t
    <3>6. g[t] = h[t] BY <3>2, <3>3, <3>4, <3>5, SumsUnique
    <3>7. g[s] = f[Pick(s)] + g[t] BY <3>2, <2>2, SumsAt DEF t
    <3> QED BY <3>6, <3>7 DEF g, h, t
  <2>3. V({}) = 0
    <3>1. {} # S BY <1>2
    <3>2. \E g : Sums(g, f, {}) BY <2>1, <3>1
    <3>3. Sums(CHOOSE g : Sums(g, f, {}), f, {}) BY <3>2
    <3> QED BY <3>3, SumsAt
  <2> DEFINE r == f[Pick(S)] + V(S \ {Pick(S)})
             g == [s \in SUBSET S |-> IF s = S THEN r ELSE V(s)]
  <2> HIDE DEF V
  <2>4. Sums(g, f, S)
    <3>1. \A s \in SUBSET S : s # {} => Pick(s) \in s /\ s \ {Pick(s)} \in SUBSET S /\ s \ {Pick(s)} # S
      BY PickIn
    <3>2. ASSUME NEW s \in SUBSET S PROVE g[s] = IF s = {} THEN 0 ELSE f[Pick(s)] + g[s \ {Pick(s)}]
      <4>1. CASE s = {} BY <1>2, <2>3, <4>1
      <4>2. CASE s # {}
        <5>1. g[s \ {Pick(s)}] = V(s \ {Pick(s)}) BY <3>1, <4>2
        <5>2. g[s] = f[Pick(s)] + V(s \ {Pick(s)}) BY <2>2, <4>2
        <5> QED BY <5>1, <5>2, <4>2
      <4> QED BY <4>1, <4>2
    <3> HIDE DEF r
    <3>3. g = [s \in SUBSET S |-> g[s]] OBVIOUS
    <3> HIDE DEF g
    <3> QED BY <3>2, <3>3 DEF Sums
  <2>5. \E h : Sums(h, f, S) BY <2>4
  <2> QED BY <2>1, <2>5
<1> HIDE DEF C
<1>3. \A S \in SUBSET U : S \in C BY <1>1, <1>2, SubsetInduction
<1> QED BY <1>3 DEF C

\* The library's sum is the value of the recursion's one solution.
LEMMA SumIs ==
  ASSUME NEW S, IsFiniteSet(S), NEW f
  PROVE  \E g : Sums(g, f, S) /\ SumFunctionOnSet(f, S) = g[S]
<1>1. PICK g : Sums(g, f, S) BY SumsExist
<1>2. \A h : Sums(h, f, S) => h = g BY <1>1, SumsSame
<1>3. SumFunctionOnSet(f, S) = g[S]
  BY <1>1, <1>2 DEF SumFunctionOnSet, FoldFunctionOnSet, MapThenFoldSet, Sums, Pick
<1> QED BY <1>1, <1>3

-----------------------------------------------------------------------------
\* The sum over no element.
LEMMA SumEmpty == \A f : SumFunctionOnSet(f, {}) = 0
  BY SumIs, SumsAt, FS_EmptySet

\* The sum takes its elements one by one.
LEMMA SumPick ==
  ASSUME NEW S, IsFiniteSet(S), S # {}, NEW f
  PROVE  SumFunctionOnSet(f, S) = f[Pick(S)] + SumFunctionOnSet(f, S \ {Pick(S)})
<1> DEFINE T == S \ {Pick(S)}
<1>1. IsFiniteSet(T) /\ T \in SUBSET S BY FS_Subset
<1>2. PICK g : Sums(g, f, S) /\ SumFunctionOnSet(f, S) = g[S] BY SumIs
<1>3. PICK h : Sums(h, f, T) /\ SumFunctionOnSet(f, T) = h[T] BY <1>1, SumIs
<1>4. g[T] = h[T] BY <1>1, <1>2, <1>3, SumsUnique
<1>5. g[S] = f[Pick(S)] + g[T] BY <1>2, SumsAt
<1> QED BY <1>2, <1>3, <1>4, <1>5

\* A sum of integers is one.
LEMMA SumInt ==
  ASSUME NEW S, IsFiniteSet(S), NEW f, \A x \in S : f[x] \in Int
  PROVE  SumFunctionOnSet(f, S) \in Int
<1> DEFINE C == {T \in SUBSET S : SumFunctionOnSet(f, T) \in Int}
<1>1. {} \in C BY SumEmpty
<1>2. ASSUME NEW T \in SUBSET S, T # {}, \A x \in T : T \ {x} \in C PROVE T \in C
  <2>1. IsFiniteSet(T) BY FS_Subset
  <2>2. SumFunctionOnSet(f, T) = f[Pick(T)] + SumFunctionOnSet(f, T \ {Pick(T)})
    BY <1>2, <2>1, SumPick
  <2>3. Pick(T) \in T BY <1>2, PickIn
  <2>4. SumFunctionOnSet(f, T \ {Pick(T)}) \in Int BY <1>2, <2>3
  <2>5. f[Pick(T)] \in Int BY <2>3
  <2> QED BY <2>2, <2>4, <2>5
<1> HIDE DEF C
<1>3. \A T \in SUBSET S : T \in C BY <1>1, <1>2, SubsetInduction
<1> QED BY <1>3 DEF C

\* Any element of the set may be taken out of the sum first.
LEMMA SumRemove ==
  ASSUME NEW S, IsFiniteSet(S), NEW f, \A x \in S : f[x] \in Int, NEW y \in S
  PROVE  SumFunctionOnSet(f, S) = f[y] + SumFunctionOnSet(f, S \ {y})
<1> DEFINE Sum(T) == SumFunctionOnSet(f, T)
           C == {T \in SUBSET S : \A x \in T : Sum(T) = f[x] + Sum(T \ {x})}
<1>1. {} \in C OBVIOUS
<1>2. ASSUME NEW T \in SUBSET S, T # {}, \A x \in T : T \ {x} \in C PROVE T \in C
  <2>1. SUFFICES ASSUME NEW x \in T PROVE Sum(T) = f[x] + Sum(T \ {x}) OBVIOUS
  <2> DEFINE p == Pick(T)
  <2>2. p \in T /\ IsFiniteSet(T) BY <1>2, PickIn, FS_Subset
  <2>3. Sum(T) = f[p] + Sum(T \ {p}) BY <1>2, <2>2, SumPick
  <2>4. CASE x = p BY <2>3, <2>4
  <2>5. CASE x # p
    <3> HIDE DEF p
    <3>1. Sum(T \ {p}) = f[x] + Sum((T \ {p}) \ {x}) BY <1>2, <2>2, <2>5
    <3>2. Sum(T \ {x}) = f[p] + Sum((T \ {x}) \ {p}) BY <1>2, <2>2, <2>5
    <3>3. (T \ {p}) \ {x} = (T \ {x}) \ {p} OBVIOUS
    <3>4. IsFiniteSet((T \ {x}) \ {p}) /\ \A z \in (T \ {x}) \ {p} : f[z] \in Int BY FS_Subset
    <3>5. Sum((T \ {x}) \ {p}) \in Int BY <3>4, SumInt
    <3>6. f[x] \in Int /\ f[p] \in Int BY <2>2
    <3>7. \A i, j, k \in Int : i + (j + k) = j + (i + k) OBVIOUS
    <3> HIDE DEF Sum
    <3>8. Sum(T) = f[p] + (f[x] + Sum((T \ {x}) \ {p})) BY <2>3, <3>1, <3>3
    <3>9. Sum(T) = f[x] + (f[p] + Sum((T \ {x}) \ {p})) BY <3>5, <3>6, <3>7, <3>8
    <3> QED BY <3>2, <3>9
  <2> QED BY <2>4, <2>5
<1> HIDE DEF C
<1>3. \A T \in SUBSET S : T \in C BY <1>1, <1>2, SubsetInduction
<1> QED BY <1>3 DEF C

\* A sum of smaller numbers is smaller.
LEMMA SumMonotonic ==
  ASSUME NEW S, IsFiniteSet(S), NEW f, NEW g,
         \A x \in S : f[x] \in Int /\ g[x] \in Int /\ f[x] <= g[x]
  PROVE  SumFunctionOnSet(f, S) <= SumFunctionOnSet(g, S)
<1> DEFINE C == {T \in SUBSET S : SumFunctionOnSet(f, T) <= SumFunctionOnSet(g, T)}
<1>1. {} \in C BY SumEmpty
<1>2. ASSUME NEW T \in SUBSET S, T # {}, \A x \in T : T \ {x} \in C PROVE T \in C
  <2> DEFINE p == Pick(T) D == T \ {p}
  <2>1. p \in T /\ IsFiniteSet(T) /\ IsFiniteSet(D) BY <1>2, PickIn, FS_Subset
  <2>2. SumFunctionOnSet(f, T) = f[p] + SumFunctionOnSet(f, D) BY <1>2, <2>1, SumPick
  <2>3. SumFunctionOnSet(g, T) = g[p] + SumFunctionOnSet(g, D) BY <1>2, <2>1, SumPick
  <2>4. SumFunctionOnSet(f, D) <= SumFunctionOnSet(g, D) BY <1>2, <2>1
  <2>5. SumFunctionOnSet(f, D) \in Int /\ SumFunctionOnSet(g, D) \in Int BY <2>1, SumInt
  <2>6. f[p] \in Int /\ g[p] \in Int /\ f[p] <= g[p] BY <2>1
  <2> QED BY <2>2, <2>3, <2>4, <2>5, <2>6
<1> HIDE DEF C
<1>3. \A T \in SUBSET S : T \in C BY <1>1, <1>2, SubsetInduction
<1> QED BY <1>3 DEF C

-----------------------------------------------------------------------------
\* The same of the sum of a function over its domain.
LEMMA SumFunctionInt ==
  ASSUME NEW S, IsFiniteSet(S), NEW f \in [S -> Int]
  PROVE  SumFunction(f) \in Int
BY SumInt DEF SumFunction

\* The sum of a function that is nowhere larger is not larger.
LEMMA SumFunctionMonotonic ==
  ASSUME NEW S, IsFiniteSet(S), NEW f \in [S -> Int], NEW g \in [S -> Int], \A x \in S : f[x] <= g[x]
  PROVE  SumFunction(f) <= SumFunction(g)
<1>1. DOMAIN f = S /\ DOMAIN g = S OBVIOUS
<1>2. \A x \in S : f[x] \in Int /\ g[x] \in Int /\ f[x] <= g[x] OBVIOUS
<1>3. SumFunctionOnSet(f, S) <= SumFunctionOnSet(g, S) BY <1>2, SumMonotonic
<1> QED BY <1>1, <1>3 DEF SumFunction

\* A sum grows by what one of its numbers grows by, at least.
LEMMA SumFunctionRaised ==
  ASSUME NEW S, IsFiniteSet(S), NEW f \in [S -> Int], NEW g \in [S -> Int], NEW x \in S, NEW d \in Int,
         f[x] + d <= g[x], \A y \in S \ {x} : f[y] <= g[y]
  PROVE  SumFunction(f) + d <= SumFunction(g)
<1> DEFINE T == S \ {x}
<1>1. DOMAIN f = S /\ DOMAIN g = S OBVIOUS
<1>2. IsFiniteSet(T) BY FS_Subset
<1>3. \A y \in S : f[y] \in Int /\ g[y] \in Int OBVIOUS
<1>4. SumFunctionOnSet(f, S) = f[x] + SumFunctionOnSet(f, T) BY <1>3, SumRemove
<1>5. SumFunctionOnSet(g, S) = g[x] + SumFunctionOnSet(g, T) BY <1>3, SumRemove
<1>6. \A y \in T : f[y] \in Int /\ g[y] \in Int /\ f[y] <= g[y] BY <1>3
<1>7. SumFunctionOnSet(f, T) <= SumFunctionOnSet(g, T) BY <1>2, <1>6, SumMonotonic
<1>8. SumFunctionOnSet(f, T) \in Int /\ SumFunctionOnSet(g, T) \in Int BY <1>2, <1>6, SumInt
<1> HIDE DEF T
<1>9. SumFunctionOnSet(f, S) + d <= SumFunctionOnSet(g, S)
  BY <1>3, <1>4, <1>5, <1>7, <1>8
<1> QED BY <1>1, <1>9 DEF SumFunction

\* Sums of a function that is the same on a set are the same.
LEMMA SumSame ==
  ASSUME NEW S, IsFiniteSet(S), NEW f, NEW g, \A x \in S : f[x] \in Int /\ g[x] = f[x]
  PROVE  SumFunctionOnSet(f, S) = SumFunctionOnSet(g, S)
<1>1. SumFunctionOnSet(f, S) <= SumFunctionOnSet(g, S) BY SumMonotonic
<1>2. SumFunctionOnSet(g, S) <= SumFunctionOnSet(f, S) BY SumMonotonic
<1>3. SumFunctionOnSet(f, S) \in Int /\ SumFunctionOnSet(g, S) \in Int BY SumInt
<1> QED BY <1>1, <1>2, <1>3

\* A sum of zeros.
LEMMA SumZero ==
  ASSUME NEW S, IsFiniteSet(S), NEW f, \A x \in S : f[x] = 0
  PROVE  SumFunctionOnSet(f, S) = 0
<1> DEFINE C == {T \in SUBSET S : SumFunctionOnSet(f, T) = 0}
<1>1. {} \in C BY SumEmpty
<1>2. ASSUME NEW T \in SUBSET S, T # {}, \A x \in T : T \ {x} \in C PROVE T \in C
  <2>1. IsFiniteSet(T) /\ Pick(T) \in T BY <1>2, PickIn, FS_Subset
  <2>2. SumFunctionOnSet(f, T) = f[Pick(T)] + SumFunctionOnSet(f, T \ {Pick(T)}) BY <1>2, <2>1, SumPick
  <2>3. f[Pick(T)] = 0 /\ SumFunctionOnSet(f, T \ {Pick(T)}) = 0 BY <1>2, <2>1
  <2> QED BY <2>2, <2>3
<1> HIDE DEF C
<1>3. \A T \in SUBSET S : T \in C BY <1>1, <1>2, SubsetInduction
<1> QED BY <1>3 DEF C

\* The same of the sum of a function over its domain.
LEMMA SumFunctionZero ==
  ASSUME NEW S, IsFiniteSet(S), NEW f, f = [x \in S |-> 0]
  PROVE  SumFunction(f) = 0
BY SumZero DEF SumFunction

\* A sum changes by what one of its numbers changes by.
LEMMA SumChanged ==
  ASSUME NEW S, IsFiniteSet(S), NEW f, \A x \in S : f[x] \in Int, NEW y \in S, NEW d \in Int,
         NEW g, g[y] = f[y] + d, \A x \in S \ {y} : g[x] = f[x]
  PROVE  SumFunctionOnSet(g, S) = SumFunctionOnSet(f, S) + d
<1> DEFINE T == S \ {y}
<1>1. IsFiniteSet(T) /\ \A x \in T : f[x] \in Int /\ g[x] = f[x] BY FS_Subset
<1>2. \A x \in S : g[x] \in Int
  <2>1. ASSUME NEW x \in S PROVE g[x] \in Int
    <3>1. CASE x = y BY <3>1
    <3>2. CASE x # y BY <3>2
    <3> QED BY <3>1, <3>2
  <2> QED BY <2>1
<1>3. SumFunctionOnSet(f, S) = f[y] + SumFunctionOnSet(f, T) BY SumRemove
<1>4. SumFunctionOnSet(g, S) = g[y] + SumFunctionOnSet(g, T) BY <1>2, SumRemove
<1>5. SumFunctionOnSet(f, T) = SumFunctionOnSet(g, T) BY <1>1, SumSame
<1>6. SumFunctionOnSet(f, T) \in Int BY <1>1, SumInt
<1>7. f[y] \in Int OBVIOUS
<1> QED BY <1>3, <1>4, <1>5, <1>6, <1>7

\* A sum of linear combinations is the one of the sums.
LEMMA SumFunctionLinear ==
  ASSUME NEW S, IsFiniteSet(S), NEW f \in [S -> Int], NEW g \in [S -> Int], NEW a \in Int, NEW b \in Int,
         NEW h, h = [x \in S |-> a * f[x] + b * g[x]]
  PROVE  SumFunction(h) = a * SumFunction(f) + b * SumFunction(g)
<1> DEFINE Sum(e, T) == SumFunctionOnSet(e, T)
           C == {T \in SUBSET S : Sum(h, T) = a * Sum(f, T) + b * Sum(g, T)}
<1>1. {} \in C
  <2>1. Sum(h, {}) = 0 /\ Sum(f, {}) = 0 /\ Sum(g, {}) = 0 BY SumEmpty
  <2> QED BY <2>1
<1>2. ASSUME NEW T \in SUBSET S, T # {}, \A x \in T : T \ {x} \in C PROVE T \in C
  <2> DEFINE p == Pick(T) D == T \ {p}
  <2>1. p \in T /\ IsFiniteSet(T) /\ IsFiniteSet(D) BY <1>2, PickIn, FS_Subset
  <2>2. Sum(f, T) = f[p] + Sum(f, D) /\ Sum(g, T) = g[p] + Sum(g, D) /\ Sum(h, T) = h[p] + Sum(h, D)
    BY <1>2, <2>1, SumPick
  <2>3. Sum(h, D) = a * Sum(f, D) + b * Sum(g, D) BY <1>2, <2>1
  <2>4. f[p] \in Int /\ g[p] \in Int /\ h[p] = a * f[p] + b * g[p] BY <2>1
  <2>5. Sum(f, D) \in Int /\ Sum(g, D) \in Int BY <2>1, SumInt
  <2> HIDE DEF p, D, Sum
  <2>6. \A u, v, y, z \in Int : (a * u + b * v) + (a * y + b * z) = a * (u + y) + b * (v + z)
    OBVIOUS
  <2>7. Sum(h, T) = a * Sum(f, T) + b * Sum(g, T) BY <2>2, <2>3, <2>4, <2>5, <2>6
  <2> QED BY <2>7
<1> HIDE DEF C
<1>3. \A T \in SUBSET S : T \in C BY <1>1, <1>2, SubsetInduction
<1>4. Sum(h, S) = a * Sum(f, S) + b * Sum(g, S) BY <1>3 DEF C
<1>5. DOMAIN f = S /\ DOMAIN g = S /\ DOMAIN h = S OBVIOUS
<1> QED BY <1>4, <1>5 DEF SumFunction

\* One number more.
LEMMA SumFunctionExtended ==
  ASSUME NEW n \in Nat, NEW f \in [1 .. n -> Int], NEW g \in [1 .. n + 1 -> Int],
         \A k \in 1 .. n : g[k] = f[k]
  PROVE  SumFunction(g) = SumFunction(f) + g[n + 1]
<1>1. IsFiniteSet(1 .. n) /\ IsFiniteSet(1 .. n + 1) BY FS_Interval
<1>2. n + 1 \in 1 .. n + 1 /\ (1 .. n + 1) \ {n + 1} = 1 .. n OBVIOUS
<1>3. \A k \in 1 .. n + 1 : g[k] \in Int OBVIOUS
<1>4. SumFunctionOnSet(g, 1 .. n + 1) = g[n + 1] + SumFunctionOnSet(g, (1 .. n + 1) \ {n + 1})
  BY <1>1, <1>2, <1>3, SumRemove
<1>5. \A k \in 1 .. n : f[k] \in Int /\ g[k] = f[k] OBVIOUS
<1>6. SumFunctionOnSet(f, 1 .. n) = SumFunctionOnSet(g, 1 .. n) BY <1>1, <1>5, SumSame
<1>7. SumFunctionOnSet(f, 1 .. n) \in Int BY <1>1, <1>5, SumInt
<1>8. g[n + 1] \in Int BY <1>2, <1>3
<1>9. DOMAIN f = 1 .. n /\ DOMAIN g = 1 .. n + 1 OBVIOUS
<1>10. SumFunctionOnSet(g, 1 .. n + 1) = g[n + 1] + SumFunctionOnSet(f, 1 .. n) BY <1>2, <1>4, <1>6
<1> QED BY <1>7, <1>8, <1>9, <1>10 DEF SumFunction

-----------------------------------------------------------------------------
\* The sum of a constant.
LEMMA SumConstant ==
  ASSUME NEW S, IsFiniteSet(S), NEW c \in Int
  PROVE  SumFunction([x \in S |-> c]) = Cardinality(S) * c
<1> DEFINE f == [x \in S |-> c]
           C == {T \in SUBSET S : SumFunctionOnSet(f, T) = Cardinality(T) * c}
<1>1. {} \in C
  <2>1. Cardinality({}) = 0 BY FS_EmptySet
  <2> QED BY <2>1, SumEmpty
<1>2. ASSUME NEW T \in SUBSET S, T # {}, \A x \in T : T \ {x} \in C PROVE T \in C
  <2> DEFINE p == Pick(T) D == T \ {p}
  <2>1. p \in T /\ IsFiniteSet(T) BY <1>2, PickIn, FS_Subset
  <2>2. SumFunctionOnSet(f, T) = f[p] + SumFunctionOnSet(f, D) BY <1>2, <2>1, SumPick
  <2>3. SumFunctionOnSet(f, D) = Cardinality(D) * c /\ f[p] = c BY <1>2, <2>1
  <2>4. Cardinality(D) = Cardinality(T) - 1 /\ Cardinality(T) \in Nat
    BY <2>1, FS_RemoveElement, FS_CardinalityType
  <2>5. \A n \in Nat : c + (n - 1) * c = n * c OBVIOUS
  <2> HIDE DEF f, D, p
  <2>6. SumFunctionOnSet(f, T) = Cardinality(T) * c BY <2>2, <2>3, <2>4, <2>5
  <2> QED BY <2>6
<1> HIDE DEF C
<1>3. \A T \in SUBSET S : T \in C BY <1>1, <1>2, SubsetInduction
<1>4. SumFunctionOnSet(f, S) = Cardinality(S) * c BY <1>3 DEF C
<1> QED BY <1>4 DEF SumFunction

\* No number of a sum of naturals is larger than the sum.
LEMMA SumAtLeast ==
  ASSUME NEW S, IsFiniteSet(S), NEW f \in [S -> Nat], NEW x \in S
  PROVE  SumFunction(f) \in Nat /\ f[x] <= SumFunction(f)
<1> DEFINE o == [y \in S |-> 0]
<1>1. f \in [S -> Int] /\ o \in [S -> Int] /\ f[x] \in Int OBVIOUS
<1>2. SumFunction(o) = 0 BY SumFunctionZero
<1>3. o[x] + f[x] <= f[x] /\ \A y \in S \ {x} : o[y] <= f[y] OBVIOUS
<1>4. SumFunction(f) \in Int BY <1>1, SumFunctionInt
<1> HIDE DEF o
<1>5. SumFunction(o) + f[x] <= SumFunction(f) BY <1>1, <1>3, SumFunctionRaised
<1>6. f[x] \in Nat OBVIOUS
<1> QED BY <1>2, <1>4, <1>5, <1>6

\* A sum of naturals is one.
LEMMA SumNatural ==
  ASSUME NEW S, IsFiniteSet(S), NEW f \in [S -> Nat]
  PROVE  SumFunction(f) \in Nat
<1> DEFINE o == [y \in S |-> 0]
<1>1. f \in [S -> Int] /\ o \in [S -> Int] /\ \A x \in S : o[x] <= f[x] OBVIOUS
<1>2. SumFunction(o) = 0 BY SumFunctionZero
<1>3. SumFunction(f) \in Int BY <1>1, SumFunctionInt
<1> HIDE DEF o
<1>4. SumFunction(o) <= SumFunction(f) BY <1>1, SumFunctionMonotonic
<1> QED BY <1>2, <1>3, <1>4

\* What bounds each difference, times a factor, bounds that of the sums.
LEMMA SumOfDifferences ==
  ASSUME NEW S, IsFiniteSet(S), NEW f \in [S -> Int], NEW g \in [S -> Int], NEW h \in [S -> Int],
         NEW c \in Int
  PROVE  LET sum == c * (SumFunction(g) - SumFunction(f))
         IN  /\ (\A x \in S : h[x] <= c * (g[x] - f[x])) => SumFunction(h) <= sum
             /\ (\A x \in S : c * (g[x] - f[x]) <= h[x]) => sum <= SumFunction(h)
             /\ (\A x \in S : h[x] = c * (g[x] - f[x])) => SumFunction(h) = sum
<1> DEFINE e == [x \in S |-> c * g[x] + (-c) * f[x]]
<1>1. -c \in Int /\ SumFunction(f) \in Int /\ SumFunction(g) \in Int BY SumFunctionInt
<1>2. \A u, v \in Int : c * u + (-c) * v = c * (u - v) /\ c * (u - v) \in Int OBVIOUS
<1>3. e = [x \in S |-> c * (g[x] - f[x])] /\ e \in [S -> Int] BY <1>2
<1>4. SumFunction(e) = c * SumFunction(g) + (-c) * SumFunction(f) BY <1>1, SumFunctionLinear
<1>5. SumFunction(e) = c * (SumFunction(g) - SumFunction(f)) BY <1>1, <1>2, <1>4
<1>6. \A x \in S : e[x] = c * (g[x] - f[x]) BY <1>3
<1>7. e \in [S -> Int] BY <1>3
<1> HIDE DEF e
<1>8. (\A x \in S : h[x] <= e[x]) => SumFunction(h) <= SumFunction(e) BY <1>7, SumFunctionMonotonic
<1>9. (\A x \in S : e[x] <= h[x]) => SumFunction(e) <= SumFunction(h) BY <1>7, SumFunctionMonotonic
<1>10. (\A x \in S : h[x] = e[x]) => h = e BY <1>7
<1> QED BY <1>5, <1>6, <1>8, <1>9, <1>10

\* The rows may be summed first, or the columns.
LEMMA SumSwapped ==
  ASSUME NEW I, NEW J, IsFiniteSet(I), IsFiniteSet(J), NEW f \in [I -> [J -> Int]]
  PROVE  SumFunction([i \in I |-> SumFunction(f[i])])
           = SumFunction([j \in J |-> SumFunction([i \in I |-> f[i][j]])])
<1> DEFINE row == [i \in I |-> SumFunction(f[i])]
           col == [j \in J |-> [i \in I |-> f[i][j]]]
           Cols(T) == [j \in J |-> SumFunctionOnSet(col[j], T)]
           C == {T \in SUBSET I : SumFunctionOnSet(row, T) = SumFunction(Cols(T))}
<1>1. \A i \in I : f[i] \in [J -> Int] OBVIOUS
<1>2. \A j \in J, i \in I : col[j][i] = f[i][j] /\ f[i][j] \in Int OBVIOUS
<1>3. \A i \in I : row[i] = SumFunction(f[i]) OBVIOUS
<1>4. {} \in C
  <2>1. Cols({}) = [j \in J |-> 0] BY SumEmpty
  <2>2. SumFunction(Cols({})) = 0 BY <2>1, SumFunctionZero
  <2> QED BY <2>2, SumEmpty
<1>5. ASSUME NEW T \in SUBSET I, T # {}, \A x \in T : T \ {x} \in C PROVE T \in C
  <2> DEFINE p == Pick(T) D == T \ {p}
  <2>1. p \in T /\ IsFiniteSet(T) /\ IsFiniteSet(D) BY <1>5, PickIn, FS_Subset
  <2>2. SumFunctionOnSet(row, T) = row[p] + SumFunctionOnSet(row, D) BY <1>5, <2>1, SumPick
  <2>3. SumFunctionOnSet(row, D) = SumFunction(Cols(D)) BY <1>5, <2>1
  <2>4. \A j \in J : SumFunctionOnSet(col[j], T) = col[j][p] + SumFunctionOnSet(col[j], D)
    BY <1>5, <2>1, SumPick
  <2>5. \A j \in J : SumFunctionOnSet(col[j], D) \in Int
    <3>1. TAKE j \in J
    <3>2. \A i \in D : col[j][i] \in Int BY <1>2
    <3> HIDE DEF col, D
    <3> QED BY <2>1, <3>2, SumInt
  <2>6. p \in I BY <2>1
  <2> HIDE DEF col, D, p, row
  <2>7. Cols(T) = [j \in J |-> 1 * f[p][j] + 1 * Cols(D)[j]]
    <3>1. \A j \in J : SumFunctionOnSet(col[j], T) = 1 * f[p][j] + 1 * SumFunctionOnSet(col[j], D)
      BY <1>2, <2>4, <2>5, <2>6
    <3> QED BY <3>1
  <2>8. Cols(D) \in [J -> Int] BY <2>5
  <2> HIDE DEF Cols
  <2>9. SumFunction(Cols(T)) = 1 * SumFunction(f[p]) + 1 * SumFunction(Cols(D))
    BY <1>1, <2>6, <2>7, <2>8, SumFunctionLinear
  <2>10. SumFunction(f[p]) \in Int /\ SumFunction(Cols(D)) \in Int BY <1>1, <2>6, <2>8, SumFunctionInt
  <2>11. SumFunctionOnSet(row, T) = SumFunction(Cols(T))
    BY <1>3, <2>2, <2>3, <2>6, <2>9, <2>10
  <2> QED BY <2>11
<1> HIDE DEF C
<1>6. I \in C BY <1>4, <1>5, SubsetInduction
<1>7. SumFunctionOnSet(row, I) = SumFunction(Cols(I)) BY <1>6 DEF C
<1>8. Cols(I) = [j \in J |-> SumFunction([i \in I |-> f[i][j]])] BY DEF SumFunction
<1>9. SumFunction(row) = SumFunctionOnSet(row, I) BY DEF SumFunction
<1> QED BY <1>7, <1>8, <1>9
=============================================================================
