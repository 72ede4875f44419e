----------------------------- MODULE FoldLemmas -----------------------------
(***************************************************************************)
(* Facts about the sums of the models (MapThenSumSet of the community        *)
(* modules): the history trim weighs its turns with them, the rate limiter   *)
(* counts the requests of a window.  A fold of the library is a recursive    *)
(* function under a CHOOSE; that it exists, and what it computes for every   *)
(* finite set, is by induction, and induction by the least element of a set  *)
(* of naturals (WFMin of the library), which takes no operator.              *)
(***************************************************************************)
EXTENDS Lists, FiniteSetsExt, FiniteSetTheorems, SequenceTheorems, WellFoundedInduction, TLAPS

(* Every set of naturals has a least element.                                *)
LEMMA LeastNatural ==
  ASSUME NEW T \in SUBSET Nat, T # {}
  PROVE  \E n \in T : \A m \in T : n <= m
<1>1. PICK n \in T : \A m \in T : ~(<<m, n>> \in OpToRel(<, Nat))
  BY WFMin, NatLessThanWellFounded, Zenon
<1>2. \A m \in T : ~(m < n)
  BY <1>1 DEF OpToRel
<1> QED
  BY <1>2

(* So a set that holds 0 and every successor holds all of them.              *)
LEMMA Induction ==
  ASSUME NEW S, 0 \in S, \A n \in Nat : n \in S => n + 1 \in S
  PROVE  \A n \in Nat : n \in S
<1> SUFFICES ASSUME NEW k \in Nat, k \notin S PROVE FALSE
  OBVIOUS
<1> DEFINE T == {n \in Nat : n \notin S}
<1>1. PICK n \in T : \A m \in T : n <= m
  <2> HIDE DEF T
  <2>1. T \in SUBSET Nat /\ T # {}
    BY DEF T
  <2> QED
    BY <2>1, LeastNatural
<1>2. n # 0 /\ n - 1 \in Nat /\ n - 1 \notin T
  BY <1>1
<1> QED
  BY <1>2

-----------------------------------------------------------------------------
(* The fold of the library, with its parts named: an element is chosen, and  *)
(* the sum of the others is added to its weight.                             *)
Chosen(s) == CHOOSE x \in s : TRUE
SumStep(f, w, s) == IF s = {} THEN 0 ELSE w[Chosen(s)] + f[s \ {Chosen(s)}]
IsSum(f, w, S) == f = [s \in SUBSET S |-> SumStep(f, w, s)]
SumOf(w, S) == (CHOOSE f : IsSum(f, w, S))[S]

(* The sums of the models are these.                                         *)
LEMMA SumIsFold == \A w, S : MapThenSumSet(LAMBDA x : w[x], S) = SumOf(w, S)
BY DEF MapThenSumSet, MapThenFoldSet, SumOf, IsSum, SumStep, Chosen

(* What is left without the chosen element is smaller by one.                *)
LEMMA FewerLeft ==
  ASSUME NEW s, IsFiniteSet(s), s # {}
  PROVE  /\ Chosen(s) \in s /\ IsFiniteSet(s \ {Chosen(s)})
         /\ Cardinality(s) \in Nat /\ Cardinality(s) > 0
         /\ Cardinality(s \ {Chosen(s)}) = Cardinality(s) - 1
<1>1. Chosen(s) \in s
  BY DEF Chosen
<1> QED
  BY <1>1, FS_RemoveElement, FS_CardinalityType, FS_EmptySet

(* The recursion of a sum is well founded: there is a function like it.      *)
LEMMA SumExists ==
  ASSUME NEW w, NEW S, IsFiniteSet(S)
  PROVE  \E f : IsSum(f, w, S)
<1> DEFINE Upto(n, f) == \A s \in SUBSET S : Cardinality(s) <= n => f[s] = SumStep(f, w, s)
           N == {n \in Nat : \E f : Upto(n, f)}
<1>1. \A s \in SUBSET S : /\ IsFiniteSet(s) /\ Cardinality(s) \in Nat
                          /\ Cardinality(s) <= Cardinality(S)
  BY FS_Subset, FS_CardinalityType
<1>2. 0 \in N
  <2> DEFINE f == [s \in SUBSET S |-> 0]
  <2>1. \A s \in SUBSET S : Cardinality(s) <= 0 => s = {}
    BY <1>1, FS_EmptySet
  <2>2. Upto(0, f)
    BY <2>1 DEF SumStep
  <2> QED
    BY <2>2
<1>3. ASSUME NEW n \in Nat, n \in N PROVE n + 1 \in N
  <2>1. PICK f : Upto(n, f)
    BY <1>3
  <2> DEFINE g == [s \in SUBSET S |-> IF Cardinality(s) <= n THEN f[s] ELSE SumStep(f, w, s)]
  <2>2. ASSUME NEW s \in SUBSET S, Cardinality(s) <= n + 1 PROVE g[s] = SumStep(g, w, s)
    <3>1. g[s] = SumStep(f, w, s)
      BY <2>1
    <3>2. CASE s = {}
      BY <3>1, <3>2 DEF SumStep
    <3>3. CASE s # {}
      <4>1. s \ {Chosen(s)} \in SUBSET S /\ Cardinality(s \ {Chosen(s)}) <= n
        BY <3>3, <2>2, <1>1, FewerLeft
      <4>2. g[s \ {Chosen(s)}] = f[s \ {Chosen(s)}]
        BY <4>1
      <4> QED
        BY <3>1, <3>3, <4>2 DEF SumStep
    <3> QED
      BY <3>2, <3>3
  <2> HIDE DEF g
  <2>3. Upto(n + 1, g)
    BY <2>2
  <2> QED
    BY <2>3
<1>4. Cardinality(S) \in N
  <2> HIDE DEF N
  <2>1. \A n \in Nat : n \in N
    BY <1>2, <1>3, Induction
  <2> QED
    BY <2>1, FS_CardinalityType
<1>5. PICK f : Upto(Cardinality(S), f)
  BY <1>4
<1> DEFINE g == [s \in SUBSET S |-> f[s]]
<1>6. \A s \in SUBSET S : g[s] = SumStep(g, w, s)
  <2> SUFFICES ASSUME NEW s \in SUBSET S PROVE g[s] = SumStep(g, w, s)
    OBVIOUS
  <2>1. g[s] = SumStep(f, w, s)
    BY <1>1, <1>5
  <2>2. s \ {Chosen(s)} \in SUBSET S
    OBVIOUS
  <2> QED
    BY <2>1, <2>2 DEF SumStep
<1>7. IsSum(g, w, S)
  <2>1. g = [s \in SUBSET S |-> g[s]]
    OBVIOUS
  <2> HIDE DEF g
  <2> QED
    BY <1>6, <2>1 DEF IsSum
<1> QED
  BY <1>7

(* Two sums agree where both are defined.                                    *)
LEMMA SumUnique ==
  ASSUME NEW w, NEW S, IsFiniteSet(S), NEW T \in SUBSET S, NEW f, NEW g,
         IsSum(f, w, S), IsSum(g, w, T)
  PROVE  f[T] = g[T]
<1> DEFINE N == {n \in Nat : \A s \in SUBSET T : Cardinality(s) = n => f[s] = g[s]}
<1>1. \A s \in SUBSET T : IsFiniteSet(s) /\ Cardinality(s) \in Nat
  BY FS_Subset, FS_CardinalityType
<1>2. \A s \in SUBSET T : f[s] = SumStep(f, w, s) /\ g[s] = SumStep(g, w, s)
  <2>1. \A s \in SUBSET T : s \in SUBSET S
    OBVIOUS
  <2> QED
    BY <2>1 DEF IsSum
<1>3. 0 \in N
  <2>1. \A s \in SUBSET T : Cardinality(s) = 0 => s = {}
    BY <1>1, FS_EmptySet
  <2> QED
    BY <1>2, <2>1 DEF SumStep
<1>4. ASSUME NEW n \in Nat, n \in N PROVE n + 1 \in N
  <2>1. ASSUME NEW s \in SUBSET T, Cardinality(s) = n + 1 PROVE f[s] = g[s]
    <3>1. s # {}
      BY <2>1, FS_EmptySet
    <3>2. s \ {Chosen(s)} \in SUBSET T /\ Cardinality(s \ {Chosen(s)}) = n
      BY <3>1, <2>1, <1>1, FewerLeft
    <3>3. f[s \ {Chosen(s)}] = g[s \ {Chosen(s)}]
      BY <3>2, <1>4
    <3> QED
      BY <1>2, <3>1, <3>3 DEF SumStep
  <2> QED
    BY <2>1
<1>5. \A n \in Nat : n \in N
  <2> HIDE DEF N
  <2> QED
    BY <1>3, <1>4, Induction
<1> QED
  BY <1>5, <1>1

(* The equation of the recursion.                                            *)
LEMMA SumRule ==
  ASSUME NEW w, NEW S, IsFiniteSet(S)
  PROVE  SumOf(w, S) = IF S = {} THEN 0 ELSE w[Chosen(S)] + SumOf(w, S \ {Chosen(S)})
<1> DEFINE f == CHOOSE h : IsSum(h, w, S)
           R == S \ {Chosen(S)}
           g == CHOOSE h : IsSum(h, w, R)
<1>1. IsSum(f, w, S)
  BY SumExists
<1>2. IsFiniteSet(R) /\ R \in SUBSET S
  BY FS_Subset
<1>3. IsSum(g, w, R)
  <2> HIDE DEF R
  <2> QED
    BY <1>2, SumExists
<1> HIDE DEF f, g
<1>4. f[S] = SumStep(f, w, S)
  BY <1>1 DEF IsSum
<1>5. f[R] = g[R]
  BY <1>1, <1>2, <1>3, SumUnique
<1> QED
  BY <1>4, <1>5 DEF SumStep, SumOf, f, g

(* The weights of S are naturals.                                            *)
NatOn(w, S) == \A x \in S : w[x] \in Nat

(* A sum of naturals is one.                                                 *)
LEMMA SumType ==
  ASSUME NEW w, NEW S, IsFiniteSet(S), NatOn(w, S)
  PROVE  SumOf(w, S) \in Nat
<1> DEFINE N == {n \in Nat : \A s \in SUBSET S : Cardinality(s) = n => SumOf(w, s) \in Nat}
<1>1. \A s \in SUBSET S : IsFiniteSet(s) /\ Cardinality(s) \in Nat
  BY FS_Subset, FS_CardinalityType
<1>2. 0 \in N
  BY <1>1, FS_EmptySet, SumRule
<1>3. ASSUME NEW n \in Nat, n \in N PROVE n + 1 \in N
  <2>1. ASSUME NEW s \in SUBSET S, Cardinality(s) = n + 1 PROVE SumOf(w, s) \in Nat
    <3>1. s # {}
      BY <2>1, FS_EmptySet
    <3>2. s \ {Chosen(s)} \in SUBSET S /\ Cardinality(s \ {Chosen(s)}) = n /\ Chosen(s) \in s
      BY <3>1, <2>1, <1>1, FewerLeft
    <3>3. SumOf(w, s \ {Chosen(s)}) \in Nat /\ w[Chosen(s)] \in Nat
      BY <3>2, <1>3 DEF NatOn
    <3> QED
      BY <1>1, <3>1, <3>3, SumRule
  <2> QED
    BY <2>1
<1>4. \A n \in Nat : n \in N
  <2> HIDE DEF N
  <2> QED
    BY <1>2, <1>3, Induction
<1> QED
  BY <1>4, <1>1

(* Any element can be taken first.                                           *)
LEMMA SumTakes ==
  ASSUME NEW w, NEW S, IsFiniteSet(S), NatOn(w, S), NEW x \in S
  PROVE  SumOf(w, S) = w[x] + SumOf(w, S \ {x})
<1> DEFINE N == {n \in Nat : \A s \in SUBSET S : Cardinality(s) = n =>
                               \A y \in s : SumOf(w, s) = w[y] + SumOf(w, s \ {y})}
<1>1. \A s \in SUBSET S : /\ IsFiniteSet(s) /\ Cardinality(s) \in Nat
                          /\ SumOf(w, s) \in Nat /\ NatOn(w, s)
  BY FS_Subset, FS_CardinalityType, SumType DEF NatOn
<1>2. 0 \in N
  BY <1>1, FS_EmptySet
<1>3. ASSUME NEW n \in Nat, n \in N PROVE n + 1 \in N
  <2>1. ASSUME NEW s \in SUBSET S, Cardinality(s) = n + 1, NEW y \in s
        PROVE  SumOf(w, s) = w[y] + SumOf(w, s \ {y})
    <3> DEFINE c == Chosen(s)
    <3>1. s # {} /\ c \in s /\ Cardinality(s \ {c}) = n
      BY <2>1, <1>1, FewerLeft
    <3>2. SumOf(w, s) = w[c] + SumOf(w, s \ {c})
      BY <1>1, <3>1, SumRule
    <3>3. CASE y = c
      BY <3>2, <3>3
    <3>4. CASE y # c
      <4> HIDE DEF c
      <4>1. Cardinality(s \ {y}) = n
        <5>1. IsFiniteSet(s)
          BY <1>1
        <5>2. Cardinality(s \ {y}) = Cardinality(s) - 1
          BY <2>1, <5>1, FS_RemoveElement
        <5> QED
          BY <2>1, <5>2
      <4>2. SumOf(w, s \ {c}) = w[y] + SumOf(w, (s \ {c}) \ {y})
        <5>1. s \ {c} \in SUBSET S /\ y \in s \ {c}
          BY <3>4
        <5> QED
          BY <5>1, <3>1, <1>3
      <4>3. SumOf(w, s \ {y}) = w[c] + SumOf(w, (s \ {y}) \ {c})
        <5>1. s \ {y} \in SUBSET S /\ c \in s \ {y}
          BY <3>4, <3>1
        <5> QED
          BY <5>1, <4>1, <1>3
      <4>4. (s \ {y}) \ {c} = (s \ {c}) \ {y} /\ (s \ {c}) \ {y} \in SUBSET S
        OBVIOUS
      <4>5. w[y] \in Nat /\ w[c] \in Nat /\ SumOf(w, (s \ {c}) \ {y}) \in Nat
        BY <1>1, <3>1, <4>4 DEF NatOn
      <4> QED
        BY <3>2, <4>2, <4>3, <4>4, <4>5
    <3> QED
      BY <3>3, <3>4
  <2> QED
    BY <2>1
<1>4. \A n \in Nat : n \in N
  <2> HIDE DEF N
  <2> QED
    BY <1>2, <1>3, Induction
<1> QED
  BY <1>4, <1>1

(* Nothing weighs nothing.                                                   *)
LEMMA SumEmpty == \A w : SumOf(w, {}) = 0
BY SumRule, FS_EmptySet

(* A sum over two parts is the sum of both.                                  *)
LEMMA SumSplits ==
  ASSUME NEW w, NEW A, NEW B, IsFiniteSet(A), IsFiniteSet(B), A \cap B = {},
         NatOn(w, A), NatOn(w, B)
  PROVE  SumOf(w, A \cup B) = SumOf(w, A) + SumOf(w, B)
<1> DEFINE N == {n \in Nat : \A s \in SUBSET B : Cardinality(s) = n =>
                               SumOf(w, A \cup s) = SumOf(w, A) + SumOf(w, s)}
<1>1. \A s \in SUBSET B : /\ IsFiniteSet(s) /\ Cardinality(s) \in Nat
                          /\ SumOf(w, s) \in Nat /\ NatOn(w, s)
  BY FS_Subset, FS_CardinalityType, SumType DEF NatOn
<1>2. SumOf(w, A) \in Nat
  BY SumType
<1>3. \A s \in SUBSET B : IsFiniteSet(A \cup s) /\ NatOn(w, A \cup s)
  <2>1. IsFiniteSet(A \cup B)
    BY FS_Union
  <2> QED
    BY <2>1, FS_Subset DEF NatOn
<1>4. 0 \in N
  <2>1. \A s \in SUBSET B : Cardinality(s) = 0 => s = {} /\ A \cup s = A
    BY <1>1, FS_EmptySet
  <2> QED
    BY <1>2, <2>1, SumEmpty
<1>5. ASSUME NEW n \in Nat, n \in N PROVE n + 1 \in N
  <2>1. ASSUME NEW s \in SUBSET B, Cardinality(s) = n + 1
        PROVE  SumOf(w, A \cup s) = SumOf(w, A) + SumOf(w, s)
    <3> DEFINE c == Chosen(s)
               r == s \ {c}
    <3>1. s # {} /\ c \in s /\ Cardinality(r) = n
      BY <2>1, <1>1, FewerLeft, FS_EmptySet
    <3> HIDE DEF c
    <3>2. SumOf(w, s) = w[c] + SumOf(w, r)
      BY <1>1, <3>1, SumTakes
    <3>3. (A \cup s) \ {c} = A \cup r /\ r \in SUBSET B
      BY <3>1
    <3>4. SumOf(w, A \cup s) = w[c] + SumOf(w, A \cup r)
      <4>1. c \in A \cup s /\ IsFiniteSet(A \cup s) /\ NatOn(w, A \cup s)
        BY <1>3, <3>1
      <4>2. SumOf(w, A \cup s) = w[c] + SumOf(w, (A \cup s) \ {c})
        BY <4>1, SumTakes
      <4> QED
        BY <3>3, <4>2
    <3>5. SumOf(w, A \cup r) = SumOf(w, A) + SumOf(w, r)
      BY <3>1, <3>3, <1>5
    <3>6. w[c] \in Nat /\ SumOf(w, r) \in Nat
      BY <1>1, <3>1, <3>3 DEF NatOn
    <3> HIDE DEF r
    <3> QED
      BY <1>2, <3>2, <3>4, <3>5, <3>6
  <2> QED
    BY <2>1
<1>6. \A n \in Nat : n \in N
  <2> HIDE DEF N
  <2> QED
    BY <1>4, <1>5, Induction
<1> QED
  BY <1>6, <1>1

(* A sum depends on the weights in the set only.                             *)
LEMMA SumSame ==
  ASSUME NEW w, NEW v, NEW S, IsFiniteSet(S), \A x \in S : w[x] = v[x]
  PROVE  SumOf(w, S) = SumOf(v, S)
<1> DEFINE N == {n \in Nat : \A s \in SUBSET S : Cardinality(s) = n => SumOf(w, s) = SumOf(v, s)}
<1>1. \A s \in SUBSET S : IsFiniteSet(s) /\ Cardinality(s) \in Nat
  BY FS_Subset, FS_CardinalityType
<1>2. 0 \in N
  BY <1>1, FS_EmptySet, SumRule
<1>3. ASSUME NEW n \in Nat, n \in N PROVE n + 1 \in N
  <2>1. ASSUME NEW s \in SUBSET S, Cardinality(s) = n + 1 PROVE SumOf(w, s) = SumOf(v, s)
    <3>1. s # {}
      BY <2>1, FS_EmptySet
    <3>2. s \ {Chosen(s)} \in SUBSET S /\ Cardinality(s \ {Chosen(s)}) = n /\ Chosen(s) \in s
      BY <3>1, <2>1, <1>1, FewerLeft
    <3>3. SumOf(w, s \ {Chosen(s)}) = SumOf(v, s \ {Chosen(s)}) /\ w[Chosen(s)] = v[Chosen(s)]
      BY <3>2, <1>3
    <3> QED
      BY <1>1, <3>1, <3>3, SumRule
  <2> QED
    BY <2>1
<1>4. \A n \in Nat : n \in N
  <2> HIDE DEF N
  <2> QED
    BY <1>2, <1>3, Induction
<1> QED
  BY <1>4, <1>1

(* Elements without weight add up to nothing.                                *)
LEMMA SumZero ==
  ASSUME NEW w, NEW S, IsFiniteSet(S), \A x \in S : w[x] = 0
  PROVE  SumOf(w, S) = 0
<1> DEFINE N == {n \in Nat : \A s \in SUBSET S : Cardinality(s) = n => SumOf(w, s) = 0}
<1>1. \A s \in SUBSET S : IsFiniteSet(s) /\ Cardinality(s) \in Nat
  BY FS_Subset, FS_CardinalityType
<1>2. 0 \in N
  BY <1>1, FS_EmptySet, SumRule
<1>3. ASSUME NEW n \in Nat, n \in N PROVE n + 1 \in N
  <2>1. ASSUME NEW s \in SUBSET S, Cardinality(s) = n + 1 PROVE SumOf(w, s) = 0
    <3>1. s # {}
      BY <2>1, FS_EmptySet
    <3>2. s \ {Chosen(s)} \in SUBSET S /\ Cardinality(s \ {Chosen(s)}) = n /\ Chosen(s) \in s
      BY <3>1, <2>1, <1>1, FewerLeft
    <3>3. SumOf(w, s \ {Chosen(s)}) = 0 /\ w[Chosen(s)] = 0
      BY <3>2, <1>3
    <3> QED
      BY <1>1, <3>1, <3>3, SumRule
  <2> QED
    BY <2>1
<1>4. \A n \in Nat : n \in N
  <2> HIDE DEF N
  <2> QED
    BY <1>2, <1>3, Induction
<1> QED
  BY <1>4, <1>1

(* What lies outside B and weighs nothing does not count.                    *)
LEMMA SumBelow ==
  ASSUME NEW w, NEW A, NEW B, IsFiniteSet(A), IsFiniteSet(B), NatOn(w, A), NatOn(w, B),
         \A x \in A \ B : w[x] = 0
  PROVE  SumOf(w, A) <= SumOf(w, B)
<1> DEFINE both == A \cap B
<1>1. /\ IsFiniteSet(both) /\ IsFiniteSet(A \ B) /\ IsFiniteSet(B \ A)
      /\ NatOn(w, both) /\ NatOn(w, A \ B) /\ NatOn(w, B \ A)
  BY FS_Subset DEF NatOn
<1>2. A = both \cup (A \ B) /\ B = both \cup (B \ A)
  OBVIOUS
<1>3. SumOf(w, A) = SumOf(w, both) + SumOf(w, A \ B)
  <2>1. both \cap (A \ B) = {}
    OBVIOUS
  <2>2. SumOf(w, both \cup (A \ B)) = SumOf(w, both) + SumOf(w, A \ B)
    <3> HIDE DEF both
    <3> QED
      BY <1>1, <2>1, SumSplits
  <2> QED
    BY <1>2, <2>2
<1>4. SumOf(w, B) = SumOf(w, both) + SumOf(w, B \ A)
  <2>1. both \cap (B \ A) = {}
    OBVIOUS
  <2>2. SumOf(w, both \cup (B \ A)) = SumOf(w, both) + SumOf(w, B \ A)
    <3> HIDE DEF both
    <3> QED
      BY <1>1, <2>1, SumSplits
  <2> QED
    BY <1>2, <2>2
<1>5. SumOf(w, A \ B) = 0
  BY <1>1, SumZero
<1>6. SumOf(w, both) \in Nat /\ SumOf(w, B \ A) \in Nat
  <2> HIDE DEF both
  <2> QED
    BY <1>1, SumType
<1> HIDE DEF both
<1> QED
  BY <1>3, <1>4, <1>5, <1>6

(* One more at one element is one more in all.                               *)
LEMMA SumGrows ==
  ASSUME NEW w, NEW S, IsFiniteSet(S), NatOn(w, S), NEW v, NatOn(v, S),
         NEW x \in S, v[x] = w[x] + 1, \A y \in S \ {x} : v[y] = w[y]
  PROVE  SumOf(v, S) = SumOf(w, S) + 1
<1>1. SumOf(w, S) = w[x] + SumOf(w, S \ {x}) /\ SumOf(v, S) = v[x] + SumOf(v, S \ {x})
  BY SumTakes
<1>2. IsFiniteSet(S \ {x}) /\ NatOn(w, S \ {x})
  BY FS_Subset DEF NatOn
<1>3. SumOf(v, S \ {x}) = SumOf(w, S \ {x}) /\ SumOf(w, S \ {x}) \in Nat
  BY <1>2, SumSame, SumType
<1>4. w[x] \in Nat
  BY DEF NatOn
<1> QED
  BY <1>1, <1>3, <1>4

(* A pair is finite.                                                         *)
LEMMA PairFinite ==
  ASSUME NEW a, NEW b
  PROVE  IsFiniteSet({a, b})
<1>1. IsFiniteSet({a})
  BY FS_Singleton
<1>2. IsFiniteSet({a} \cup {b})
  BY <1>1, FS_AddElement
<1>3. {a, b} = {a} \cup {b}
  OBVIOUS
<1> QED
  BY <1>2, <1>3

(* Rounded up: the least number of b that cover a.                           *)
LEMMA Ceiling ==
  ASSUME NEW a \in Nat \ {0}, NEW b \in Nat \ {0}
  PROVE  LET q == (a + b - 1) \div b
         IN  q \in Nat \ {0} /\ q * b >= a /\ q * b - b < a
<1> DEFINE q == (a + b - 1) \div b
           r == (a + b - 1) % b
<1>1. q \in Int /\ r \in 0 .. b - 1 /\ a + b - 1 = q * b + r
  OBVIOUS
<1> HIDE DEF q, r
<1>2. q * b \in Int /\ q * b >= a /\ q * b - b < a
  BY <1>1
<1>3. q >= 1
  <2>1. ASSUME q <= 0 PROVE FALSE
    <3>1. q * b <= 0
      BY <1>1, <2>1
    <3> QED
      BY <3>1, <1>2
  <2> QED
    BY <1>1, <2>1
<1> QED
  BY <1>1, <1>2, <1>3 DEF q

-----------------------------------------------------------------------------
(* What a filter keeps: the places, each once.  The n-th place is the one    *)
(* with rank n, and the ranks count from 1 to the number of places.          *)
Upto(places, k) == {j \in places : j <= k}
Below(places, k) == {j \in places : j < k}
Rank(places, k) == Cardinality(Upto(places, k))
Nth(places, n) == CHOOSE k \in places : Rank(places, k) = n

(* Every place has a rank, a later place a higher one.                       *)
LEMMA RankGrows ==
  ASSUME NEW places \in SUBSET Nat, IsFiniteSet(places)
  PROVE  /\ \A k \in places : Rank(places, k) \in 1 .. Cardinality(places)
         /\ \A j, k \in places : j < k => Rank(places, j) < Rank(places, k)
<1>1. ASSUME NEW k \in places
      PROVE  /\ IsFiniteSet(Upto(places, k))
             /\ Rank(places, k) \in Nat /\ Rank(places, k) <= Cardinality(places)
  BY FS_Subset, FS_CardinalityType DEF Upto, Rank
<1>2. Cardinality(places) \in Nat
  BY FS_CardinalityType
<1>3. ASSUME NEW k \in places
      PROVE  /\ IsFiniteSet(Below(places, k)) /\ Cardinality(Below(places, k)) \in Nat
             /\ Rank(places, k) = Cardinality(Below(places, k)) + 1
  <2>1. k \in Upto(places, k) /\ Below(places, k) = Upto(places, k) \ {k}
    <3>1. k <= k /\ \A j \in places : j < k <=> j <= k /\ j # k
      OBVIOUS
    <3> QED BY <3>1 DEF Upto, Below
  <2>2. /\ IsFiniteSet(Below(places, k))
        /\ Cardinality(Below(places, k)) = Cardinality(Upto(places, k)) - 1
    BY <1>1, <2>1, FS_RemoveElement
  <2>3. Cardinality(Below(places, k)) \in Nat
    BY <2>2, FS_CardinalityType
  <2> QED BY <1>1, <2>2, <2>3 DEF Rank
<1>4. ASSUME NEW k \in places PROVE Rank(places, k) \in 1 .. Cardinality(places)
  BY <1>1, <1>2, <1>3
<1>5. ASSUME NEW j \in places, NEW k \in places, j < k
      PROVE  Rank(places, j) < Rank(places, k)
  <2>1. Upto(places, j) \in SUBSET Below(places, k)
    <3>1. \A i \in places : i <= j => i < k
      BY <1>5
    <3> QED BY <3>1 DEF Upto, Below
  <2>2. Rank(places, j) <= Cardinality(Below(places, k))
    BY <1>3, <2>1, FS_Subset DEF Rank
  <2> QED BY <1>1, <1>3, <2>2
<1> QED BY <1>4, <1>5

(* The n-th place has rank n, and every place is some n-th one.              *)
LEMMA NthPlace ==
  ASSUME NEW places \in SUBSET Nat, IsFiniteSet(places)
  PROVE  /\ Cardinality(places) \in Nat
         /\ \A n \in 1 .. Cardinality(places) :
              Nth(places, n) \in places /\ Rank(places, Nth(places, n)) = n
         /\ \A k \in places : \E n \in 1 .. Cardinality(places) : Nth(places, n) = k
<1> DEFINE C == Cardinality(places)
           rank == [k \in places |-> Rank(places, k)]
<1>1. C \in Nat /\ IsFiniteSet(1 .. C) /\ Cardinality(1 .. C) = C
  BY FS_CardinalityType, FS_Interval
<1>2. rank \in [places -> 1 .. C]
  BY RankGrows
<1>3. \A j, k \in places : Rank(places, j) = Rank(places, k) => j = k
  <2>1. \A j, k \in places : Rank(places, j) \in Nat /\ j \in Nat /\ (j < k \/ k < j \/ j = k)
    BY <1>1, RankGrows
  <2> QED BY <2>1, RankGrows
<1>4. rank \in Injection(places, 1 .. C)
  BY <1>2, <1>3 DEF Injection, IsInjective
<1>5. rank \in Surjection(places, 1 .. C)
  <2> HIDE DEF rank, C
  <2>1. Cardinality(places) = Cardinality(1 .. C)
    BY <1>1 DEF C
  <2> QED BY <1>1, <1>4, <2>1, FS_Injection
<1>6. \A n \in 1 .. C : \E k \in places : Rank(places, k) = n
  BY <1>5 DEF Surjection
<1>7. \A n \in 1 .. C : Nth(places, n) \in places /\ Rank(places, Nth(places, n)) = n
  BY <1>6 DEF Nth
<1>8. ASSUME NEW k \in places PROVE \E n \in 1 .. C : Nth(places, n) = k
  <2>1. Rank(places, k) \in 1 .. C
    BY RankGrows
  <2> QED BY <1>3, <1>7, <2>1
<1> QED BY <1>1, <1>7, <1>8

(* So a filtered list has the entries of those places, each once.            *)
LEMMA FilterKeeps ==
  ASSUME NEW E, NEW list \in Seq(E), NEW places \in SUBSET DOMAIN list
  PROVE  /\ Filtered(list, places) \in Seq(E)
         /\ Len(Filtered(list, places)) = Cardinality(places)
         /\ \A n \in DOMAIN Filtered(list, places) :
              Filtered(list, places)[n] = list[Nth(places, n)]
         /\ \A n \in DOMAIN Filtered(list, places) : Nth(places, n) \in places
         /\ \A m, n \in DOMAIN Filtered(list, places) : Nth(places, m) = Nth(places, n) => m = n
         /\ \A k \in places : \E n \in DOMAIN Filtered(list, places) : Nth(places, n) = k
<1>1. places \in SUBSET Nat /\ IsFiniteSet(places)
  <2>1. DOMAIN list = 1 .. Len(list) /\ Len(list) \in Nat
    OBVIOUS
  <2>2. IsFiniteSet(1 .. Len(list))
    BY <2>1, FS_Interval
  <2> QED BY <2>1, <2>2, FS_Subset
<1>2. Filtered(list, places) = [n \in 1 .. Cardinality(places) |-> list[Nth(places, n)]]
  BY DEF Filtered, Nth, Rank, Upto
<1>3. Cardinality(places) \in Nat
  BY <1>1, NthPlace
<1>4. \A n \in 1 .. Cardinality(places) : list[Nth(places, n)] \in E
  BY <1>1, NthPlace
<1>5. Filtered(list, places) \in Seq(E) /\ Len(Filtered(list, places)) = Cardinality(places)
  BY <1>2, <1>3, <1>4
<1>6. DOMAIN Filtered(list, places) = 1 .. Cardinality(places)
  BY <1>2
<1> QED BY <1>1, <1>2, <1>5, <1>6, NthPlace

-----------------------------------------------------------------------------
(* Folds over a sequence: FoldLeft of the library folds a set of places and  *)
(* takes the last one first.                                                 *)

(* The last of the first places.                                             *)
LEMMA LastPlace ==
  ASSUME NEW n \in Nat \ {0}
  PROVE  Max(1 .. n) = n /\ (1 .. n) \ {n} = 1 .. n - 1 /\ 1 .. n # {}
<1>1. n \in 1 .. n /\ \A y \in 1 .. n : n >= y
  OBVIOUS
<1>2. \A x \in 1 .. n : (\A y \in 1 .. n : x >= y) => x = n
  BY <1>1
<1> QED BY <1>1, <1>2 DEF Max

(* Induction up to a bound.                                                  *)
LEMMA InductionUpTo ==
  ASSUME NEW N \in Nat, NEW S, 0 \in S, \A n \in 1 .. N : n - 1 \in S => n \in S
  PROVE  \A n \in 0 .. N : n \in S
<1> DEFINE M == {n \in Nat : n <= N => n \in S}
<1>1. 0 \in M
  OBVIOUS
<1>2. ASSUME NEW n \in Nat, n \in M PROVE n + 1 \in M
  <2>1. CASE n + 1 <= N
    <3>1. n + 1 \in 1 .. N /\ (n + 1) - 1 = n /\ n \in S
      BY <1>2, <2>1
    <3> QED BY <3>1
  <2>2. CASE ~(n + 1 <= N)
    BY <2>2
  <2> QED BY <2>1, <2>2
<1>3. \A n \in Nat : n \in M
  <2> HIDE DEF M
  <2> QED BY <1>1, <1>2, Induction
<1> QED BY <1>3

(* Places have a last one.                                                   *)
LEMMA PlacesHaveLast ==
  ASSUME NEW N \in Nat, NEW S \in SUBSET (1 .. N), S # {}
  PROVE  Max(S) \in S /\ \A y \in S : y <= Max(S)
<1> DEFINE T == {N - k : k \in S}
<1>1. PICK n \in T : \A m \in T : n <= m
  <2>1. \A k \in S : k \in Nat /\ N - k \in Nat
    OBVIOUS
  <2>2. PICK k \in S : TRUE
    OBVIOUS
  <2>3. T \in SUBSET Nat /\ N - k \in T
    BY <2>1
  <2> HIDE DEF T
  <2> QED BY <2>3, LeastNatural
<1>2. \E x \in S : \A y \in S : x >= y
  <2>1. PICK k \in S : n = N - k
    BY <1>1
  <2>2. \A y \in S : N - k <= N - y
    BY <1>1, <2>1
  <2>3. \A y \in S : k >= y
    BY <2>2
  <2> QED BY <2>3
<1>3. \A y \in S : Max(S) >= y
  BY <1>2 DEF Max
<1> QED BY <1>2, <1>3 DEF Max

(* Steps taken one place after the other lead to a result for every set of   *)
(* places.                                                                   *)
Taken(f, base, step, S) == IF S = {} THEN base ELSE step[<<f[S \ {Max(S)}], Max(S)>>]

Leads(A, base, step, n) ==
  \E f \in [SUBSET (1 .. n) -> A] : \A S \in SUBSET (1 .. n) : f[S] = Taken(f, base, step, S)

LEMMA StepsLead ==
  ASSUME NEW A, NEW base \in A, NEW step \in [A \X Nat -> A]
  PROVE  \A n \in Nat : Leads(A, base, step, n)
<1> DEFINE M == {n \in Nat : Leads(A, base, step, n)}
<1>1. Leads(A, base, step, 0)
  <2> DEFINE f == [S \in SUBSET (1 .. 0) |-> base]
  <2>1. \A S \in SUBSET (1 .. 0) : S = {}
    OBVIOUS
  <2>2. f \in [SUBSET (1 .. 0) -> A] /\ \A S \in SUBSET (1 .. 0) : f[S] = Taken(f, base, step, S)
    BY <2>1 DEF Taken
  <2> QED BY <2>2 DEF Leads
<1>2. ASSUME NEW n \in Nat, Leads(A, base, step, n) PROVE Leads(A, base, step, n + 1)
  <2>1. PICK f \in [SUBSET (1 .. n) -> A] : \A S \in SUBSET (1 .. n) : f[S] = Taken(f, base, step, S)
    BY <1>2 DEF Leads
  <2> DEFINE g == [S \in SUBSET (1 .. n + 1) |->
                     IF n + 1 \in S THEN step[<<f[S \ {n + 1}], n + 1>>] ELSE f[S]]
  <2>2. ASSUME NEW S \in SUBSET (1 .. n + 1)
        PROVE  g[S] \in A /\ g[S] = Taken(g, base, step, S)
    <3>1. CASE n + 1 \in S
      <4>1. Max(S) = n + 1
        <5>1. \A y \in S : n + 1 >= y
          OBVIOUS
        <5>2. \A x \in S : x >= n + 1 => x = n + 1
          OBVIOUS
        <5> QED BY <3>1, <5>1, <5>2 DEF Max
      <4>2. S \ {n + 1} \in SUBSET (1 .. n) /\ n + 1 \notin S \ {n + 1}
        OBVIOUS
      <4>3. S \ {n + 1} \in SUBSET (1 .. n + 1)
        OBVIOUS
      <4>4. g[S \ {n + 1}] = f[S \ {n + 1}] /\ f[S \ {n + 1}] \in A
        BY <2>1, <4>2, <4>3
      <4>5. g[S] = step[<<f[S \ {n + 1}], n + 1>>]
        BY <3>1
      <4>6. g[S] \in A
        BY <4>4, <4>5
      <4>7. S # {}
        BY <3>1
      <4> QED BY <4>1, <4>4, <4>5, <4>6, <4>7 DEF Taken
    <3>2. CASE n + 1 \notin S
      <4>1. S \in SUBSET (1 .. n)
        BY <3>2
      <4>2. g[S] = f[S] /\ f[S] \in A /\ f[S] = Taken(f, base, step, S)
        BY <2>1, <3>2, <4>1
      <4>3. ASSUME NEW x PROVE g[S \ {x}] = f[S \ {x}]
        <5>1. S \ {x} \in SUBSET (1 .. n + 1) /\ n + 1 \notin S \ {x}
          BY <3>2
        <5> QED BY <5>1
      <4>4. g[S \ {Max(S)}] = f[S \ {Max(S)}]
        BY <4>3
      <4> QED BY <4>2, <4>4 DEF Taken
    <3> QED BY <3>1, <3>2
  <2>3. g \in [SUBSET (1 .. n + 1) -> A]
    BY <2>2
  <2> HIDE DEF g
  <2> QED BY <2>2, <2>3 DEF Leads
<1>3. \A n \in Nat : n \in M
  <2>1. 0 \in M
    BY <1>1
  <2>2. \A n \in Nat : n \in M => n + 1 \in M
    BY <1>2
  <2> HIDE DEF M
  <2> QED BY <2>1, <2>2, Induction
<1> QED BY <1>3

(* What such a result is for the first places, one place after the other.    *)
LEMMA PrefixSteps ==
  ASSUME NEW n \in Nat \ {0}, NEW N \in Nat, n <= N
  PROVE  /\ 1 .. n \in SUBSET (1 .. N) /\ 1 .. n # {}
         /\ Max(1 .. n) = n /\ (1 .. n) \ {n} = 1 .. n - 1
BY LastPlace

-----------------------------------------------------------------------------
(* Parts of a list, and what a splice leaves of them.                        *)
LEMMA PartsJoin ==
  ASSUME NEW B, NEW h \in Seq(B), NEW a \in Nat, NEW b \in Nat, NEW c \in Nat,
         a <= b, b <= c, c <= Len(h)
  PROVE  /\ SubSeq(h, a + 1, c) \in Seq(B) /\ Len(SubSeq(h, a + 1, c)) = c - a
         /\ SubSeq(h, a + 1, c) = SubSeq(h, a + 1, b) \o SubSeq(h, b + 1, c)
OBVIOUS

LEMMA FrontOfJoined ==
  ASSUME NEW B, NEW h \in Seq(B), NEW t \in Seq(B), NEW a \in Nat, NEW e \in Nat, NEW s \in Nat,
         a <= e, e <= s, s <= Len(h)
  PROVE  LET g == SubSeq(h, 1, s) \o t
         IN  /\ g \in Seq(B) /\ Len(g) >= s
             /\ SubSeq(g, 1, a) = SubSeq(h, 1, a)
             /\ SubSeq(g, e + 1, Len(g)) = SubSeq(h, e + 1, s) \o t
<1> DEFINE g == SubSeq(h, 1, s) \o t
<1>1. SubSeq(h, 1, s) \in Seq(B) /\ Len(SubSeq(h, 1, s)) = s
  OBVIOUS
<1>2. g \in Seq(B) /\ Len(g) = s + Len(t) /\ Len(t) \in Nat
  BY <1>1
<1>3. \A k \in 1 .. s : g[k] = h[k]
  BY <1>1
<1>4. \A k \in 1 .. Len(t) : g[s + k] = t[k]
  BY <1>1
<1>5. SubSeq(g, 1, a) = SubSeq(h, 1, a)
  <2> HIDE DEF g
  <2> QED BY <1>2, <1>3
<1>6. SubSeq(g, e + 1, Len(g)) = SubSeq(h, e + 1, s) \o t
  <2> HIDE DEF g
  <2> DEFINE u == SubSeq(g, e + 1, Len(g))
             v == SubSeq(h, e + 1, s)
  <2>1. u \in Seq(B) /\ Len(u) = Len(g) - e /\ \A k \in 1 .. Len(u) : u[k] = g[e + k]
    BY <1>2
  <2>2. v \in Seq(B) /\ Len(v) = s - e /\ \A k \in 1 .. Len(v) : v[k] = h[e + k]
    OBVIOUS
  <2>3. v \o t \in Seq(B) /\ Len(v \o t) = Len(u)
    BY <1>2, <2>1, <2>2
  <2> HIDE DEF u, v
  <2>4. ASSUME NEW k \in 1 .. Len(u) PROVE u[k] = (v \o t)[k]
    <3>1. CASE k <= s - e
      BY <1>3, <2>1, <2>2, <3>1
    <3>2. CASE k > s - e
      <4>1. k - (s - e) \in 1 .. Len(t) /\ e + k = s + (k - (s - e))
        BY <1>2, <2>1, <3>2
      <4>2. u[k] = t[k - (s - e)]
        BY <1>4, <2>1, <4>1
      <4>3. (v \o t)[k] = t[k - (s - e)]
        BY <1>2, <2>1, <2>2, <3>2, <4>1, SMTT(30)
      <4> QED BY <4>2, <4>3
    <3>3. k <= s - e \/ k > s - e
      BY <1>2, <2>1
    <3> QED BY <3>1, <3>2, <3>3
  <2>5. u = v \o t
    BY <2>1, <2>3, <2>4, SeqEqual
  <2> QED BY <2>5 DEF u, v
<1> QED BY <1>2, <1>5, <1>6
=============================================================================
