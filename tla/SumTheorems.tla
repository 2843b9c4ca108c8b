----------------------------- MODULE SumTheorems -----------------------------
(***************************************************************************)
(* What the proofs of the pallets use of sums over finite sets: a sum of   *)
(* naturals is a natural, changes by what one of its terms changes by, and *)
(* is no smaller than any of its terms.                                    *)
(*                                                                         *)
(* Each fact that needs induction is proved by looking at a smallest       *)
(* counterexample: a smallest number, or a smallest subset, which exist    *)
(* because < and strict inclusion of finite sets are well-founded.         *)
(***************************************************************************)
EXTENDS Sums, FiniteSetTheorems, WellFoundedInduction, TLAPS

(* A nonempty set of natural numbers has a smallest member.                 *)
LEMMA SmallestNumber ==
    ASSUME NEW C \in SUBSET Nat, C # {}
    PROVE  \E m \in C : \A n \in C : m <= n
<1> DEFINE R == {p \in Nat \X Nat : p[1] < p[2]}
<1>1. IsWellFoundedOn(R, Nat)
    BY NatLessThanWellFounded DEF OpToRel
<1> HIDE DEF R
<1>2. PICK m \in C : \A n \in C : ~ (<<n, m>> \in R)
    BY <1>1, WFMin, ZenonT(30)
<1>3. \A n \in C : m <= n
  <2> SUFFICES ASSUME NEW n \in C, n < m PROVE FALSE
      OBVIOUS
  <2>1. <<n, m>> \in R
      BY DEF R
  <2> QED BY <1>2, <2>1
<1> QED BY <1>3

(* A function g that satisfies the recursive definition of the sum of w on    *)
(* the subsets of S with at most n elements.                                  *)
Layer(S, n) == {T \in SUBSET S : Cardinality(T) <= n}
Step(g, w, T) ==
    IF T = {} THEN 0 ELSE w[CHOOSE x \in T : TRUE] + g[T \ {CHOOSE x \in T : TRUE}]
Follows(g, w, D) == \A T \in D : g[T] = Step(g, w, T)
IsSum(g, w, D) == g \in [D -> Nat] /\ Follows(g, w, D)

(* The recursion goes down one layer when it takes a member out.            *)
LEMMA SmallerLayer ==
    ASSUME NEW S, IsFiniteSet(S), NEW T \in SUBSET S, T # {}, NEW n \in Nat,
           Cardinality(T) <= n + 1, NEW x \in T
    PROVE  T \ {x} \in Layer(S, n)
BY FS_RemoveElement, FS_Subset, FS_CardinalityType, SMTT(30) DEF Layer

(* A function that satisfies the recursive definition exists on all subsets *)
(* of S: it is built layer by layer.                                        *)
LEMMA SumExists ==
    ASSUME NEW S, IsFiniteSet(S), NEW w \in [S -> Nat]
    PROVE  \E g : IsSum(g, w, SUBSET S)
<1> DEFINE C == {n \in Nat : ~ \E g : IsSum(g, w, Layer(S, n))}
<1>1. ASSUME C # {} PROVE FALSE
  <2>1. C \in SUBSET Nat
      OBVIOUS
  <2> HIDE DEF C
  <2>2. PICK n \in C : \A m \in C : n <= m
      BY <1>1, <2>1, SmallestNumber
  <2>3. n \in Nat /\ ~ \E g : IsSum(g, w, Layer(S, n))
      BY DEF C
  <2>4. CASE n = 0
    <3>1. Layer(S, 0) = {{}}
      <4>1. \A T \in SUBSET S : Cardinality(T) <= 0 <=> T = {}
          BY FS_EmptySet, FS_Subset, FS_CardinalityType, SMTT(30)
      <4> QED BY <4>1 DEF Layer
    <3>2. IsSum([T \in {{}} |-> 0], w, {{}})
        BY DEF IsSum, Follows, Step
    <3> QED BY <2>3, <2>4, <3>1, <3>2, ZenonT(30)
  <2>5. CASE n # 0
    <3>1. n - 1 \in Nat /\ n - 1 \notin C
        BY <2>2, <2>3, <2>5
    <3>2. PICK g : IsSum(g, w, Layer(S, n - 1))
        BY <3>1 DEF C
    <3> DEFINE h == [T \in Layer(S, n) |-> Step(g, w, T)]
    <3>3. \A T \in Layer(S, n) : Step(g, w, T) \in Nat
      <4> SUFFICES ASSUME NEW T \in Layer(S, n), T # {} PROVE Step(g, w, T) \in Nat
          BY DEF Step
      <4>1. PICK c \in T : c = CHOOSE x \in T : TRUE
          OBVIOUS
      <4>2. T \ {c} \in Layer(S, n - 1)
          BY SmallerLayer, <2>3, <2>5, <3>1 DEF Layer
      <4>3. w[c] \in Nat
          BY DEF Layer
      <4> QED BY <3>2, <4>1, <4>2, <4>3 DEF IsSum, Follows, Step
    <3>4. \A T \in Layer(S, n) : Step(h, w, T) = Step(g, w, T)
      <4> SUFFICES ASSUME NEW T \in Layer(S, n), T # {} PROVE Step(h, w, T) = Step(g, w, T)
          BY DEF Step
      <4>1. PICK c \in T : c = CHOOSE x \in T : TRUE
          OBVIOUS
      <4>2. T \ {c} \in Layer(S, n - 1) 
          BY SmallerLayer, <2>3, <2>5, <3>1 DEF Layer
      <4>3. T \ {c} \in Layer(S, n)
          BY <4>2, <2>3, <3>1, FS_Subset, FS_CardinalityType, SMTT(30) DEF Layer
      <4>4. h[T \ {c}] = g[T \ {c}]
          BY <3>2, <4>2, <4>3 DEF IsSum, Follows
      <4> HIDE DEF h
      <4> QED BY <4>1, <4>4 DEF Step
    <3>5. IsSum(h, w, Layer(S, n))
        BY <3>3, <3>4 DEF IsSum, Follows
    <3> QED BY <2>3, <3>5
  <2> QED BY <2>4, <2>5
<1>2. Cardinality(S) \in Nat /\ Layer(S, Cardinality(S)) = SUBSET S
    BY FS_CardinalityType, FS_Subset DEF Layer
<1>3. Cardinality(S) \notin C
    BY <1>1
<1> QED BY <1>2, <1>3, ZenonT(30)

(* A nonempty set of subsets of a finite set has a smallest member.         *)
LEMMA SmallestSubset ==
    ASSUME NEW S, IsFiniteSet(S), NEW C \in SUBSET (SUBSET S), C # {}
    PROVE  \E T \in C : \A U \in C : U \subseteq T => U = T
<1>1. IsWellFoundedOn(StrictSubsetOrdering(S), SUBSET S)
    BY FS_StrictSubsetOrderingWellFounded, FS_FiniteSubsetsOfFinite, ZenonT(30)
<1>2. PICK T \in C : \A U \in C : ~ (<<U, T>> \in StrictSubsetOrdering(S))
    BY <1>1, WFMin, SMTT(30)
<1>3. \A U \in C : U \subseteq T => U = T
  <2> SUFFICES ASSUME NEW U \in C, U \subseteq T, U # T PROVE FALSE
      OBVIOUS
  <2>1. <<U, T>> \in StrictSubsetOrdering(S)
      BY DEF StrictSubsetOrdering
  <2> QED BY <1>2, <2>1
<1> QED BY <1>3

(* Two such functions agree wherever the terms do, whatever they are        *)
(* defined on.                                                              *)
LEMMA SumsAgree ==
    ASSUME NEW S, NEW R, NEW v, NEW w, NEW g, NEW h, NEW T, IsFiniteSet(T),
           T \subseteq S, T \subseteq R,
           Follows(g, v, SUBSET S),
           Follows(h, w, SUBSET R), \A x \in T : v[x] = w[x]
    PROVE  g[T] = h[T]
<1> DEFINE C == {U \in SUBSET T : g[U] # h[U]}
<1>1. ASSUME C # {} PROVE FALSE
  <2>1. C \in SUBSET (SUBSET T)
      OBVIOUS
  <2> HIDE DEF C
  <2>2. PICK U \in C : \A V \in C : V \subseteq U => V = U
      BY <1>1, <2>1, SmallestSubset
  <2>3. U \in SUBSET T /\ g[U] # h[U] /\ U \in SUBSET S /\ U \in SUBSET R
      BY DEF C
  <2>4. g[U] = Step(g, v, U) /\ h[U] = Step(h, w, U)
      BY <2>3 DEF Follows
  <2>5. U # {}
      BY <2>3, <2>4 DEF Step
  <2>6. PICK c \in U : c = CHOOSE x \in U : TRUE
      BY <2>5
  <2>7. U \ {c} \notin C
      BY <2>2, <2>6
  <2>8. g[U \ {c}] = h[U \ {c}]
      BY <2>3, <2>7 DEF C
  <2>9. v[c] = w[c]
      BY <2>3
  <2> QED BY <2>3, <2>4, <2>5, <2>6, <2>8, <2>9 DEF Step
<1> QED BY <1>1

(* SumOver, as it is defined, is the value of such a function.              *)
LEMMA SumDefined ==
    ASSUME NEW S, IsFiniteSet(S), NEW w \in [S -> Nat]
    PROVE  \E g : IsSum(g, w, SUBSET S) /\ SumOver(w, S) = g[S]
<1> DEFINE sum[T \in SUBSET S] ==
              IF T = {} THEN 0
              ELSE LET x == CHOOSE x \in T : TRUE IN w[x] + sum[T \ {x}]
<1>1. PICK g : IsSum(g, w, SUBSET S)
    BY SumExists, ZenonT(30)
<1>2. g = [T \in SUBSET S |-> IF T = {} THEN 0
              ELSE LET x == CHOOSE x \in T : TRUE IN w[x] + g[T \ {x}]]
    BY <1>1 DEF IsSum, Follows, Step
<1>3. sum = [T \in SUBSET S |-> IF T = {} THEN 0
              ELSE LET x == CHOOSE x \in T : TRUE IN w[x] + sum[T \ {x}]]
    BY <1>2, ZenonT(30)
<1>4. SumOver(w, S) = sum[S]
    BY DEF SumOver
<1> HIDE DEF sum
<1>5. Follows(sum, w, SUBSET S)
    BY <1>3 DEF Follows, Step
<1>6. \A T \in SUBSET S : IsFiniteSet(T)
    BY FS_Subset
<1>7. \A T \in SUBSET S : sum[T] = g[T]
  <2>1. Follows(g, w, SUBSET S)
      BY <1>1 DEF IsSum
  <2> QED BY <2>1, <1>5, <1>6, SumsAgree
<1> QED BY <1>1, <1>4, <1>7

(* A sum of natural numbers is one.                                         *)
THEOREM SumType ==
    ASSUME NEW S, IsFiniteSet(S), NEW w \in [S -> Nat]
    PROVE  SumOver(w, S) \in Nat
<1>1. PICK g : IsSum(g, w, SUBSET S) /\ SumOver(w, S) = g[S]
    BY SumDefined
<1> QED BY <1>1 DEF IsSum

(* The empty sum is zero.                                                   *)
THEOREM SumEmpty ==
    ASSUME NEW w \in [{} -> Nat]
    PROVE  SumOver(w, {}) = 0
BY SumDefined, FS_EmptySet, ZenonT(30) DEF IsSum, Follows, Step

(* Any member may be taken out of the sum of any subset.                    *)
PullsOut(g, w, S) == \A T \in SUBSET S : \A x \in T : g[T] = w[x] + g[T \ {x}]

(* A member may be taken out of the sum of a finite set, whichever it is,   *)
(* not only the one that CHOOSE picks.                                      *)
LEMMA SumPull ==
    ASSUME NEW S, IsFiniteSet(S), NEW w \in [S -> Nat], NEW g, IsSum(g, w, SUBSET S)
    PROVE  PullsOut(g, w, S)
<1> DEFINE C == {T \in SUBSET S : \E x \in T : g[T] # w[x] + g[T \ {x}]}
<1>1. ASSUME C # {} PROVE FALSE
  <2>1. C \in SUBSET (SUBSET S)
      OBVIOUS
  <2> HIDE DEF C
  <2>2. PICK T \in C : \A U \in C : U \subseteq T => U = T
      BY <1>1, <2>1, SmallestSubset
  <2>3. T \in SUBSET S
      BY <2>1
  <2>4. PICK x \in T : g[T] # w[x] + g[T \ {x}]
      BY DEF C
  <2>5. PICK c \in T : c = CHOOSE y \in T : TRUE
      BY <2>4
  <2>6. g[T] = w[c] + g[T \ {c}]
      BY <2>3, <2>4, <2>5 DEF IsSum, Follows, Step
  <2>7. c # x
      BY <2>4, <2>6, ZenonT(30)
  <2>8. T \ {c} \notin C /\ T \ {x} \notin C
      BY <2>2, <2>4, <2>5
  <2>9. PICK V : V = (T \ {c}) \ {x} /\ V = (T \ {x}) \ {c} /\ V \in SUBSET S
      BY <2>3, ZenonT(30)
  <2>10. g[T \ {c}] = w[x] + g[V]
      BY <2>3, <2>4, <2>7, <2>8, <2>9, ZenonT(30) DEF C
  <2>11. g[T \ {x}] = w[c] + g[V]
      BY <2>3, <2>5, <2>7, <2>8, <2>9 DEF C
  <2>12. w[x] \in Nat /\ w[c] \in Nat /\ g[V] \in Nat
      BY <2>3, <2>4, <2>5, <2>9 DEF IsSum
  <2>13. \A i, j, k \in Nat : i + (j + k) = j + (i + k)
      OBVIOUS
  <2>14. g[T] = w[c] + (w[x] + g[V])
      BY <2>6, <2>10, ZenonT(30)
  <2>15. g[T] = w[x] + (w[c] + g[V])
      BY <2>12, <2>13, <2>14, ZenonT(30)
  <2> QED BY <2>4, <2>11, <2>15, ZenonT(30)
<1> QED BY <1>1, ZenonT(30) DEF PullsOut

(* Where one term changes, the sum changes by as much: how an open intent,  *)
(* order or deposit enters and leaves what an account owes.                 *)
THEOREM SumUpdate ==
    ASSUME NEW S, IsFiniteSet(S), NEW v \in [S -> Nat], NEW w \in [S -> Nat],
           NEW x \in S, \A y \in S \ {x} : v[y] = w[y]
    PROVE  SumOver(v, S) + w[x] = SumOver(w, S) + v[x]
<1>1. PICK g : IsSum(g, v, SUBSET S) /\ SumOver(v, S) = g[S]
    BY SumDefined, ZenonT(30)
<1>2. PICK h : IsSum(h, w, SUBSET S) /\ SumOver(w, S) = h[S]
    BY SumDefined, ZenonT(30)
<1>3. g[S] = v[x] + g[S \ {x}] /\ h[S] = w[x] + h[S \ {x}]
  <2>1. PullsOut(g, v, S)
      BY <1>1, SumPull
  <2>2. PullsOut(h, w, S)
      BY <1>2, SumPull
  <2>3. S \in SUBSET S
      OBVIOUS
  <2> QED BY <2>1, <2>2, <2>3, ZenonT(30) DEF PullsOut
<1>4. g[S \ {x}] = h[S \ {x}]
  <2>1. IsFiniteSet(S \ {x})
      BY FS_RemoveElement
  <2>2. Follows(g, v, SUBSET S) /\ Follows(h, w, SUBSET S)
      BY <1>1, <1>2 DEF IsSum
  <2> QED BY <2>1, <2>2, SumsAgree
<1>5. v[x] \in Nat /\ w[x] \in Nat /\ g[S \ {x}] \in Nat
    BY <1>1 DEF IsSum
<1> QED BY <1>1, <1>2, <1>3, <1>4, <1>5

(* No term is larger than the sum: what is owed for one intent or order is  *)
(* covered when the whole is.                                               *)
THEOREM SumMember ==
    ASSUME NEW S, IsFiniteSet(S), NEW w \in [S -> Nat], NEW x \in S
    PROVE  w[x] <= SumOver(w, S)
<1>1. PICK g : IsSum(g, w, SUBSET S) /\ SumOver(w, S) = g[S]
    BY SumDefined, ZenonT(30)
<1>2. g[S] = w[x] + g[S \ {x}]
  <2>1. PullsOut(g, w, S)
      BY <1>1, SumPull
  <2>2. S \in SUBSET S
      OBVIOUS
  <2> QED BY <2>1, <2>2, ZenonT(30) DEF PullsOut
<1>3. w[x] \in Nat /\ g[S \ {x}] \in Nat
    BY <1>1 DEF IsSum
<1> QED BY <1>1, <1>2, <1>3

(* A sum of zeros is zero: nothing is owed at genesis.                      *)
THEOREM SumZero ==
    ASSUME NEW S, IsFiniteSet(S)
    PROVE  SumOver([x \in S |-> 0], S) = 0
<1> DEFINE w == [x \in S |-> 0]
<1>0. w \in [S -> Nat]
    OBVIOUS
<1>1. PICK g : IsSum(g, w, SUBSET S) /\ SumOver(w, S) = g[S]
    BY SumDefined
<1> DEFINE h == [T \in SUBSET S |-> 0]
<1>2. Follows(h, w, SUBSET S)
    BY DEF Follows, Step
<1>3. Follows(g, w, SUBSET S)
    BY <1>1 DEF IsSum
<1> HIDE DEF w
<1>4. h[S] = 0
    OBVIOUS
<1> HIDE DEF h
<1>5. g[S] = h[S]
    BY <1>2, <1>3, SumsAgree
<1> QED BY <1>1, <1>4, <1>5 DEF w

(* Terms in proportion have sums in proportion: shares that are rounded     *)
(* down do not add up to more than what is shared.                          *)
THEOREM SumScaled ==
    ASSUME NEW S, IsFiniteSet(S), NEW v \in [S -> Nat], NEW w \in [S -> Nat],
           NEW k \in Nat, NEW n \in Nat, \A x \in S : n * v[x] <= k * w[x]
    PROVE  n * SumOver(v, S) <= k * SumOver(w, S)
<1>1. PICK g : IsSum(g, v, SUBSET S) /\ SumOver(v, S) = g[S]
    BY SumDefined, ZenonT(30)
<1>2. PICK h : IsSum(h, w, SUBSET S) /\ SumOver(w, S) = h[S]
    BY SumDefined, ZenonT(30)
<1> DEFINE C == {T \in SUBSET S : ~ (n * g[T] <= k * h[T])}
<1>3. ASSUME C # {} PROVE FALSE
  <2>1. C \in SUBSET (SUBSET S)
      OBVIOUS
  <2> HIDE DEF C
  <2>2. PICK T \in C : \A U \in C : U \subseteq T => U = T
      BY <1>3, <2>1, SmallestSubset
  <2>3. T \in SUBSET S /\ ~ (n * g[T] <= k * h[T])
      BY DEF C
  <2>4. g[T] = Step(g, v, T) /\ h[T] = Step(h, w, T)
      BY <1>1, <1>2, <2>3 DEF IsSum, Follows
  <2>5. T # {}
      BY <2>3, <2>4 DEF Step
  <2>6. PICK c \in T : c = CHOOSE x \in T : TRUE
      BY <2>5
  <2>7. PICK V \in SUBSET S : V = T \ {c}
      BY <2>3, ZenonT(30)
  <2>8. n * g[V] <= k * h[V]
    <3>1. V \notin C
        BY <2>2, <2>6, <2>7
    <3> QED BY <3>1 DEF C
  <2>9. g[T] = v[c] + g[V] /\ h[T] = w[c] + h[V]
      BY <2>4, <2>5, <2>6, <2>7 DEF Step
  <2>10. n * v[c] <= k * w[c] /\ v[c] \in Nat /\ w[c] \in Nat /\ g[V] \in Nat /\ h[V] \in Nat
      BY <1>1, <1>2, <2>3 DEF IsSum
  <2>11. \A i, j, m \in Nat : m * (i + j) = m * i + m * j /\ m * i \in Nat
      OBVIOUS
  <2>12. n * g[T] = n * v[c] + n * g[V] /\ k * h[T] = k * w[c] + k * h[V]
    <3>1. n * (v[c] + g[V]) = n * v[c] + n * g[V]
        BY <2>10, <2>11, ZenonT(30)
    <3>2. k * (w[c] + h[V]) = k * w[c] + k * h[V]
        BY <2>10, <2>11, ZenonT(30)
    <3> QED BY <2>9, <3>1, <3>2, ZenonT(30)
  <2>13. n * v[c] \in Nat /\ n * g[V] \in Nat /\ k * w[c] \in Nat /\ k * h[V] \in Nat
      BY <2>10, <2>11, ZenonT(30)
  <2> QED BY <2>3, <2>8, <2>10, <2>12, <2>13
<1>4. S \notin C
    BY <1>3
<1> QED BY <1>1, <1>2, <1>4
==============================================================================
