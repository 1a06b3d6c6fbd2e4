------------------------------ MODULE FoldLemmas ------------------------------
(***************************************************************************)
(* Induction, what a fold over a sequence computes, one element after the  *)
(* other, and what a recursive function does.  They are stated with sets   *)
(* and functions, so that they can be cited for any operator.              *)
(***************************************************************************)
EXTENDS Integers, SequencesExt, WellFoundedInduction, TLAPS

\* A set of numbers that is not empty has a least one.
LEMMA LeastIndex ==
  ASSUME NEW S \in SUBSET Nat, S # {}
  PROVE  \E k \in S : \A j \in S : ~(j < k)
<1> DEFINE R == OpToRel(<, Nat)
<1>1. IsWellFoundedOn(R, Nat)
  BY NatLessThanWellFounded
<1>2. PICK k \in S : \A j \in S : <<j, k>> \notin R
  <2> HIDE DEF R
  <2> QED BY <1>1, WFMin
<1>3. QED
  BY <1>2 DEF OpToRel

LEMMA SetInduction ==
  ASSUME NEW T, 0 \in T, \A n \in Nat : n \in T => n + 1 \in T
  PROVE  \A n \in Nat : n \in T
<1> DEFINE S == {n \in Nat : n \notin T}
<1>1. SUFFICES ASSUME S # {} PROVE FALSE
  OBVIOUS
<1>2. PICK k \in S : \A j \in S : ~(j < k)
  BY <1>1, LeastIndex
<1>3. k # 0 /\ k \in Nat
  OBVIOUS
<1>4. k - 1 \in Nat /\ k - 1 < k /\ (k - 1) + 1 = k
  BY <1>3
<1>5. k - 1 \in T
  BY <1>2, <1>4
<1>6. k \in T
  BY <1>4, <1>5
<1>7. QED
  BY <1>6

\* Up to a bound.
LEMMA BoundedInduction ==
  ASSUME NEW N \in Nat, NEW T, 0 \in T,
         \A n \in 0 .. N - 1 : n \in T => n + 1 \in T
  PROVE  \A n \in 0 .. N : n \in T
<1> DEFINE U == {n \in Nat : n <= N => n \in T}
<1>1. 0 \in U
  OBVIOUS
<1>2. ASSUME NEW n \in Nat, n \in U PROVE n + 1 \in U
  <2>1. CASE n + 1 <= N
    <3>1. n \in 0 .. N - 1 /\ n <= N
      BY <2>1
    <3>2. n \in T
      BY <1>2, <3>1
    <3>3. n + 1 \in T
      BY <3>1, <3>2
    <3>4. QED
      BY <3>3
  <2>2. CASE ~(n + 1 <= N)
    BY <2>2
  <2>3. QED
    BY <2>1, <2>2
<1>3. \A n \in Nat : n \in U
  <2> HIDE DEF U
  <2> QED BY <1>1, <1>2, SetInduction
<1>4. QED
  BY <1>3

-----------------------------------------------------------------------------
(* A fold takes the greatest index off a set of indices, again and again.  *)

LEMMA GreatestIndex ==
  ASSUME NEW k \in Nat, NEW s \in SUBSET (1 .. k + 1), k + 1 \in s
  PROVE  Max(s) = k + 1
<1>1. k + 1 \in s /\ \A y \in s : k + 1 >= y
  OBVIOUS
<1>2. \A x \in s : (\A y \in s : x >= y) => x = k + 1
  OBVIOUS
<1>3. QED
  BY <1>1, <1>2 DEF Max

\* The greatest index of a set is in it.
LEMMA GreatestOf ==
  ASSUME NEW N \in Nat, NEW s \in SUBSET (1 .. N), s # {}
  PROVE  Max(s) \in s /\ \A y \in s : Max(s) >= y
<1> DEFINE S == {N - y : y \in s}
<1>1. \A y \in s : y \in 1 .. N /\ N - y \in Nat /\ N - y \in S
  OBVIOUS
<1>2. S \in SUBSET Nat /\ S # {}
  BY <1>1
<1>3. PICK k \in S : \A j \in S : ~(j < k)
  <2> HIDE DEF S
  <2> QED BY <1>2, LeastIndex
<1>4. PICK x \in s : k = N - x
  OBVIOUS
<1>5. ASSUME NEW y \in s PROVE x >= y
  <2>1. ~(N - y < N - x)
    BY <1>1, <1>3, <1>4
  <2>2. QED
    BY <1>1, <2>1
<1>6. QED
  BY <1>5, Zenon DEF Max

LEMMA Prefix ==
  ASSUME NEW k \in Nat
  PROVE  /\ Max(1 .. k + 1) = k + 1 /\ (1 .. k + 1) \ {k + 1} = 1 .. k
         /\ 1 .. k + 1 # {}
<1>1. k + 1 \in 1 .. k + 1
  OBVIOUS
<1>2. QED
  BY <1>1, GreatestIndex

\* What the definition of a fold says of its values on sets of indices.
IsFold(g, V, base, N, step) ==
  /\ g \in [SUBSET (1 .. N) -> V]
  /\ \A s \in SUBSET (1 .. N) :
       g[s] = IF s = {} THEN base ELSE step[<<g[s \ {Max(s)}], Max(s)>>]

\* For a step on a set V of values there is a function that does so.
LEMMA FoldExists ==
  ASSUME NEW V, NEW base \in V, NEW N \in Nat, NEW step \in [V \X (1 .. N) -> V]
  PROVE  \E g : IsFold(g, V, base, N, step)
<1> DEFINE Folds(g, k) ==
      \A s \in SUBSET (1 .. k) :
        g[s] = IF s = {} THEN base ELSE step[<<g[s \ {Max(s)}], Max(s)>>]
           T == {k \in 0 .. N : \E g \in [SUBSET (1 .. k) -> V] : Folds(g, k)}
<1>1. 0 \in T
  <2> DEFINE g == [s \in SUBSET (1 .. 0) |-> base]
  <2>1. \A s \in SUBSET (1 .. 0) : s = {}
    OBVIOUS
  <2>2. g \in [SUBSET (1 .. 0) -> V] /\ Folds(g, 0)
    BY <2>1
  <2>3. 0 \in 0 .. N
    OBVIOUS
  <2> HIDE DEF g, Folds
  <2>4. QED
    BY <2>2, <2>3
<1>2. ASSUME NEW k \in 0 .. N - 1, k \in T PROVE k + 1 \in T
  <2>1. PICK g \in [SUBSET (1 .. k) -> V] : Folds(g, k)
    BY <1>2
  <2>2. k \in Nat /\ k + 1 \in 1 .. N /\ k + 1 \in 0 .. N
    OBVIOUS
  <2> DEFINE f == [s \in SUBSET (1 .. k + 1) |->
                     IF k + 1 \in s THEN step[<<g[s \ {k + 1}], k + 1>>] ELSE g[s]]
  <2>3. ASSUME NEW s \in SUBSET (1 .. k + 1)
        PROVE  /\ s \ {k + 1} \in SUBSET (1 .. k)
               /\ k + 1 \notin s => s \in SUBSET (1 .. k)
    OBVIOUS
  <2>4. f \in [SUBSET (1 .. k + 1) -> V]
    <3>1. ASSUME NEW s \in SUBSET (1 .. k + 1)
          PROVE  (IF k + 1 \in s THEN step[<<g[s \ {k + 1}], k + 1>>] ELSE g[s]) \in V
      <4>1. CASE k + 1 \in s
        <5>1. g[s \ {k + 1}] \in V
          BY <2>3
        <5>2. <<g[s \ {k + 1}], k + 1>> \in V \X (1 .. N)
          BY <2>2, <5>1
        <5>3. QED
          BY <4>1, <5>2
      <4>2. CASE k + 1 \notin s
        BY <2>3, <4>2
      <4>3. QED
        BY <4>1, <4>2
    <3>2. QED
      BY <3>1
  <2>5. ASSUME NEW s \in SUBSET (1 .. k) PROVE f[s] = g[s]
    <3>1. s \in SUBSET (1 .. k + 1) /\ k + 1 \notin s
      BY <2>2
    <3>2. QED
      BY <3>1
  <2>6. ASSUME NEW s \in SUBSET (1 .. k + 1)
        PROVE  f[s] = IF s = {} THEN base ELSE step[<<f[s \ {Max(s)}], Max(s)>>]
    <3>1. CASE k + 1 \in s
      <4>1. Max(s) = k + 1 /\ s # {}
        BY <2>2, <3>1, GreatestIndex
      <4>2. f[s \ {k + 1}] = g[s \ {k + 1}]
        BY <2>3, <2>5
      <4>3. f[s] = step[<<g[s \ {k + 1}], k + 1>>]
        BY <3>1
      <4> HIDE DEF f
      <4>4. QED
        BY <4>1, <4>2, <4>3
    <3>2. CASE k + 1 \notin s
      <4>1. s \in SUBSET (1 .. k) /\ s \ {Max(s)} \in SUBSET (1 .. k)
        BY <2>3, <3>2
      <4>2. f[s] = g[s] /\ f[s \ {Max(s)}] = g[s \ {Max(s)}]
        BY <2>5, <4>1
      <4>3. g[s] = IF s = {} THEN base ELSE step[<<g[s \ {Max(s)}], Max(s)>>]
        BY <2>1, <4>1
      <4> HIDE DEF f
      <4>4. QED
        BY <4>2, <4>3
    <3>3. QED
      BY <3>1, <3>2
  <2>7. Folds(f, k + 1)
    BY <2>6
  <2> HIDE DEF f, Folds
  <2>8. QED
    BY <2>2, <2>4, <2>7
<1>3. \A k \in 0 .. N : k \in T
  <2> HIDE DEF T
  <2> QED BY <1>1, <1>2, BoundedInduction
<1>4. N \in 0 .. N
  OBVIOUS
<1>5. QED
  BY <1>3, <1>4 DEF IsFold

-----------------------------------------------------------------------------
(* Functions defined by recursion along 0 .. N.                             *)

IsRecursion(g, V, base, N, step) ==
  /\ g \in [0 .. N -> V] /\ g[0] = base
  /\ \A k \in 1 .. N : g[k] = step[<<g[k - 1], k>>]

\* They exist: they are the folds over the first indices.
LEMMA RecursionExists ==
  ASSUME NEW V, NEW base \in V, NEW N \in Nat, NEW step \in [V \X (1 .. N) -> V]
  PROVE  \E g : IsRecursion(g, V, base, N, step)
<1>1. PICK h : IsFold(h, V, base, N, step)
  BY FoldExists
<1> DEFINE g == [k \in 0 .. N |-> h[1 .. k]]
<1>2. \A k \in 0 .. N : 1 .. k \in SUBSET (1 .. N) /\ h[1 .. k] \in V
  <2>1. \A k \in 0 .. N : 1 .. k \in SUBSET (1 .. N)
    OBVIOUS
  <2>2. QED
    BY <1>1, <2>1 DEF IsFold
<1>3. 0 \in 0 .. N /\ 1 .. 0 = {}
  OBVIOUS
<1>4. g[0] = base
  BY <1>1, <1>2, <1>3 DEF IsFold
<1>5. ASSUME NEW k \in 1 .. N PROVE g[k] = step[<<g[k - 1], k>>]
  <2>1. k - 1 \in Nat /\ (k - 1) + 1 = k /\ k \in 0 .. N /\ k - 1 \in 0 .. N
    OBVIOUS
  <2>2. Max(1 .. k) = k /\ (1 .. k) \ {k} = 1 .. k - 1 /\ 1 .. k # {}
    <3>1. /\ Max(1 .. (k - 1) + 1) = (k - 1) + 1
          /\ (1 .. (k - 1) + 1) \ {(k - 1) + 1} = 1 .. k - 1
          /\ 1 .. (k - 1) + 1 # {}
      BY <2>1, Prefix
    <3>2. QED
      BY <2>1, <3>1
  <2>3. h[1 .. k] = step[<<h[1 .. k - 1], k>>]
    BY <1>1, <1>2, <2>1, <2>2 DEF IsFold
  <2>4. QED
    BY <2>1, <2>3
<1>6. g \in [0 .. N -> V]
  BY <1>2
<1> HIDE DEF g
<1>7. QED
  BY <1>4, <1>5, <1>6 DEF IsRecursion

SameSteps(s, t, V, N) ==
  \A k \in 1 .. N : \A v \in V : s[<<v, k>>] = t[<<v, k>>]

SameValues(f, g, N) == \A k \in 0 .. N : f[k] = g[k]

\* A recursion that goes further, with the same steps so far, has the same
\* values so far.
LEMMA RecursionGrows ==
  ASSUME NEW V, NEW base, NEW N \in Nat, NEW M \in Nat, N <= M,
         NEW s, NEW t, NEW f, NEW g,
         IsRecursion(f, V, base, N, s), IsRecursion(g, V, base, M, t),
         SameSteps(s, t, V, N)
  PROVE  SameValues(f, g, N)
<1> DEFINE T == {k \in 0 .. N : f[k] = g[k]}
<1>1. 0 \in T
  <2>1. 0 \in 0 .. N
    OBVIOUS
  <2>2. QED
    BY <2>1 DEF IsRecursion
<1>2. ASSUME NEW k \in 0 .. N - 1, k \in T PROVE k + 1 \in T
  <2>1. /\ k + 1 \in 1 .. N /\ k + 1 \in 1 .. M /\ k + 1 \in 0 .. N /\ k \in 0 .. N
        /\ (k + 1) - 1 = k
    OBVIOUS
  <2>2. f[k + 1] = s[<<f[k], k + 1>>] /\ f[k] \in V
    BY <2>1 DEF IsRecursion
  <2>3. g[k + 1] = t[<<g[k], k + 1>>]
    BY <2>1 DEF IsRecursion
  <2>4. f[k] = g[k]
    BY <1>2
  <2>5. s[<<f[k], k + 1>>] = t[<<f[k], k + 1>>]
    BY <2>1, <2>2 DEF SameSteps
  <2>6. QED
    BY <2>1, <2>2, <2>3, <2>4, <2>5
<1> HIDE DEF T
<1>3. \A k \in 0 .. N : k \in T
  BY <1>1, <1>2, BoundedInduction
<1>4. QED
  BY <1>3 DEF T, SameValues

LEMMA RecursionType ==
  ASSUME NEW V, NEW base \in V, NEW N \in Nat, NEW step \in [V \X (1 .. N) -> V],
         NEW f, f = [k \in 0 .. N |-> f[k]], f[0] = base,
         \A k \in 1 .. N : f[k - 1] \in V => f[k] = step[<<f[k - 1], k>>]
  PROVE  IsRecursion(f, V, base, N, step)
<1> DEFINE T == {k \in 0 .. N : f[k] \in V}
<1>1. 0 \in T
  OBVIOUS
<1>2. ASSUME NEW k \in 0 .. N - 1, k \in T PROVE k + 1 \in T
  <2>1. k + 1 \in 1 .. N /\ k + 1 \in 0 .. N /\ (k + 1) - 1 = k
    OBVIOUS
  <2>2. f[k] \in V /\ <<f[k], k + 1>> \in V \X (1 .. N)
    BY <1>2, <2>1
  <2>3. f[k + 1] = step[<<f[k], k + 1>>]
    BY <2>1, <2>2
  <2>4. QED
    BY <2>1, <2>2, <2>3
<1>3. \A k \in 0 .. N : k \in T
  <2> HIDE DEF T
  <2>1. QED
    BY <1>1, <1>2, BoundedInduction
<1>4. f \in [0 .. N -> V]
  BY <1>3
<1>5. ASSUME NEW k \in 1 .. N PROVE f[k] = step[<<f[k - 1], k>>]
  <2>1. k - 1 \in 0 .. N
    OBVIOUS
  <2>2. QED
    BY <1>3, <2>1
<1>6. QED
  BY <1>4, <1>5 DEF IsRecursion

-----------------------------------------------------------------------------
(* Functions defined by recursion along a tree.                             *)

IsTreeRecursion(f, X, V, step) ==
  f \in [X -> V] /\ \A b \in X : f[b] = step[<<f, b>>]

\* The elements of a set that is closed under inside have their values.
Holds(f, D, X, V, inside, step) ==
  /\ f \in [X -> V] /\ D \in SUBSET X
  /\ \A b \in D : inside[b] \in SUBSET D /\ f[b] = step[<<f, b>>]

\* Every set has an element with none of the set inside it.
Grounded(X, inside) ==
  \A S \in SUBSET X : S # {} => \E b \in S : inside[b] \cap S = {}

\* A step looks at what is inside.
LooksInside(X, V, inside, step) ==
  \A f, g \in [X -> V] : \A b \in X :
    (\A c \in inside[b] : f[c] = g[c]) => step[<<f, b>>] = step[<<g, b>>]

LEMMA TreeRecursionUnique ==
  ASSUME NEW X, NEW V, NEW inside, NEW step,
         Grounded(X, inside), LooksInside(X, V, inside, step),
         NEW f, NEW D, Holds(f, D, X, V, inside, step),
         NEW g, NEW E, Holds(g, E, X, V, inside, step)
  PROVE  \A b \in D \cap E : f[b] = g[b]
<1> DEFINE S == {b \in D \cap E : f[b] # g[b]}
<1>1. SUFFICES ASSUME S # {} PROVE FALSE
  OBVIOUS
<1>2. S \in SUBSET X
  BY DEF Holds
<1>3. PICK b \in S : inside[b] \cap S = {}
  BY <1>1, <1>2 DEF Grounded
<1>4. b \in D /\ b \in E /\ b \in X
  BY DEF Holds
<1>5. \A c \in inside[b] : f[c] = g[c]
  BY <1>3, <1>4 DEF Holds
<1>6. step[<<f, b>>] = step[<<g, b>>]
  BY <1>4, <1>5 DEF LooksInside, Holds
<1>7. f[b] = g[b]
  BY <1>4, <1>6 DEF Holds
<1>8. QED
  BY <1>7

LEMMA TreeRecursionExists ==
  ASSUME NEW X, NEW V, NEW base \in V, NEW inside \in [X -> SUBSET X],
         NEW step \in [[X -> V] \X X -> V],
         Grounded(X, inside), LooksInside(X, V, inside, step)
  PROVE  \E f : IsTreeRecursion(f, X, V, step)
<1> DEFINE H(f, D) == Holds(f, D, X, V, inside, step)
           U == {b \in X : \E f, D : H(f, D) /\ b \in D}
           val(b) == (CHOOSE f : \E D : H(f, D) /\ b \in D)[b]
           F == [b \in X |-> IF b \in U THEN val(b) ELSE base]
<1>1. ASSUME NEW f, NEW D, H(f, D), NEW b \in D
      PROVE  b \in U /\ val(b) = f[b] /\ val(b) \in V
  <2>1. b \in X /\ f[b] \in V
    BY <1>1 DEF Holds
  <2>2. b \in U
    BY <1>1, <2>1
  <2> DEFINE g == CHOOSE h : \E E : H(h, E) /\ b \in E
  <2>3. \E h : \E E : H(h, E) /\ b \in E
    BY <1>1
  <2>4. \E E : H(g, E) /\ b \in E
    BY <2>3, Zenon
  <2>5. PICK E : H(g, E) /\ b \in E
    BY <2>4
  <2>6. g[b] = f[b]
    <3> HIDE DEF g
    <3> QED BY <1>1, <2>5, TreeRecursionUnique
  <2>7. QED
    BY <2>1, <2>2, <2>6
<1> HIDE DEF val
<1>2. \A b \in U : \E f, D : H(f, D) /\ b \in D
  OBVIOUS
<1> HIDE DEF H
<1>3. F \in [X -> V] /\ U \in SUBSET X
  <2>1. \A b \in U : val(b) \in V
    BY <1>1, <1>2
  <2>2. U \in SUBSET X
    OBVIOUS
  <2> HIDE DEF U
  <2>3. F \in [X -> V]
    BY <2>1
  <2>4. QED
    BY <2>2, <2>3
<1>4. \A b \in U : inside[b] \in SUBSET U /\ F[b] = step[<<F, b>>]
  <2> SUFFICES ASSUME NEW b \in U PROVE inside[b] \in SUBSET U /\ F[b] = step[<<F, b>>]
    OBVIOUS
  <2>1. PICK f, D : H(f, D) /\ b \in D
    BY <1>2
  <2>2. f \in [X -> V] /\ b \in X /\ inside[b] \in SUBSET D /\ D \in SUBSET X
        /\ f[b] = step[<<f, b>>]
    BY <2>1 DEF H, Holds
  <2>3. \A c \in D : c \in U /\ F[c] = f[c]
    <3>1. \A c \in D : c \in U /\ val(c) = f[c]
      BY <1>1, <2>1
    <3>2. QED
      BY <2>2, <3>1
  <2> HIDE DEF F
  <2>4. step[<<F, b>>] = step[<<f, b>>]
    BY <1>3, <2>2, <2>3 DEF LooksInside
  <2>5. QED
    BY <2>1, <2>2, <2>3, <2>4
<1> HIDE DEF F
<1>5. CASE X \ U = {}
  <2>1. \A b \in X : b \in U
    BY <1>5
  <2>2. QED
    BY <1>3, <1>4, <2>1 DEF IsTreeRecursion
<1>6. CASE X \ U # {}
  <2> HIDE DEF U
  <2>1. PICK b \in X \ U : inside[b] \cap (X \ U) = {}
    BY <1>6 DEF Grounded
  <2>2. inside[b] \in SUBSET U /\ b \in X /\ b \notin U
    BY <2>1
  <2> DEFINE v == step[<<F, b>>]
             G == [F EXCEPT ![b] = v]
  <2>3. v \in V
    BY <1>3, <2>2
  <2>4. G \in [X -> V] /\ G[b] = v /\ \A c \in U : G[c] = F[c]
    BY <1>3, <2>2, <2>3
  <2> HIDE DEF G
  <2>5. ASSUME NEW c \in X, inside[c] \in SUBSET U PROVE step[<<G, c>>] = step[<<F, c>>]
    <3>1. \A d \in inside[c] : G[d] = F[d]
      BY <2>4, <2>5
    <3>2. QED
      BY <1>3, <2>4, <3>1, Zenon DEF LooksInside
  <2>6. ASSUME NEW c \in U PROVE inside[c] \in SUBSET U /\ G[c] = step[<<G, c>>]
    BY <1>3, <1>4, <2>4, <2>5
  <2>7. G[b] = step[<<G, b>>]
    BY <2>2, <2>4, <2>5
  <2>8. H(G, U \cup {b})
    BY <1>3, <2>2, <2>4, <2>6, <2>7 DEF H, Holds
  <2>9. b \in U
    BY <1>1, <2>8
  <2>10. QED
    BY <2>2, <2>9
<1>7. QED
  BY <1>5, <1>6

=============================================================================
