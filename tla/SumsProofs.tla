------------------------------ MODULE SumsProofs ------------------------------
(***************************************************************************)
(* The laws of SumFunctionOnSet, the sum of f[x] over a finite set of x,   *)
(* that the proofs about balances, fees and held amounts rest on.          *)
(*                                                                         *)
(* The sum is a recursive function on the subsets of its set, so its laws  *)
(* need induction on finite sets.  The induction is FiniteInduction: the   *)
(* property is a set of subsets, a first-order object, and a smallest      *)
(* counterexample is taken by well-foundedness of the natural numbers.     *)
(***************************************************************************)
EXTENDS Integers, FiniteSetsExt, FiniteSetTheorems, WellFoundedInduction, TLAPS

(***************************************************************************)
(* Induction                                                               *)
(***************************************************************************)

LessThan == {p \in Nat \X Nat : p[1] < p[2]}

\* The order of the natural numbers is well-founded.
LEMMA LessThanWellFounded == IsWellFoundedOn(LessThan, Nat)
  BY NatLessThanWellFounded DEF OpToRel, LessThan

\* The relation LessThan is <.
LEMMA LessThanMeans ==
    \A a, b \in Nat : <<a, b>> \in LessThan <=> a < b
<1>. TAKE a, b \in Nat
<1>1. <<a, b>> \in Nat \X Nat /\ <<a, b>>[1] = a /\ <<a, b>>[2] = b
  OBVIOUS
<1>. QED
  BY <1>1, Zenon DEF LessThan

\* A non-empty set of natural numbers has a smallest element.
LEMMA SmallestExists ==
    ASSUME NEW S \in SUBSET Nat, S # {}
    PROVE  \E x \in S : \A y \in S : x <= y
<1>1. PICK x \in S : \A y \in S : ~(<<y, x>> \in LessThan)
  BY LessThanWellFounded, WFMin
<1>2. \A y \in S : x <= y
  <2>. TAKE y \in S
  <2>1. ~(y < x)
    BY <1>1, LessThanMeans, Zenon
  <2>. QED
    BY <2>1
<1>. QED
  BY <1>2

\* What holds of a subset of S whenever it holds of all smaller ones holds of all
LEMMA FiniteInduction ==
    ASSUME NEW S, IsFiniteSet(S), NEW P,
           \A s \in SUBSET S : (\A t \in SUBSET s : t # s => t \in P) => s \in P
    PROVE  \A s \in SUBSET S : s \in P
<1>. SUFFICES ASSUME NEW bad \in SUBSET S, bad \notin P
              PROVE  FALSE
  OBVIOUS
<1>. DEFINE Sizes == {Cardinality(s) : s \in {t \in SUBSET S : t \notin P}}
<1>1. \A s \in SUBSET S : IsFiniteSet(s) /\ Cardinality(s) \in Nat
  BY FS_Subset, FS_CardinalityType
<1>2. Sizes \in SUBSET Nat /\ Sizes # {}
  BY <1>1
<1>3. PICK n \in Sizes : \A k \in Sizes : n <= k
  BY <1>2, SmallestExists
<1>4. PICK s \in SUBSET S : s \notin P /\ Cardinality(s) = n
  OBVIOUS
<1>5. ASSUME NEW t \in SUBSET s, t # s PROVE t \in P
  <2>. SUFFICES ASSUME t \notin P PROVE FALSE
    OBVIOUS
  <2>1. t \in SUBSET S /\ Cardinality(t) \in Sizes
    OBVIOUS
  <2>2. Cardinality(t) <= Cardinality(s) /\ Cardinality(t) # Cardinality(s)
    BY <1>1, <1>5, FS_Subset
  <2>. QED
    BY <1>1, <1>3, <1>4, <2>1, <2>2
<1>. QED
  BY <1>4, <1>5

(***************************************************************************)
(* The recursion                                                           *)
(***************************************************************************)

Picked(s) == CHOOSE x \in s : TRUE

\* g is the recursive function that SumFunctionOnSet(f, S) is g[S] of
SumsUp(f, S, g) ==
    g = [s \in SUBSET S |-> IF s = {} THEN 0 ELSE f[Picked(s)] + g[s \ {Picked(s)}]]

SumsOf(f, S) == CHOOSE g : SumsUp(f, S, g)

\* A sum is the value at the set of a function that adds up over its subsets.
LEMMA SumIsChosen ==
    ASSUME NEW f, NEW S
    PROVE  SumFunctionOnSet(f, S) = SumsOf(f, S)[S]
  BY DEF SumFunctionOnSet, FoldFunctionOnSet, MapThenFoldSet, SumsOf, SumsUp, Picked

\* The element picked is one of the set.
LEMMA PickedIn ==
    ASSUME NEW s, s # {}
    PROVE  Picked(s) \in s /\ s \ {Picked(s)} # s /\ s \ {Picked(s)} \in SUBSET s
  BY DEF Picked

\* A function that adds up does so at every subset.
LEMMA SumsUpAt ==
    ASSUME NEW f, NEW S, NEW g, SumsUp(f, S, g), NEW s \in SUBSET S
    PROVE  g[s] = IF s = {} THEN 0 ELSE f[Picked(s)] + g[s \ {Picked(s)}]
  BY DEF SumsUp

\* Two such functions agree where both are defined
LEMMA SumsAgree ==
    ASSUME NEW f, NEW S, IsFiniteSet(S), NEW T \in SUBSET S, NEW g, NEW h,
           SumsUp(f, S, g), SumsUp(f, T, h)
    PROVE  \A s \in SUBSET T : g[s] = h[s]
<1>. DEFINE P == {s \in SUBSET T : g[s] = h[s]}
<1>1. ASSUME NEW s \in SUBSET T, \A t \in SUBSET s : t # s => t \in P
      PROVE  s \in P
  <2>1. g[s] = IF s = {} THEN 0 ELSE f[Picked(s)] + g[s \ {Picked(s)}]
    <3>1. s \in SUBSET S
      OBVIOUS
    <3>. HIDE DEF P
    <3>. QED
      BY <3>1, SumsUpAt
  <2>2. h[s] = IF s = {} THEN 0 ELSE f[Picked(s)] + h[s \ {Picked(s)}]
    BY SumsUpAt
  <2>3. CASE s = {}
    BY <2>1, <2>2, <2>3
  <2>4. CASE s # {}
    <3>1. s \ {Picked(s)} \in P
      BY <1>1, <2>4, PickedIn
    <3>. QED
      BY <2>1, <2>2, <2>4, <3>1
  <2>. QED
    BY <2>3, <2>4
<1>2. IsFiniteSet(T)
  BY FS_Subset
<1>3. \A s \in SUBSET T : s \in P
  <2>. HIDE DEF P
  <2>. QED
    BY <1>1, <1>2, FiniteInduction
<1>. QED
  BY <1>3

\* There is such a function for every finite set.
LEMMA SumsExist ==
    ASSUME NEW f, NEW S, IsFiniteSet(S)
    PROVE  \A T \in SUBSET S : SumsUp(f, T, SumsOf(f, T))
<1>. DEFINE P == {T \in SUBSET S : SumsUp(f, T, SumsOf(f, T))}
<1>1. ASSUME NEW T \in SUBSET S, \A t \in SUBSET T : t # T => t \in P
      PROVE  T \in P
  <2>. DEFINE Rest(s) == s \ {Picked(s)}
              G == [s \in SUBSET T |->
                       IF s = {} THEN 0 ELSE f[Picked(s)] + SumsOf(f, Rest(s))[Rest(s)]]
  <2>1. ASSUME NEW s \in SUBSET T, s # {}
        PROVE  G[Rest(s)] = SumsOf(f, Rest(s))[Rest(s)]
    <3>. DEFINE u == Rest(s)
    <3>1. u \in SUBSET T /\ u # T
      BY <2>1, PickedIn
    <3>2. SumsUp(f, u, SumsOf(f, u))
      BY <1>1, <3>1
    <3>3. SumsOf(f, u)[u] = IF u = {} THEN 0 ELSE f[Picked(u)] + SumsOf(f, u)[Rest(u)]
      <4>. HIDE DEF u
      <4>. QED
        BY <3>2, SumsUpAt
    <3>4. G[u] = IF u = {} THEN 0 ELSE f[Picked(u)] + SumsOf(f, Rest(u))[Rest(u)]
      BY <3>1
    <3>5. CASE u = {}
      BY <3>3, <3>4, <3>5
    <3>6. CASE u # {}
      <4>1. Rest(u) \in SUBSET u /\ Rest(u) # T
        BY <3>1, <3>6, PickedIn
      <4>2. SumsUp(f, Rest(u), SumsOf(f, Rest(u)))
        BY <1>1, <3>1, <4>1
      <4>3. IsFiniteSet(u)
        BY <3>1, FS_Subset
      <4>4. SumsOf(f, u)[Rest(u)] = SumsOf(f, Rest(u))[Rest(u)]
        <5>. HIDE DEF u, Rest
        <5>. QED
          BY <3>2, <4>1, <4>2, <4>3, SumsAgree
      <4>. QED
        BY <3>3, <3>4, <3>6, <4>4
    <3>. QED
      BY <3>5, <3>6
  <2>2. SumsUp(f, T, G)
    BY <2>1 DEF SumsUp
  <2>3. SumsUp(f, T, SumsOf(f, T))
    BY <2>2 DEF SumsOf
  <2>. QED
    BY <2>3
<1>2. \A T \in SUBSET S : T \in P
  <2>. HIDE DEF P
  <2>. QED
    BY <1>1, FiniteInduction
<1>. QED
  BY <1>2

\* The sum takes out the element that the recursion picks
LEMMA SumRecursion ==
    ASSUME NEW f, NEW S, IsFiniteSet(S)
    PROVE  SumFunctionOnSet(f, S) =
               IF S = {} THEN 0
               ELSE f[Picked(S)] + SumFunctionOnSet(f, S \ {Picked(S)})
<1>. DEFINE R == S \ {Picked(S)}
<1>1. SumsUp(f, S, SumsOf(f, S))
  BY SumsExist
<1>2. SumsOf(f, S)[S] = IF S = {} THEN 0 ELSE f[Picked(S)] + SumsOf(f, S)[R]
  BY <1>1, SumsUpAt
<1>3. R \in SUBSET S
  OBVIOUS
<1>4. SumsUp(f, R, SumsOf(f, R))
  BY <1>3, SumsExist
<1>5. SumsOf(f, S)[R] = SumsOf(f, R)[R]
  <2>. HIDE DEF R
  <2>1. \A s \in SUBSET R : SumsOf(f, S)[s] = SumsOf(f, R)[s]
    BY <1>1, <1>3, <1>4, SumsAgree
  <2>. QED
    BY <2>1
<1>. QED
  BY <1>2, <1>5, SumIsChosen

(***************************************************************************)
(* The laws                                                                *)
(***************************************************************************)

\* The sum over the empty set is 0.
THEOREM SumEmpty ==
    ASSUME NEW f
    PROVE  SumFunctionOnSet(f, {}) = 0
  BY SumRecursion, FS_EmptySet

\* A sum of integers is an integer.
THEOREM SumType ==
    ASSUME NEW f, NEW S, IsFiniteSet(S), \A x \in S : f[x] \in Int
    PROVE  SumFunctionOnSet(f, S) \in Int
<1>. DEFINE P == {s \in SUBSET S : SumFunctionOnSet(f, s) \in Int}
<1>1. ASSUME NEW s \in SUBSET S, \A t \in SUBSET s : t # s => t \in P
      PROVE  s \in P
  <2>1. SumFunctionOnSet(f, s) =
            IF s = {} THEN 0 ELSE f[Picked(s)] + SumFunctionOnSet(f, s \ {Picked(s)})
    BY FS_Subset, SumRecursion
  <2>2. CASE s # {}
    <3>1. s \ {Picked(s)} \in P /\ Picked(s) \in S
      BY <1>1, <2>2, PickedIn
    <3>. QED
      BY <2>1, <2>2, <3>1
  <2>. QED
    BY <2>1, <2>2
<1>2. \A s \in SUBSET S : s \in P
  <2>. HIDE DEF P
  <2>. QED
    BY <1>1, FiniteInduction
<1>. QED
  BY <1>2

\* Any element can be taken out first: the order of summation does not matter.
THEOREM SumRemove ==
    ASSUME NEW f, NEW S, IsFiniteSet(S), \A x \in S : f[x] \in Int, NEW e \in S
    PROVE  SumFunctionOnSet(f, S) = f[e] + SumFunctionOnSet(f, S \ {e})
<1>. DEFINE P == {s \in SUBSET S : \A x \in s :
                      SumFunctionOnSet(f, s) = f[x] + SumFunctionOnSet(f, s \ {x})}
<1>0. \A s \in SUBSET S : IsFiniteSet(s) /\ SumFunctionOnSet(f, s) \in Int
  BY FS_Subset, SumType
<1>1. ASSUME NEW s \in SUBSET S, \A t \in SUBSET s : t # s => t \in P
      PROVE  s \in P
  <2>. SUFFICES ASSUME NEW x \in s
                PROVE  SumFunctionOnSet(f, s) = f[x] + SumFunctionOnSet(f, s \ {x})
    OBVIOUS
  <2>. DEFINE y == Picked(s)
  <2>1. y \in s
    BY PickedIn
  <2>2. SumFunctionOnSet(f, s) = f[y] + SumFunctionOnSet(f, s \ {y})
    BY <1>0, SumRecursion
  <2>3. CASE x = y
    BY <2>2, <2>3
  <2>4. CASE x # y
    <3>. DEFINE both == (s \ {y}) \ {x}
    <3>. HIDE DEF y
    <3>1. SumFunctionOnSet(f, s \ {y}) = f[x] + SumFunctionOnSet(f, both)
      <4>1. s \ {y} \in P /\ x \in s \ {y}
        BY <1>1, <2>1, <2>4
      <4>. QED
        BY <4>1
    <3>2. SumFunctionOnSet(f, s \ {x}) = f[y] + SumFunctionOnSet(f, both)
      <4>1. s \ {x} \in P /\ y \in s \ {x}
        BY <1>1, <2>1, <2>4
      <4>2. (s \ {x}) \ {y} = both
        OBVIOUS
      <4>. QED
        BY <4>1, <4>2
    <3>3. f[x] \in Int /\ f[y] \in Int /\ SumFunctionOnSet(f, both) \in Int
      BY <1>0, <2>1
    <3>. HIDE DEF both
    <3>. QED
      BY <2>2, <3>1, <3>2, <3>3
  <2>. QED
    BY <2>3, <2>4
<1>2. \A s \in SUBSET S : s \in P
  <2>. HIDE DEF P
  <2>. QED
    BY <1>1, FiniteInduction
<1>. QED
  BY <1>2

\* Induction one element at a time: what the laws below use
LEMMA ElementInduction ==
    ASSUME NEW S, IsFiniteSet(S), NEW P, {} \in P,
           \A s \in SUBSET S, x \in S : (x \in s /\ s \ {x} \in P) => s \in P
    PROVE  S \in P
<1>1. ASSUME NEW s \in SUBSET S, \A t \in SUBSET s : t # s => t \in P
      PROVE  s \in P
  <2>1. CASE s # {}
    <3>1. PICK x \in s : TRUE
      BY <2>1
    <3>2. s \ {x} \in P
      BY <1>1
    <3>. QED
      BY <3>1, <3>2
  <2>. QED
    BY <2>1
<1>. QED
  BY <1>1, FiniteInduction

\* A sum is the values' alone.
THEOREM SumCongruence ==
    ASSUME NEW f, NEW g, NEW S, IsFiniteSet(S),
           \A x \in S : f[x] \in Int /\ f[x] = g[x]
    PROVE  SumFunctionOnSet(f, S) = SumFunctionOnSet(g, S)
<1>. DEFINE P == {s \in SUBSET S : SumFunctionOnSet(f, s) = SumFunctionOnSet(g, s)}
<1>1. ASSUME NEW s \in SUBSET S, NEW x \in S, x \in s, s \ {x} \in P
      PROVE  s \in P
  <2>1. IsFiniteSet(s)
    BY FS_Subset
  <2>2. SumFunctionOnSet(f, s) = f[x] + SumFunctionOnSet(f, s \ {x})
    BY <1>1, <2>1, SumRemove
  <2>3. SumFunctionOnSet(g, s) = g[x] + SumFunctionOnSet(g, s \ {x})
    BY <1>1, <2>1, SumRemove
  <2>. QED
    BY <1>1, <2>2, <2>3
<1>2. {} \in P
  BY SumEmpty
<1>. HIDE DEF P
<1>3. S \in P
  BY <1>1, <1>2, ElementInduction
<1>. QED
  BY <1>3 DEF P

\* A sum of sums is the sum of the sums.
THEOREM SumPlus ==
    ASSUME NEW f, NEW g, NEW h, NEW S, IsFiniteSet(S),
           \A x \in S : f[x] \in Int /\ g[x] \in Int /\ h[x] = f[x] + g[x]
    PROVE  SumFunctionOnSet(h, S) = SumFunctionOnSet(f, S) + SumFunctionOnSet(g, S)
<1>. DEFINE P == {s \in SUBSET S : SumFunctionOnSet(h, s)
                                     = SumFunctionOnSet(f, s) + SumFunctionOnSet(g, s)}
<1>1. ASSUME NEW s \in SUBSET S, NEW x \in S, x \in s, s \ {x} \in P
      PROVE  s \in P
  <2>1. IsFiniteSet(s) /\ IsFiniteSet(s \ {x}) /\ s \ {x} \in SUBSET S
    BY FS_Subset
  <2>2. SumFunctionOnSet(f, s) = f[x] + SumFunctionOnSet(f, s \ {x})
    BY <1>1, <2>1, SumRemove
  <2>3. SumFunctionOnSet(g, s) = g[x] + SumFunctionOnSet(g, s \ {x})
    BY <1>1, <2>1, SumRemove
  <2>4. SumFunctionOnSet(h, s) = h[x] + SumFunctionOnSet(h, s \ {x})
    <3>1. \A y \in s : h[y] \in Int
      OBVIOUS
    <3>. QED
      BY <1>1, <2>1, <3>1, SumRemove
  <2>5. SumFunctionOnSet(f, s \ {x}) \in Int /\ SumFunctionOnSet(g, s \ {x}) \in Int
    BY <2>1, SumType
  <2>. QED
    BY <1>1, <2>2, <2>3, <2>4, <2>5
<1>2. {} \in P
  BY SumEmpty
<1>. HIDE DEF P
<1>3. S \in P
  BY <1>1, <1>2, ElementInduction
<1>. QED
  BY <1>3 DEF P

\* A larger value at every point makes a larger sum.
THEOREM SumMonotone ==
    ASSUME NEW f, NEW g, NEW S, IsFiniteSet(S),
           \A x \in S : f[x] \in Int /\ g[x] \in Int /\ f[x] <= g[x]
    PROVE  SumFunctionOnSet(f, S) <= SumFunctionOnSet(g, S)
<1>. DEFINE P == {s \in SUBSET S : SumFunctionOnSet(f, s) <= SumFunctionOnSet(g, s)}
<1>1. ASSUME NEW s \in SUBSET S, NEW x \in S, x \in s, s \ {x} \in P
      PROVE  s \in P
  <2>1. IsFiniteSet(s) /\ IsFiniteSet(s \ {x}) /\ s \ {x} \in SUBSET S
    BY FS_Subset
  <2>2. SumFunctionOnSet(f, s) = f[x] + SumFunctionOnSet(f, s \ {x})
    BY <1>1, <2>1, SumRemove
  <2>3. SumFunctionOnSet(g, s) = g[x] + SumFunctionOnSet(g, s \ {x})
    BY <1>1, <2>1, SumRemove
  <2>4. SumFunctionOnSet(f, s \ {x}) \in Int /\ SumFunctionOnSet(g, s \ {x}) \in Int
    BY <2>1, SumType
  <2>. QED
    BY <1>1, <2>2, <2>3, <2>4
<1>2. {} \in P
  BY SumEmpty
<1>. HIDE DEF P
<1>3. S \in P
  BY <1>1, <1>2, ElementInduction
<1>. QED
  BY <1>3 DEF P

\* A sum of zeros is 0.
THEOREM SumZero ==
    ASSUME NEW f, NEW S, IsFiniteSet(S), \A x \in S : f[x] = 0
    PROVE  SumFunctionOnSet(f, S) = 0
<1>0. \A x \in S : f[x] \in Int /\ f[x] = f[x] + f[x]
  OBVIOUS
<1>1. SumFunctionOnSet(f, S) = SumFunctionOnSet(f, S) + SumFunctionOnSet(f, S)
  BY <1>0, SumPlus
<1>2. SumFunctionOnSet(f, S) \in Int
  BY <1>0, SumType
<1>3. \A n \in Int : n = n + n => n = 0
  OBVIOUS
<1>. QED
  BY <1>1, <1>2, <1>3

\* A sum of natural numbers is one.
THEOREM SumNat ==
    ASSUME NEW f, NEW S, IsFiniteSet(S), \A x \in S : f[x] \in Nat
    PROVE  SumFunctionOnSet(f, S) \in Nat
<1>. DEFINE zero == [x \in S |-> 0]
<1>1. SumFunctionOnSet(zero, S) = 0
  BY SumZero
<1>2. SumFunctionOnSet(zero, S) <= SumFunctionOnSet(f, S)
  BY SumMonotone
<1>3. SumFunctionOnSet(f, S) \in Int
  BY SumType
<1>. QED
  BY <1>1, <1>2, <1>3

\* A change at one point changes the sum by as much.
THEOREM SumChange ==
    ASSUME NEW f, NEW g, NEW S, IsFiniteSet(S), NEW e \in S,
           \A x \in S : f[x] \in Int /\ g[x] \in Int,
           \A x \in S : x # e => g[x] = f[x]
    PROVE  SumFunctionOnSet(g, S) = SumFunctionOnSet(f, S) - f[e] + g[e]
<1>. DEFINE R == S \ {e}
<1>1. IsFiniteSet(R)
  BY FS_Subset
<1>2. SumFunctionOnSet(f, S) = f[e] + SumFunctionOnSet(f, R)
  BY SumRemove
<1>3. SumFunctionOnSet(g, S) = g[e] + SumFunctionOnSet(g, R)
  BY SumRemove
<1>4. SumFunctionOnSet(f, R) = SumFunctionOnSet(g, R)
  <2>1. \A x \in R : f[x] \in Int /\ f[x] = g[x]
    OBVIOUS
  <2>. HIDE DEF R
  <2>. QED
    BY <1>1, <2>1, SumCongruence
<1>5. SumFunctionOnSet(f, R) \in Int
  BY <1>1, SumType
<1>. QED
  BY <1>2, <1>3, <1>4, <1>5

\* A value at one point only is the sum.
THEOREM SumSingle ==
    ASSUME NEW f, NEW S, IsFiniteSet(S), NEW e \in S, f[e] \in Int,
           \A x \in S : x # e => f[x] = 0
    PROVE  SumFunctionOnSet(f, S) = f[e]
<1>1. SumFunctionOnSet(f, S) = f[e] + SumFunctionOnSet(f, S \ {e})
  BY SumRemove
<1>2. SumFunctionOnSet(f, S \ {e}) = 0
  BY FS_Subset, SumZero
<1>. QED
  BY <1>1, <1>2

\* The sum over a part is the sum over the whole of what is 0 outside the part.
THEOREM SumPart ==
    ASSUME NEW f, NEW g, NEW S, IsFiniteSet(S), NEW T \in SUBSET S,
           \A x \in T : f[x] \in Int,
           \A x \in S : g[x] = IF x \in T THEN f[x] ELSE 0
    PROVE  SumFunctionOnSet(f, T) = SumFunctionOnSet(g, S)
<1>. DEFINE P == {s \in SUBSET S : SumFunctionOnSet(f, T \cap s) = SumFunctionOnSet(g, s)}
<1>1. ASSUME NEW s \in SUBSET S, NEW x \in S, x \in s, s \ {x} \in P
      PROVE  s \in P
  <2>1. IsFiniteSet(s) /\ IsFiniteSet(T \cap s)
    BY FS_Subset
  <2>2. SumFunctionOnSet(g, s) = g[x] + SumFunctionOnSet(g, s \ {x})
    BY <1>1, <2>1, SumRemove
  <2>3. CASE x \in T
    <3>1. x \in T \cap s /\ (T \cap s) \ {x} = T \cap (s \ {x})
      BY <1>1, <2>3
    <3>2. SumFunctionOnSet(f, T \cap s) = f[x] + SumFunctionOnSet(f, (T \cap s) \ {x})
      BY <2>1, <3>1, SumRemove
    <3>. QED
      BY <1>1, <2>2, <2>3, <3>1, <3>2
  <2>4. CASE x \notin T
    <3>1. T \cap s = T \cap (s \ {x})
      BY <2>4
    <3>2. SumFunctionOnSet(g, s \ {x}) \in Int
      <4>1. \A y \in s \ {x} : g[y] \in Int
        OBVIOUS
      <4>2. IsFiniteSet(s \ {x})
        BY FS_Subset
      <4>. QED
        BY <4>1, <4>2, SumType
    <3>3. g[x] = 0
      BY <2>4
    <3>4. SumFunctionOnSet(g, s) = SumFunctionOnSet(g, s \ {x})
      BY <2>2, <3>2, <3>3
    <3>5. SumFunctionOnSet(f, T \cap (s \ {x})) = SumFunctionOnSet(g, s \ {x})
      BY <1>1
    <3>6. SumFunctionOnSet(f, T \cap s) = SumFunctionOnSet(f, T \cap (s \ {x}))
      BY <3>1, Zenon
    <3>. QED
      BY <3>4, <3>5, <3>6
  <2>. QED
    BY <2>3, <2>4
<1>2. {} \in P
  BY SumEmpty
<1>3. S \in P
  <2>. HIDE DEF P
  <2>. QED
    BY <1>1, <1>2, ElementInduction
<1>4. T \cap S = T
  OBVIOUS
<1>. QED
  BY <1>3, <1>4

\* Rows summed by column are columns summed by row.
THEOREM SumSwap ==
    ASSUME NEW A, NEW B, IsFiniteSet(A), IsFiniteSet(B), NEW m,
           \A a \in A, b \in B : m[a][b] \in Int
    PROVE  SumFunctionOnSet([a \in A |-> SumFunctionOnSet([b \in B |-> m[a][b]], B)], A)
             = SumFunctionOnSet([b \in B |-> SumFunctionOnSet([a \in A |-> m[a][b]], A)], B)
<1>. DEFINE Row(a) == SumFunctionOnSet([b \in B |-> m[a][b]], B)
            Column(b, s) == SumFunctionOnSet([a \in A |-> m[a][b]], s)
            P == {s \in SUBSET A : SumFunctionOnSet([a \in A |-> Row(a)], s)
                                     = SumFunctionOnSet([b \in B |-> Column(b, s)], B)}
<1>1. ASSUME NEW s \in SUBSET A, NEW x \in A, x \in s, s \ {x} \in P
      PROVE  s \in P
  <2>1. IsFiniteSet(s) /\ IsFiniteSet(s \ {x})
    BY FS_Subset
  <2>2. \A a \in A : Row(a) \in Int
    BY SumType
  <2>3. SumFunctionOnSet([a \in A |-> Row(a)], s)
          = Row(x) + SumFunctionOnSet([a \in A |-> Row(a)], s \ {x})
    <3>. HIDE DEF Row
    <3>. DEFINE f == [a \in A |-> Row(a)]
    <3>1. \A a \in s : f[a] \in Int
      BY <2>2
    <3>2. f[x] = Row(x)
      OBVIOUS
    <3>. HIDE DEF f
    <3>3. SumFunctionOnSet(f, s) = f[x] + SumFunctionOnSet(f, s \ {x})
      BY <1>1, <2>1, <3>1, SumRemove
    <3>. QED
      BY <3>2, <3>3 DEF f
  <2>4. ASSUME NEW b \in B
        PROVE  /\ Column(b, s) = m[x][b] + Column(b, s \ {x})
               /\ Column(b, s \ {x}) \in Int
    <3>. DEFINE f == [a \in A |-> m[a][b]]
    <3>1. \A a \in s : f[a] \in Int
      OBVIOUS
    <3>2. f[x] = m[x][b]
      OBVIOUS
    <3>. HIDE DEF f
    <3>3. SumFunctionOnSet(f, s) = f[x] + SumFunctionOnSet(f, s \ {x})
      BY <1>1, <2>1, <3>1, SumRemove
    <3>4. SumFunctionOnSet(f, s \ {x}) \in Int
      BY <2>1, <3>1, SumType
    <3>. QED
      BY <3>2, <3>3, <3>4 DEF f
  <2>5. SumFunctionOnSet([b \in B |-> Column(b, s)], B)
          = Row(x) + SumFunctionOnSet([b \in B |-> Column(b, s \ {x})], B)
    <3>. DEFINE f == [b \in B |-> m[x][b]]
                g == [b \in B |-> Column(b, s \ {x})]
                h == [b \in B |-> Column(b, s)]
    <3>. HIDE DEF Column
    <3>1. \A b \in B : f[b] \in Int /\ g[b] \in Int /\ h[b] = f[b] + g[b]
      BY <2>4
    <3>. HIDE DEF f, g, h
    <3>2. SumFunctionOnSet(h, B) = SumFunctionOnSet(f, B) + SumFunctionOnSet(g, B)
      BY <3>1, SumPlus
    <3>. QED
      BY <3>2 DEF f, g, h
  <2>. QED
    <3>. HIDE DEF Row, Column
    <3>. QED
      BY <1>1, <2>3, <2>5
<1>2. {} \in P
  <2>1. \A b \in B : Column(b, {}) = 0
    BY SumEmpty
  <2>2. SumFunctionOnSet([b \in B |-> Column(b, {})], B) = 0
    <3>. HIDE DEF Column
    <3>. QED
      BY <2>1, SumZero
  <2>. QED
    BY <2>2, SumEmpty
<1>3. A \in P
  <2>. HIDE DEF P
  <2>. QED
    BY <1>1, <1>2, ElementInduction
<1>. QED
  BY <1>3
=============================================================================
