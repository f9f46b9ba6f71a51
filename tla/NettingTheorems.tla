---------------------------- MODULE NettingTheorems ----------------------------
(***************************************************************************)
(* Sums over finite sets.  The community modules define a sum as a fold,   *)
(* which is a recursive function on the subsets of its index set.  That    *)
(* such a function exists, and that the sum can then be taken apart in any *)
(* order, is proved here from the fact that a family of subsets of a       *)
(* finite set has a smallest member (WFMin), so that no induction rule,    *)
(* which would take an operator, is needed.                                *)
(***************************************************************************)
EXTENDS GreedyNetting, SequencesExt, FiniteSetTheorems, TLAPS

Pick(T) == CHOOSE x \in T : TRUE

\* g is the sum of f over every subset of S.
IsSum(f, g, S) ==
  g = [T \in SUBSET S |-> IF T = {} THEN 0 ELSE f[Pick(T)] + g[T \ {Pick(T)}]]

LEMMA SumIsFold ==
  ASSUME NEW f, NEW S
  PROVE  SumFunctionOnSet(f, S) = (CHOOSE g : IsSum(f, g, S))[S]
  BY DEF SumFunctionOnSet, FoldFunctionOnSet, MapThenFoldSet, IsSum, Pick

LEMMA PickIn ==
  ASSUME NEW T, T # {}
  PROVE  Pick(T) \in T
  BY DEF Pick

\* A family of subsets of a finite set has a smallest member.
LEMMA Least ==
  ASSUME NEW S, IsFiniteSet(S), NEW B \in SUBSET (SUBSET S), B # {}
  PROVE  \E T \in B : \A U \in B : U \subseteq T => U = T
<1>1. IsWellFoundedOn(StrictSubsetOrdering(S), SUBSET S)
  BY FS_StrictSubsetOrderingWellFounded, FS_FiniteSubsetsOfFinite
<1>2. PICK T \in B : \A U \in B : ~ (<<U, T>> \in StrictSubsetOrdering(S))
  BY <1>1, WFMin
<1>3. \A U \in B : U \subseteq T => U = T
  <2> SUFFICES ASSUME NEW U \in B, U \subseteq T, U # T
               PROVE  <<U, T>> \in StrictSubsetOrdering(S)
    BY <1>2
  <2> QED
    BY DEF StrictSubsetOrdering
<1> QED
  BY <1>3

LEMMA SumUnique ==
  ASSUME NEW S, IsFiniteSet(S), NEW f, NEW g, NEW h, IsSum(f, g, S), IsSum(f, h, S)
  PROVE  g = h
<1> DEFINE B == {T \in SUBSET S : g[T] # h[T]}
<1>1. ASSUME B # {} PROVE FALSE
  <2>0. B \in SUBSET (SUBSET S)
    OBVIOUS
  <2>1. PICK T \in B : \A U \in B : U \subseteq T => U = T
    <3> HIDE DEF B
    <3> QED
      BY <1>1, <2>0, Least
  <2>2. T # {} => Pick(T) \in T
    BY PickIn
  <2> DEFINE U == T \ {Pick(T)}
  <2>3. T # {} => U \in SUBSET S /\ U \subseteq T /\ U # T
    BY <2>2
  <2>4. T # {} => g[U] = h[U]
    BY <2>1, <2>3
  <2>5. /\ g[T] = IF T = {} THEN 0 ELSE f[Pick(T)] + g[U]
        /\ h[T] = IF T = {} THEN 0 ELSE f[Pick(T)] + h[U]
    BY DEF IsSum
  <2>6. g[T] = h[T]
    <3> HIDE DEF U
    <3> QED
      BY <2>4, <2>5
  <2> QED
    BY <2>1, <2>6
<1>2. /\ g = [T \in SUBSET S |-> g[T]] /\ h = [T \in SUBSET S |-> h[T]]
  BY DEF IsSum
<1> QED
  BY <1>1, <1>2

LEMMA SumRestrict ==
  ASSUME NEW S, NEW f, NEW g, IsSum(f, g, S), NEW W \in SUBSET S
  PROVE  IsSum(f, [T \in SUBSET W |-> g[T]], W)
<1> DEFINE r == [T \in SUBSET W |-> g[T]]
<1>1. \A T \in SUBSET W : r[T] = IF T = {} THEN 0 ELSE f[Pick(T)] + r[T \ {Pick(T)}]
  <2> SUFFICES ASSUME NEW T \in SUBSET W
               PROVE  r[T] = IF T = {} THEN 0 ELSE f[Pick(T)] + r[T \ {Pick(T)}]
    OBVIOUS
  <2>1. T \in SUBSET S /\ T \ {Pick(T)} \in SUBSET W
    OBVIOUS
  <2>2. g[T] = IF T = {} THEN 0 ELSE f[Pick(T)] + g[T \ {Pick(T)}]
    BY <2>1 DEF IsSum
  <2> QED
    BY <2>1, <2>2
<1>2. r = [T \in SUBSET W |-> IF T = {} THEN 0 ELSE f[Pick(T)] + r[T \ {Pick(T)}]]
  <2>1. r = [T \in SUBSET W |-> r[T]]
    OBVIOUS
  <2> HIDE DEF r
  <2> QED
    BY <1>1, <2>1
<1> QED
  BY <1>2 DEF IsSum

LEMMA SumExists ==
  ASSUME NEW S, IsFiniteSet(S), NEW f
  PROVE  \E g : IsSum(f, g, S)
<1> DEFINE B == {T \in SUBSET S : ~ \E g : IsSum(f, g, T)}
<1> SUFFICES ASSUME B # {} PROVE FALSE
  OBVIOUS
<1>0. B \in SUBSET (SUBSET S)
  OBVIOUS
<1>1. PICK T \in B : \A U \in B : U \subseteq T => U = T
  <2> HIDE DEF B
  <2> QED
    BY <1>0, Least
<1>2. \A U \in SUBSET T : U # T => \E g : IsSum(f, g, U)
  <2> SUFFICES ASSUME NEW U \in SUBSET T, U # T PROVE U \notin B
    OBVIOUS
  <2> QED
    BY <1>1
<1> DEFINE G(U) == CHOOSE g : IsSum(f, g, U)
           Val(U) == IF U = {} THEN 0
                     ELSE f[Pick(U)] + G(U \ {Pick(U)})[U \ {Pick(U)}]
           s == [U \in SUBSET T |-> Val(U)]
<1>3. \A U \in SUBSET T : U # T => IsSum(f, G(U), U)
  BY <1>2
<1>4. ASSUME NEW U \in SUBSET T, U # T
      PROVE  G(U)[U] = Val(U)
  <2>1. IsSum(f, G(U), U)
    BY <1>3, <1>4
  <2>2. CASE U = {}
    BY <2>1, <2>2 DEF IsSum
  <2>3. CASE U # {}
    <3> DEFINE x == Pick(U)
               V == U \ {x}
    <3>1. x \in U /\ V \in SUBSET U /\ V \in SUBSET T /\ V # T
      BY <2>3, PickIn
    <3>2. G(U)[U] = f[x] + G(U)[V]
      BY <2>1, <2>3 DEF IsSum
    <3>3. IsSum(f, [W \in SUBSET V |-> G(U)[W]], V) /\ IsSum(f, G(V), V)
      <4> HIDE DEF V, G
      <4> QED
        BY <1>3, <2>1, <3>1, SumRestrict
    <3>4. IsFiniteSet(V)
      BY <3>1, FS_Subset
    <3>5. G(V)[V] = G(U)[V]
      <4> HIDE DEF V, G
      <4>1. G(V) = [W \in SUBSET V |-> G(U)[W]]
        BY <3>3, <3>4, SumUnique
      <4> QED
        BY <4>1
    <3> QED
      BY <2>3, <3>2, <3>5
  <2> QED
    BY <2>2, <2>3
<1>5. ASSUME NEW U \in SUBSET T
      PROVE  Val(U) = IF U = {} THEN 0 ELSE f[Pick(U)] + s[U \ {Pick(U)}]
  <2>1. CASE U = {}
    BY <2>1
  <2>2. CASE U # {}
    <3> DEFINE V == U \ {Pick(U)}
    <3>1. V \in SUBSET T /\ V # T
      BY <2>2, PickIn
    <3>2. s[V] = Val(V) /\ G(V)[V] = Val(V)
      BY <1>4, <3>1
    <3> QED
      BY <2>2, <3>2
  <2> QED
    BY <2>1, <2>2
<1>6. s = [U \in SUBSET T |-> IF U = {} THEN 0 ELSE f[Pick(U)] + s[U \ {Pick(U)}]]
  <2>1. s = [U \in SUBSET T |-> Val(U)]
    OBVIOUS
  <2> HIDE DEF s, Val
  <2> QED
    BY <1>5, <2>1
<1>7. IsSum(f, s, T)
  BY <1>6 DEF IsSum
<1> QED
  BY <1>1, <1>7

-----------------------------------------------------------------------------
(* How a sum is taken apart.                                               *)

LEMMA SumChosen ==
  ASSUME NEW S, IsFiniteSet(S), NEW f
  PROVE  \E g : IsSum(f, g, S) /\ \A T \in SUBSET S : SumFunctionOnSet(f, T) = g[T]
<1>1. PICK g : IsSum(f, g, S)
  BY SumExists
<1>2. ASSUME NEW T \in SUBSET S
      PROVE  SumFunctionOnSet(f, T) = g[T]
  <2> DEFINE h == CHOOSE k : IsSum(f, k, T)
             r == [U \in SUBSET T |-> g[U]]
  <2>1. IsFiniteSet(T)
    BY FS_Subset
  <2>2. IsSum(f, r, T)
    BY <1>1, SumRestrict
  <2>3. IsSum(f, h, T)
    BY <2>2
  <2>4. r[T] = g[T]
    OBVIOUS
  <2>5. SumFunctionOnSet(f, T) = h[T]
    BY SumIsFold
  <2> HIDE DEF h, r
  <2>6. h = r
    BY <2>1, <2>2, <2>3, SumUnique
  <2> QED
    BY <2>4, <2>5, <2>6
<1> QED
  BY <1>1, <1>2

LEMMA SumEmpty ==
  ASSUME NEW f
  PROVE  SumFunctionOnSet(f, {}) = 0
<1>1. PICK g : IsSum(f, g, {}) /\ \A T \in SUBSET {} : SumFunctionOnSet(f, T) = g[T]
  BY SumChosen, FS_EmptySet
<1>2. g[{}] = 0
  BY <1>1 DEF IsSum
<1> QED
  BY <1>1, <1>2

LEMMA SumPick ==
  ASSUME NEW S, IsFiniteSet(S), S # {}, NEW f
  PROVE  SumFunctionOnSet(f, S) = f[Pick(S)] + SumFunctionOnSet(f, S \ {Pick(S)})
<1>1. PICK g : IsSum(f, g, S) /\ \A T \in SUBSET S : SumFunctionOnSet(f, T) = g[T]
  BY SumChosen
<1>2. g[S] = f[Pick(S)] + g[S \ {Pick(S)}]
  BY <1>1 DEF IsSum
<1>3. S \in SUBSET S /\ S \ {Pick(S)} \in SUBSET S
  OBVIOUS
<1> QED
  BY <1>1, <1>2, <1>3

\* A sum over less than T of a smallest bad T is not bad.
LEMMA SmallestBad ==
  ASSUME NEW S, IsFiniteSet(S), NEW B \in SUBSET (SUBSET S), B # {}
  PROVE  \E T \in B : /\ IsFiniteSet(T) /\ T \in SUBSET S
                      /\ \A x \in T : T \ {x} \in SUBSET S /\ T \ {x} \notin B
<1>1. PICK T \in B : \A U \in B : U \subseteq T => U = T
  BY Least
<1>2. T \in SUBSET S /\ IsFiniteSet(T)
  BY <1>1, FS_Subset
<1> QED
  BY <1>1, <1>2

LEMMA SumInt ==
  ASSUME NEW S, IsFiniteSet(S), NEW f, \A x \in S : f[x] \in Int
  PROVE  \A T \in SUBSET S : SumFunctionOnSet(f, T) \in Int
<1> DEFINE B == {T \in SUBSET S : SumFunctionOnSet(f, T) \notin Int}
<1> SUFFICES ASSUME B # {} PROVE FALSE
  OBVIOUS
<1>1. PICK T \in B : /\ IsFiniteSet(T) /\ T \in SUBSET S
                     /\ \A x \in T : T \ {x} \in SUBSET S /\ T \ {x} \notin B
  <2>1. B \in SUBSET (SUBSET S)
    OBVIOUS
  <2> HIDE DEF B
  <2> QED
    BY <2>1, SmallestBad
<1>2. T # {}
  BY <1>1, SumEmpty
<1>3. Pick(T) \in T
  BY <1>2, PickIn
<1>4. SumFunctionOnSet(f, T \ {Pick(T)}) \in Int /\ f[Pick(T)] \in Int
  BY <1>1, <1>3
<1>5. SumFunctionOnSet(f, T) \in Int
  <2>1. SumFunctionOnSet(f, T) = f[Pick(T)] + SumFunctionOnSet(f, T \ {Pick(T)})
    BY <1>1, <1>2, SumPick
  <2> QED
    BY <1>4, <2>1
<1> QED
  BY <1>1, <1>5

\* Any element can be taken out first.
THEOREM SumRemove ==
  ASSUME NEW S, IsFiniteSet(S), NEW f, \A y \in S : f[y] \in Int, NEW x \in S
  PROVE  SumFunctionOnSet(f, S) = f[x] + SumFunctionOnSet(f, S \ {x})
<1> DEFINE Sum(T) == SumFunctionOnSet(f, T)
           B == {T \in SUBSET S : \E y \in T : Sum(T) # f[y] + Sum(T \ {y})}
<1> SUFFICES ASSUME B # {} PROVE FALSE
  <2>1. S \in SUBSET S
    OBVIOUS
  <2> QED
    BY <2>1
<1>0. \A T \in SUBSET S : Sum(T) \in Int
  BY SumInt
<1>1. PICK T \in B : /\ IsFiniteSet(T) /\ T \in SUBSET S
                     /\ \A y \in T : T \ {y} \in SUBSET S /\ T \ {y} \notin B
  <2>1. B \in SUBSET (SUBSET S)
    OBVIOUS
  <2> HIDE DEF B
  <2> QED
    BY <2>1, SmallestBad
<1>2. PICK y \in T : Sum(T) # f[y] + Sum(T \ {y})
  BY <1>1
<1> DEFINE z == Pick(T)
<1>3. z \in T /\ Sum(T) = f[z] + Sum(T \ {z})
  BY <1>1, PickIn, SumPick
<1>4. y # z
  BY <1>2, <1>3
<1>5. y \in T \ {z} /\ z \in T \ {y} /\ y \in S /\ z \in S
  BY <1>1, <1>3, <1>4
<1>6. \A u \in T : T \ {u} \in SUBSET S /\ \A v \in T \ {u} : Sum(T \ {u}) = f[v] + Sum((T \ {u}) \ {v})
  <2> HIDE DEF Sum
  <2> QED
    BY <1>1
<1> HIDE DEF z, Sum, B
<1>7. Sum(T \ {z}) = f[y] + Sum((T \ {z}) \ {y}) /\ Sum(T \ {y}) = f[z] + Sum((T \ {y}) \ {z})
  BY <1>3, <1>5, <1>6
<1>8. (T \ {z}) \ {y} = (T \ {y}) \ {z} /\ (T \ {y}) \ {z} \in SUBSET S
  BY <1>1
<1>9. Sum((T \ {y}) \ {z}) \in Int /\ f[y] \in Int /\ f[z] \in Int
  BY <1>0, <1>5, <1>8
<1>10. \A a, b, c \in Int : a + (b + c) = b + (a + c)
  OBVIOUS
<1>11. f[z] + (f[y] + Sum((T \ {y}) \ {z})) = f[y] + (f[z] + Sum((T \ {y}) \ {z}))
  BY <1>9, <1>10
<1>12. Sum(T) = f[z] + (f[y] + Sum((T \ {y}) \ {z}))
  BY <1>3, <1>7, <1>8
<1>13. f[y] + Sum(T \ {y}) = f[y] + (f[z] + Sum((T \ {y}) \ {z}))
  BY <1>7
<1> QED
  BY <1>2, <1>11, <1>12, <1>13

\* Equal summands, equal sums.
THEOREM SumSame ==
  ASSUME NEW S, IsFiniteSet(S), NEW f, NEW h, \A x \in S : f[x] = h[x]
  PROVE  SumFunctionOnSet(f, S) = SumFunctionOnSet(h, S)
<1> DEFINE B == {T \in SUBSET S : SumFunctionOnSet(f, T) # SumFunctionOnSet(h, T)}
<1> SUFFICES ASSUME B # {} PROVE FALSE
  <2>1. S \in SUBSET S
    OBVIOUS
  <2> QED
    BY <2>1
<1>1. PICK T \in B : /\ IsFiniteSet(T) /\ T \in SUBSET S
                     /\ \A x \in T : T \ {x} \in SUBSET S /\ T \ {x} \notin B
  <2>1. B \in SUBSET (SUBSET S)
    OBVIOUS
  <2> HIDE DEF B
  <2> QED
    BY <2>1, SmallestBad
<1>2. T # {}
  BY <1>1, SumEmpty
<1>3. Pick(T) \in T
  BY <1>2, PickIn
<1>4. /\ SumFunctionOnSet(f, T \ {Pick(T)}) = SumFunctionOnSet(h, T \ {Pick(T)})
      /\ f[Pick(T)] = h[Pick(T)]
  BY <1>1, <1>3
<1>5. SumFunctionOnSet(f, T) = SumFunctionOnSet(h, T)
  BY <1>1, <1>2, <1>4, SumPick
<1> QED
  BY <1>1, <1>5

\* One summand changes.
THEOREM SumChange ==
  ASSUME NEW S, IsFiniteSet(S), NEW f, NEW h, NEW x \in S,
         \A y \in S : f[y] \in Int /\ h[y] \in Int,
         \A y \in S \ {x} : h[y] = f[y]
  PROVE  SumFunctionOnSet(h, S) = SumFunctionOnSet(f, S) - f[x] + h[x]
<1>1. IsFiniteSet(S \ {x}) /\ S \ {x} \in SUBSET S
  BY FS_RemoveElement
<1>2. SumFunctionOnSet(h, S \ {x}) = SumFunctionOnSet(f, S \ {x})
  BY <1>1, SumSame
<1>3. SumFunctionOnSet(f, S \ {x}) \in Int
  BY <1>1, SumInt
<1>4. /\ SumFunctionOnSet(f, S) = f[x] + SumFunctionOnSet(f, S \ {x})
      /\ SumFunctionOnSet(h, S) = h[x] + SumFunctionOnSet(h, S \ {x})
  BY SumRemove
<1> QED
  BY <1>2, <1>3, <1>4

\* No summand below zero, no sum below zero.
THEOREM SumNat ==
  ASSUME NEW S, IsFiniteSet(S), NEW f, \A x \in S : f[x] \in Nat
  PROVE  SumFunctionOnSet(f, S) \in Nat
<1> DEFINE B == {T \in SUBSET S : SumFunctionOnSet(f, T) \notin Nat}
<1> SUFFICES ASSUME B # {} PROVE FALSE
  <2>1. S \in SUBSET S
    OBVIOUS
  <2> QED
    BY <2>1
<1>1. PICK T \in B : /\ IsFiniteSet(T) /\ T \in SUBSET S
                     /\ \A x \in T : T \ {x} \in SUBSET S /\ T \ {x} \notin B
  <2>1. B \in SUBSET (SUBSET S)
    OBVIOUS
  <2> HIDE DEF B
  <2> QED
    BY <2>1, SmallestBad
<1>2. T # {}
  BY <1>1, SumEmpty
<1>3. Pick(T) \in T
  BY <1>2, PickIn
<1>4. SumFunctionOnSet(f, T \ {Pick(T)}) \in Nat /\ f[Pick(T)] \in Nat
  BY <1>1, <1>3
<1>5. SumFunctionOnSet(f, T) \in Nat
  <2>1. SumFunctionOnSet(f, T) = f[Pick(T)] + SumFunctionOnSet(f, T \ {Pick(T)})
    BY <1>1, <1>2, SumPick
  <2> QED
    BY <1>4, <2>1
<1> QED
  BY <1>1, <1>5

\* Nothing but zeros.
THEOREM SumZero ==
  ASSUME NEW S, IsFiniteSet(S), NEW f, \A x \in S : f[x] = 0
  PROVE  SumFunctionOnSet(f, S) = 0
<1> DEFINE B == {T \in SUBSET S : SumFunctionOnSet(f, T) # 0}
<1> SUFFICES ASSUME B # {} PROVE FALSE
  <2>1. S \in SUBSET S
    OBVIOUS
  <2> QED
    BY <2>1
<1>1. PICK T \in B : /\ IsFiniteSet(T) /\ T \in SUBSET S
                     /\ \A x \in T : T \ {x} \in SUBSET S /\ T \ {x} \notin B
  <2>1. B \in SUBSET (SUBSET S)
    OBVIOUS
  <2> HIDE DEF B
  <2> QED
    BY <2>1, SmallestBad
<1>2. T # {}
  BY <1>1, SumEmpty
<1>3. Pick(T) \in T
  BY <1>2, PickIn
<1>4. SumFunctionOnSet(f, T \ {Pick(T)}) = 0 /\ f[Pick(T)] = 0
  BY <1>1, <1>3
<1>5. SumFunctionOnSet(f, T) = 0
  BY <1>1, <1>2, <1>4, SumPick
<1> QED
  BY <1>1, <1>5

-----------------------------------------------------------------------------
(* Sums of several functions, and of one function in several ways.  Each    *)
(* proof takes one element x out of a smallest set for which the claim     *)
(* fails, and finds that it fails for what is left.                        *)

\* An element to take out of a smallest T in B.
LEMMA TakeOut ==
  ASSUME NEW S, IsFiniteSet(S), NEW B \in SUBSET (SUBSET S), B # {}, {} \notin B
  PROVE  \E T \in B, x \in S : /\ x \in T /\ T \in SUBSET S /\ IsFiniteSet(T)
                               /\ T \ {x} \in SUBSET S /\ T \ {x} \notin B
<1>1. PICK T \in B : /\ IsFiniteSet(T) /\ T \in SUBSET S
                     /\ \A x \in T : T \ {x} \in SUBSET S /\ T \ {x} \notin B
  BY SmallestBad
<1>2. PICK x \in T : TRUE
  OBVIOUS
<1> QED
  BY <1>1, <1>2

LEMMA SumTake ==
  ASSUME NEW S, IsFiniteSet(S), NEW f, \A y \in S : f[y] \in Int,
         NEW T \in SUBSET S, NEW x \in T
  PROVE  /\ SumFunctionOnSet(f, T) = f[x] + SumFunctionOnSet(f, T \ {x})
         /\ f[x] \in Int /\ SumFunctionOnSet(f, T \ {x}) \in Int
<1>1. IsFiniteSet(T) /\ \A y \in T : f[y] \in Int
  BY FS_Subset
<1>2. SumFunctionOnSet(f, T) = f[x] + SumFunctionOnSet(f, T \ {x})
  BY <1>1, SumRemove
<1>3. T \ {x} \in SUBSET S
  OBVIOUS
<1>4. SumFunctionOnSet(f, T \ {x}) \in Int
  BY <1>3, SumInt
<1> QED
  BY <1>1, <1>2, <1>4

\* The sum of differences is the difference of the sums.
THEOREM SumMinus ==
  ASSUME NEW S, IsFiniteSet(S), NEW f, NEW g, NEW d,
         \A x \in S : f[x] \in Int /\ g[x] \in Int /\ d[x] = f[x] - g[x]
  PROVE  SumFunctionOnSet(d, S) = SumFunctionOnSet(f, S) - SumFunctionOnSet(g, S)
<1> DEFINE B == {T \in SUBSET S : SumFunctionOnSet(d, T)
                                    # SumFunctionOnSet(f, T) - SumFunctionOnSet(g, T)}
<1> SUFFICES ASSUME B # {} PROVE FALSE
  <2>1. S \in SUBSET S
    OBVIOUS
  <2> QED
    BY <2>1
<1>0. \A x \in S : d[x] \in Int /\ f[x] \in Int /\ g[x] \in Int
  OBVIOUS
<1>1. PICK T \in B, x \in S : /\ x \in T /\ T \in SUBSET S /\ IsFiniteSet(T)
                              /\ T \ {x} \in SUBSET S /\ T \ {x} \notin B
  <2>1. B \in SUBSET (SUBSET S)
    OBVIOUS
  <2>2. {} \notin B
    BY SumEmpty
  <2> HIDE DEF B
  <2> QED
    BY <2>1, <2>2, TakeOut
<1>2. SumFunctionOnSet(d, T \ {x})
        = SumFunctionOnSet(f, T \ {x}) - SumFunctionOnSet(g, T \ {x})
  BY <1>1
<1>3. /\ SumFunctionOnSet(d, T) = d[x] + SumFunctionOnSet(d, T \ {x})
      /\ SumFunctionOnSet(f, T) = f[x] + SumFunctionOnSet(f, T \ {x})
      /\ SumFunctionOnSet(g, T) = g[x] + SumFunctionOnSet(g, T \ {x})
      /\ SumFunctionOnSet(f, T \ {x}) \in Int /\ SumFunctionOnSet(g, T \ {x}) \in Int
  BY <1>0, <1>1, SumTake
<1>4. d[x] = f[x] - g[x] /\ f[x] \in Int /\ g[x] \in Int
  BY <1>1
<1>5. SumFunctionOnSet(d, T) = SumFunctionOnSet(f, T) - SumFunctionOnSet(g, T)
  BY <1>2, <1>3, <1>4
<1> QED
  BY <1>1, <1>5

\* Larger summands, larger sums.
THEOREM SumAtMost ==
  ASSUME NEW S, IsFiniteSet(S), NEW f, NEW g,
         \A x \in S : f[x] \in Int /\ g[x] \in Int /\ f[x] <= g[x]
  PROVE  SumFunctionOnSet(f, S) <= SumFunctionOnSet(g, S)
<1> DEFINE B == {T \in SUBSET S : ~ (SumFunctionOnSet(f, T) <= SumFunctionOnSet(g, T))}
<1> SUFFICES ASSUME B # {} PROVE FALSE
  <2>1. S \in SUBSET S
    OBVIOUS
  <2> QED
    BY <2>1
<1>0. \A x \in S : f[x] \in Int /\ g[x] \in Int
  OBVIOUS
<1>1. PICK T \in B, x \in S : /\ x \in T /\ T \in SUBSET S /\ IsFiniteSet(T)
                              /\ T \ {x} \in SUBSET S /\ T \ {x} \notin B
  <2>1. B \in SUBSET (SUBSET S)
    OBVIOUS
  <2>2. {} \notin B
    BY SumEmpty
  <2> HIDE DEF B
  <2> QED
    BY <2>1, <2>2, TakeOut
<1>2. SumFunctionOnSet(f, T \ {x}) <= SumFunctionOnSet(g, T \ {x})
  BY <1>1
<1>3. /\ SumFunctionOnSet(f, T) = f[x] + SumFunctionOnSet(f, T \ {x})
      /\ SumFunctionOnSet(g, T) = g[x] + SumFunctionOnSet(g, T \ {x})
      /\ SumFunctionOnSet(f, T \ {x}) \in Int /\ SumFunctionOnSet(g, T \ {x}) \in Int
  BY <1>0, <1>1, SumTake
<1>4. f[x] <= g[x] /\ f[x] \in Int /\ g[x] \in Int
  BY <1>1
<1>5. SumFunctionOnSet(f, T) <= SumFunctionOnSet(g, T)
  BY <1>2, <1>3, <1>4
<1> QED
  BY <1>1, <1>5

\* A sum over part of a set is a sum over all of it.
THEOREM SumPart ==
  ASSUME NEW S, IsFiniteSet(S), NEW f, NEW W \in SUBSET S, \A x \in W : f[x] \in Int
  PROVE  SumFunctionOnSet(f, W)
           = SumFunctionOnSet([x \in S |-> IF x \in W THEN f[x] ELSE 0], S)
<1> DEFINE g == [x \in S |-> IF x \in W THEN f[x] ELSE 0]
           B == {T \in SUBSET S : SumFunctionOnSet(g, T) # SumFunctionOnSet(f, T \intersect W)}
<1>0. /\ \A x \in S : g[x] \in Int /\ (x \notin W => g[x] = 0)
      /\ \A x \in W : g[x] = f[x]
  OBVIOUS
<1> HIDE DEF g
<1> SUFFICES ASSUME B # {} PROVE FALSE
  <2>1. S \in SUBSET S /\ S \intersect W = W
    OBVIOUS
  <2> QED
    BY <2>1 DEF g
<1>1. PICK T \in B, x \in S : /\ x \in T /\ T \in SUBSET S /\ IsFiniteSet(T)
                              /\ T \ {x} \in SUBSET S /\ T \ {x} \notin B
  <2>1. B \in SUBSET (SUBSET S)
    OBVIOUS
  <2>2. {} \notin B
    <3>1. {} \intersect W = {}
      OBVIOUS
    <3> QED
      BY <3>1, SumEmpty
  <2> HIDE DEF B
  <2> QED
    BY <2>1, <2>2, TakeOut
<1>2. SumFunctionOnSet(g, T \ {x}) = SumFunctionOnSet(f, (T \ {x}) \intersect W)
  BY <1>1
<1>3. /\ SumFunctionOnSet(g, T) = g[x] + SumFunctionOnSet(g, T \ {x})
      /\ SumFunctionOnSet(g, T \ {x}) \in Int
  BY <1>0, <1>1, SumTake
<1>4. SumFunctionOnSet(g, T) = SumFunctionOnSet(f, T \intersect W)
  <2>1. CASE x \in W
    <3>1. /\ T \intersect W \in SUBSET W /\ x \in T \intersect W
          /\ (T \ {x}) \intersect W = (T \intersect W) \ {x} /\ IsFiniteSet(W)
      BY <1>1, <2>1, FS_Subset
    <3>2. SumFunctionOnSet(f, T \intersect W)
            = f[x] + SumFunctionOnSet(f, (T \intersect W) \ {x})
      BY <3>1, SumTake
    <3> QED
      BY <1>0, <1>2, <1>3, <2>1, <3>1, <3>2
  <2>2. CASE x \notin W
    <3>1. (T \ {x}) \intersect W = T \intersect W /\ g[x] = 0
      BY <1>0, <1>1, <2>2
    <3>2. SumFunctionOnSet(g, T) = SumFunctionOnSet(g, T \ {x})
      BY <1>3, <3>1
    <3> QED
      BY <1>2, <3>1, <3>2
  <2> QED
    BY <2>1, <2>2
<1> QED
  BY <1>1, <1>4

\* The same summands under other names: m names each of them once.
THEOREM SumRename ==
  ASSUME NEW I, IsFiniteSet(I), NEW S, IsFiniteSet(S), NEW m \in [I -> S],
         \A i, j \in I : i # j => m[i] # m[j],
         NEW f, \A x \in S : f[x] \in Int
  PROVE  SumFunctionOnSet([i \in I |-> f[m[i]]], I) = SumFunctionOnSet(f, {m[i] : i \in I})
<1> DEFINE g == [i \in I |-> f[m[i]]]
           Im(T) == {m[i] : i \in T}
           B == {T \in SUBSET I : SumFunctionOnSet(g, T) # SumFunctionOnSet(f, Im(T))}
<1>0. \A i \in I : g[i] \in Int /\ g[i] = f[m[i]]
  OBVIOUS
<1> HIDE DEF g
<1> SUFFICES ASSUME B # {} PROVE FALSE
  <2>1. I \in SUBSET I
    OBVIOUS
  <2> QED
    BY <2>1 DEF g
<1>1. PICK T \in B, i \in I : /\ i \in T /\ T \in SUBSET I /\ IsFiniteSet(T)
                              /\ T \ {i} \in SUBSET I /\ T \ {i} \notin B
  <2>1. B \in SUBSET (SUBSET I)
    OBVIOUS
  <2>2. {} \notin B
    <3>1. Im({}) = {}
      OBVIOUS
    <3> QED
      BY <3>1, SumEmpty
  <2> HIDE DEF B
  <2> QED
    BY <2>1, <2>2, TakeOut
<1>2. SumFunctionOnSet(g, T \ {i}) = SumFunctionOnSet(f, Im(T \ {i}))
  BY <1>1
<1>3. SumFunctionOnSet(g, T) = g[i] + SumFunctionOnSet(g, T \ {i})
  BY <1>0, <1>1, SumTake
<1>4. Im(T) \in SUBSET S /\ m[i] \in Im(T) /\ Im(T) \ {m[i]} = Im(T \ {i})
  BY <1>1
<1> HIDE DEF Im
<1>5. SumFunctionOnSet(f, Im(T)) = f[m[i]] + SumFunctionOnSet(f, Im(T) \ {m[i]})
  BY <1>4, SumTake
<1>6. SumFunctionOnSet(g, T) = SumFunctionOnSet(f, Im(T))
  BY <1>0, <1>1, <1>2, <1>3, <1>4, <1>5
<1> QED
  BY <1>1, <1>6

\* The rows of a table sum to what its columns sum to.
LEMMA SumSwap ==
  ASSUME NEW R, IsFiniteSet(R), NEW C, IsFiniteSet(C),
         NEW t, \A x \in R, y \in C : t[x][y] \in Int
  PROVE  SumFunctionOnSet([x \in R |-> SumFunctionOnSet([y \in C |-> t[x][y]], C)], R)
           = SumFunctionOnSet([y \in C |-> SumFunctionOnSet([x \in R |-> t[x][y]], R)], C)
<1> DEFINE row == [x \in R |-> SumFunctionOnSet([y \in C |-> t[x][y]], C)]
           col(T) == [y \in C |-> SumFunctionOnSet([x \in R |-> t[x][y]], T)]
           B == {T \in SUBSET R : SumFunctionOnSet(row, T) # SumFunctionOnSet(col(T), C)}
<1>0. \A x \in R : row[x] \in Int
  <2> SUFFICES ASSUME NEW x \in R PROVE SumFunctionOnSet([y \in C |-> t[x][y]], C) \in Int
    OBVIOUS
  <2>1. \A z \in C : [y \in C |-> t[x][y]][z] \in Int
    OBVIOUS
  <2> QED
    BY <2>1, SumInt
<1>a. \A T \in SUBSET R, y \in C : col(T)[y] \in Int
  <2> SUFFICES ASSUME NEW T \in SUBSET R, NEW y \in C
               PROVE  SumFunctionOnSet([x \in R |-> t[x][y]], T) \in Int
    OBVIOUS
  <2>1. \A z \in R : [x \in R |-> t[x][y]][z] \in Int
    OBVIOUS
  <2> QED
    BY <2>1, SumInt
<1> SUFFICES ASSUME B # {} PROVE FALSE
  <2>1. R \in SUBSET R
    OBVIOUS
  <2> QED
    BY <2>1
<1>1. PICK T \in B, x \in R : /\ x \in T /\ T \in SUBSET R /\ IsFiniteSet(T)
                              /\ T \ {x} \in SUBSET R /\ T \ {x} \notin B
  <2>1. B \in SUBSET (SUBSET R)
    OBVIOUS
  <2>2. {} \notin B
    <3>1. \A y \in C : col({})[y] = 0
      BY SumEmpty
    <3> HIDE DEF col, row
    <3>2. SumFunctionOnSet(col({}), C) = 0 /\ SumFunctionOnSet(row, {}) = 0
      BY <3>1, SumZero, SumEmpty
    <3> QED
      BY <3>2
  <2> HIDE DEF B
  <2> QED
    BY <2>1, <2>2, TakeOut
<1>2. SumFunctionOnSet(row, T \ {x}) = SumFunctionOnSet(col(T \ {x}), C)
  BY <1>1
<1>3. SumFunctionOnSet(row, T) = row[x] + SumFunctionOnSet(row, T \ {x})
  <2> HIDE DEF row
  <2> QED
    BY <1>0, <1>1, SumTake
<1>4. \A y \in C : [z \in C |-> t[x][z]][y] = col(T)[y] - col(T \ {x})[y]
  <2> TAKE y \in C
  <2> DEFINE f == [z \in R |-> t[z][y]]
  <2>1. /\ SumFunctionOnSet(f, T) = f[x] + SumFunctionOnSet(f, T \ {x})
        /\ f[x] \in Int /\ SumFunctionOnSet(f, T \ {x}) \in Int
    <3>1. \A z \in R : f[z] \in Int
      OBVIOUS
    <3> HIDE DEF f
    <3> QED
      BY <1>1, <3>1, SumTake
  <2>2. f[x] = t[x][y]
    BY <1>1
  <2>3. col(T)[y] = SumFunctionOnSet(f, T) /\ col(T \ {x})[y] = SumFunctionOnSet(f, T \ {x})
    OBVIOUS
  <2> HIDE DEF f, col
  <2> QED
    BY <2>1, <2>2, <2>3
<1>5. row[x] = SumFunctionOnSet(col(T), C) - SumFunctionOnSet(col(T \ {x}), C)
  <2> DEFINE d == [z \in C |-> t[x][z]]
  <2>1. row[x] = SumFunctionOnSet(d, C)
    BY <1>1
  <2>2. \A y \in C : /\ col(T)[y] \in Int /\ col(T \ {x})[y] \in Int
                     /\ d[y] = col(T)[y] - col(T \ {x})[y]
    BY <1>a, <1>1, <1>4
  <2> HIDE DEF d, col, row
  <2>3. SumFunctionOnSet(d, C) = SumFunctionOnSet(col(T), C) - SumFunctionOnSet(col(T \ {x}), C)
    BY <2>2, SumMinus
  <2> QED
    BY <2>1, <2>3
<1>6. SumFunctionOnSet(col(T), C) \in Int /\ SumFunctionOnSet(col(T \ {x}), C) \in Int
  <2>1. (\A y \in C : col(T)[y] \in Int) /\ (\A y \in C : col(T \ {x})[y] \in Int)
    BY <1>a, <1>1
  <2> HIDE DEF col
  <2> QED
    BY <2>1, SumInt
<1> HIDE DEF row, col
<1>7. SumFunctionOnSet(row, T) = SumFunctionOnSet(col(T), C)
  BY <1>2, <1>3, <1>5, <1>6
<1> QED
  BY <1>1, <1>7

THEOREM SumScale ==
  ASSUME NEW S, IsFiniteSet(S), NEW k \in Int, NEW f, NEW g,
         \A x \in S : f[x] \in Int /\ g[x] = k * f[x]
  PROVE  SumFunctionOnSet(g, S) = k * SumFunctionOnSet(f, S)
<1> DEFINE B == {T \in SUBSET S : SumFunctionOnSet(g, T) # k * SumFunctionOnSet(f, T)}
<1> SUFFICES ASSUME B # {} PROVE FALSE
  <2>1. S \in SUBSET S
    OBVIOUS
  <2> QED
    BY <2>1
<1>1. PICK T \in B, x \in S : /\ x \in T /\ T \in SUBSET S /\ IsFiniteSet(T)
                              /\ T \ {x} \in SUBSET S /\ T \ {x} \notin B
  <2>1. B \in SUBSET (SUBSET S)
    OBVIOUS
  <2>2. {} \notin B
    <3>1. SumFunctionOnSet(f, {}) = 0 /\ SumFunctionOnSet(g, {}) = 0
      BY SumEmpty
    <3> QED
      BY <3>1
  <2> HIDE DEF B
  <2> QED
    BY <2>1, <2>2, TakeOut
<1>2. SumFunctionOnSet(g, T \ {x}) = k * SumFunctionOnSet(f, T \ {x})
  BY <1>1
<1>3. /\ SumFunctionOnSet(f, T) = f[x] + SumFunctionOnSet(f, T \ {x})
      /\ f[x] \in Int /\ SumFunctionOnSet(f, T \ {x}) \in Int
  BY <1>1, SumTake
<1>4. SumFunctionOnSet(g, T) = g[x] + SumFunctionOnSet(g, T \ {x})
  <2>1. \A y \in S : g[y] \in Int
    OBVIOUS
  <2> QED
    BY <1>1, <2>1, SumTake
<1>5. g[x] = k * f[x]
  OBVIOUS
<1>6. SumFunctionOnSet(g, T) = k * SumFunctionOnSet(f, T)
  <2>1. ASSUME NEW m \in Int, NEW n \in Int PROVE k * (m + n) = k * m + k * n
    OBVIOUS
  <2> QED
    BY <1>2, <1>3, <1>4, <1>5, <2>1
<1> QED
  BY <1>1, <1>6

\* Of two sums with equal totals, one of which is never above the other, every
\* summand is the same.
THEOREM SumTight ==
  ASSUME NEW S, IsFiniteSet(S), NEW f, NEW g,
         \A x \in S : f[x] \in Int /\ g[x] \in Int /\ f[x] <= g[x],
         SumFunctionOnSet(f, S) = SumFunctionOnSet(g, S)
  PROVE  \A x \in S : f[x] = g[x]
<1> SUFFICES ASSUME NEW x \in S PROVE f[x] = g[x]
  OBVIOUS
<1>1. S \in SUBSET S /\ S \ {x} \in SUBSET S /\ IsFiniteSet(S \ {x})
  BY FS_RemoveElement
<1>2. /\ SumFunctionOnSet(f, S) = f[x] + SumFunctionOnSet(f, S \ {x})
      /\ f[x] \in Int /\ SumFunctionOnSet(f, S \ {x}) \in Int
  <2>1. \A y \in S : f[y] \in Int
    OBVIOUS
  <2> QED
    BY <1>1, <2>1, SumTake
<1>3. /\ SumFunctionOnSet(g, S) = g[x] + SumFunctionOnSet(g, S \ {x})
      /\ g[x] \in Int /\ SumFunctionOnSet(g, S \ {x}) \in Int
  <2>1. \A y \in S : g[y] \in Int
    OBVIOUS
  <2> QED
    BY <1>1, <2>1, SumTake
<1>4. SumFunctionOnSet(f, S \ {x}) <= SumFunctionOnSet(g, S \ {x})
  BY <1>1, SumAtMost
<1>5. f[x] <= g[x] /\ SumFunctionOnSet(f, S) = SumFunctionOnSet(g, S)
  OBVIOUS
<1>6. \A a, b, c, d \in Int : a <= b /\ c <= d /\ a + c = b + d => a = b
  OBVIOUS
<1> QED
  BY <1>2, <1>3, <1>4, <1>5, <1>6

\* Summands sorted by a key: the sum is that of the sums under each key.
THEOREM SumByKey ==
  ASSUME NEW D, IsFiniteSet(D), NEW K, IsFiniteSet(K), NEW a, NEW key,
         \A i \in D : a[i] \in Int /\ key[i] \in K,
         NEW p, \A k \in K, i \in D : p[k][i] = (IF key[i] = k THEN a[i] ELSE 0),
         NEW h, \A k \in K : h[k] = SumFunctionOnSet(p[k], D)
  PROVE  SumFunctionOnSet(h, K) = SumFunctionOnSet(a, D)
<1> DEFINE t == [k \in K |-> [i \in D |-> IF key[i] = k THEN a[i] ELSE 0]]
           col == [i \in D |-> SumFunctionOnSet([k \in K |-> t[k][i]], K)]
           row == [k \in K |-> SumFunctionOnSet([i \in D |-> t[k][i]], D)]
<1>1. \A k \in K, i \in D : t[k][i] \in Int
  OBVIOUS
<1>2. SumFunctionOnSet(row, K) = SumFunctionOnSet(col, D)
  <2> HIDE DEF t
  <2> QED
    BY <1>1, SumSwap
<1>3. ASSUME NEW i \in D PROVE col[i] = a[i]
  <2> DEFINE c == [k \in K |-> t[k][i]]
  <2>1. key[i] \in K /\ a[i] \in Int
    OBVIOUS
  <2>2. \A k \in K : c[k] = IF key[i] = k THEN a[i] ELSE 0
    OBVIOUS
  <2>3. col[i] = SumFunctionOnSet(c, K)
    OBVIOUS
  <2> HIDE DEF c, col
  <2>4. \A k \in K : c[k] \in Int
    BY <2>1, <2>2
  <2>5. SumFunctionOnSet(c, K) = c[key[i]] + SumFunctionOnSet(c, K \ {key[i]})
    BY <2>1, <2>4, SumRemove
  <2>6. SumFunctionOnSet(c, K \ {key[i]}) = 0
    <3>1. IsFiniteSet(K \ {key[i]}) /\ \A k \in K \ {key[i]} : c[k] = 0
      BY <2>2, FS_RemoveElement
    <3> QED
      BY <3>1, SumZero
  <2> QED
    BY <2>1, <2>2, <2>3, <2>5, <2>6
<1>4. SumFunctionOnSet(col, D) = SumFunctionOnSet(a, D)
  <2> HIDE DEF col
  <2> QED
    BY <1>3, SumSame
<1>5. \A k \in K : h[k] = row[k]
  <2> SUFFICES ASSUME NEW k \in K PROVE h[k] = SumFunctionOnSet([i \in D |-> t[k][i]], D)
    OBVIOUS
  <2> DEFINE r == [i \in D |-> t[k][i]]
  <2>1. \A i \in D : p[k][i] = r[i]
    OBVIOUS
  <2> HIDE DEF r
  <2>2. SumFunctionOnSet(p[k], D) = SumFunctionOnSet(r, D)
    BY <2>1, SumSame
  <2> QED
    BY <2>2 DEF r
<1>6. SumFunctionOnSet(h, K) = SumFunctionOnSet(row, K)
  <2> HIDE DEF row
  <2> QED
    BY <1>5, SumSame
<1> QED
  BY <1>2, <1>4, <1>6

\* Where f is zero except at the places that m names once each, its sum is
\* that of its values at those places.
THEOREM SumAlong ==
  ASSUME NEW S, IsFiniteSet(S), NEW I, IsFiniteSet(I), NEW m \in [I -> S],
         \A i, j \in I : i # j => m[i] # m[j],
         NEW f, \A x \in S : f[x] \in Int,
         \A x \in S : (\A i \in I : m[i] # x) => f[x] = 0
  PROVE  SumFunctionOnSet(f, S) = SumFunctionOnSet([i \in I |-> f[m[i]]], I)
<1> DEFINE W == {m[i] : i \in I}
           g == [x \in S |-> IF x \in W THEN f[x] ELSE 0]
<1>1. SumFunctionOnSet([i \in I |-> f[m[i]]], I) = SumFunctionOnSet(f, W)
  BY SumRename
<1>2. W \in SUBSET S /\ \A x \in W : f[x] \in Int
  OBVIOUS
<1>3. \A x \in S : f[x] = g[x]
  OBVIOUS
<1>4. SumFunctionOnSet(f, W) = SumFunctionOnSet(g, S)
  <2> HIDE DEF W
  <2> QED
    BY <1>2, SumPart
<1>5. SumFunctionOnSet(f, S) = SumFunctionOnSet(g, S)
  <2> HIDE DEF g
  <2> QED
    BY <1>3, SumSame
<1> QED
  BY <1>1, <1>4, <1>5

-----------------------------------------------------------------------------
(* Counting up, and functions that are given by a first value and a step.   *)

\* A finite set of naturals has a least member.
LEMMA FirstOf ==
  ASSUME NEW S, IsFiniteSet(S), S \subseteq Nat, S # {}
  PROVE  \E n \in S : \A j \in S : n <= j
<1>. DEFINE Upto(n) == {j \in S : j <= n}
            B == {Upto(n) : n \in S}
<1>1. B \in SUBSET (SUBSET S)
  OBVIOUS
<1>2. B # {}
  OBVIOUS
<1>3. PICK T \in B : \A U \in B : U \subseteq T => U = T
  <2>. HIDE DEF B
  <2>. QED BY ONLY <1>1, <1>2, IsFiniteSet(S), Least
<1>4. PICK n \in S : T = Upto(n)
  OBVIOUS
<1>5. ASSUME NEW j \in S, j < n  PROVE FALSE
  <2>1. j \in Nat /\ n \in Nat /\ \A i \in S : i \in Nat
    OBVIOUS
  <2>2. Upto(j) \in B
    OBVIOUS
  <2>3. n \in Upto(n) /\ n \notin Upto(j)
    BY <1>5, <2>1
  <2>4. \A i \in S : i <= j => i <= n
    BY <1>5, <2>1
  <2>5. Upto(j) \subseteq Upto(n)
    BY <2>4
  <2>. HIDE DEF Upto, B
  <2>. QED BY <1>3, <1>4, <2>2, <2>3, <2>5
<1>. QED BY <1>5

\* A set that holds 0 and with n also n + 1 holds all numbers up to N.
LEMMA CountUp ==
  ASSUME NEW N \in Nat, NEW G, 0 \in G, \A n \in 0 .. N - 1 : n \in G => n + 1 \in G
  PROVE  \A n \in 0 .. N : n \in G
<1>. DEFINE B == {n \in 0 .. N : n \notin G}
<1>. SUFFICES ASSUME B # {} PROVE FALSE
  OBVIOUS
<1>1. IsFiniteSet(B) /\ B \subseteq Nat
  <2>1. IsFiniteSet(0 .. N)
    BY FS_Interval
  <2>. QED BY <2>1, FS_Subset
<1>2. PICK m \in B : \A j \in B : m <= j
  <2>. HIDE DEF B
  <2>. QED BY <1>1, FirstOf
<1>3. m \in 1 .. N /\ m \notin G
  <2>1. m # 0
    OBVIOUS
  <2>. QED BY <2>1
<1>4. m - 1 \in 0 .. N - 1 /\ m - 1 \notin B
  BY <1>2, <1>3
<1>5. m - 1 \in G
  BY <1>4
<1>6. (m - 1) + 1 \in G
  <2>. HIDE DEF B
  <2>. QED BY <1>4, <1>5
<1>. QED BY <1>3, <1>6

\* Every F[n] takes S into S; f is what they take a to, one after the other.
StaysIn(F, N, S) == \A n \in 1 .. N, s \in S : F[n][s] \in S

Iterates(f, a, F, N) == f[0] = a /\ \A n \in 1 .. N : f[n] = F[n][f[n - 1]]

LEMMA Recursion ==
  ASSUME NEW N \in Nat, NEW S, NEW a \in S, NEW F, StaysIn(F, N, S)
  PROVE  \E f \in [0 .. N -> S] : Iterates(f, a, F, N)
<1>. DEFINE Is(f, m) == /\ f \in [0 .. m -> S] /\ f[0] = a
                        /\ \A n \in 1 .. m : f[n] = F[n][f[n - 1]]
            G == {m \in 0 .. N : \E f : Is(f, m)}
<1>1. 0 \in G
  <2>1. Is([n \in 0 .. 0 |-> a], 0)
    OBVIOUS
  <2>. HIDE DEF Is
  <2>. QED BY <2>1
<1>2. ASSUME NEW m \in 0 .. N - 1, m \in G  PROVE m + 1 \in G
  <2>1. PICK f : Is(f, m)
    BY <1>2
  <2>. DEFINE g == [n \in 0 .. m + 1 |-> IF n = m + 1 THEN F[m + 1][f[m]] ELSE f[n]]
  <2>2. F[m + 1][f[m]] \in S
    BY <2>1 DEF StaysIn
  <2>3. g \in [0 .. m + 1 -> S] /\ g[0] = a
    <3>1. \A n \in 0 .. m + 1 : n # m + 1 => n \in 0 .. m /\ f[n] \in S
      BY <2>1
    <3>2. 0 # m + 1 /\ f[0] = a
      BY <2>1
    <3>. QED BY <2>2, <3>1, <3>2
  <2>4. ASSUME NEW n \in 1 .. m + 1  PROVE g[n] = F[n][g[n - 1]]
    <3>1. CASE n = m + 1
      BY <3>1
    <3>2. CASE n # m + 1
      <4>1. n \in 1 .. m /\ n - 1 \in 0 .. m
        BY <3>2
      <4>2. g[n] = f[n] /\ g[n - 1] = f[n - 1]
        BY <4>1
      <4>. QED BY <2>1, <4>1, <4>2
    <3>. QED BY <3>1, <3>2
  <2>5. Is(g, m + 1)
    <3>. HIDE DEF g
    <3>. QED BY <2>3, <2>4
  <2>6. m + 1 \in 0 .. N
    OBVIOUS
  <2>. HIDE DEF Is, g
  <2>. QED BY <2>5, <2>6
<1>3. \A m \in 0 .. N : m \in G
  <2>. HIDE DEF G
  <2>. QED BY <1>1, <1>2, CountUp
<1>4. N \in G
  BY <1>3
<1>. QED BY <1>4 DEF Iterates

-----------------------------------------------------------------------------
(* Sums along a numbering, and over a sequence.                             *)

IntsOn(f, D) == \A x \in D : f[x] \in Int

\* m gives different members of I different values.
Apart(m, I) == \A i, j \in I : i # j => m[i] # m[j]

\* m gives every member of S as a value.
Reaches(m, I, S) == \A x \in S : \E i \in I : m[i] = x

Along(g, f, m, I) == \A i \in I : g[i] = f[m[i]]

\* The sum over S is the one over I if m names every member of S once.
THEOREM SumReindex ==
  ASSUME NEW I, IsFiniteSet(I), NEW S, IsFiniteSet(S), NEW m \in [I -> S],
         Apart(m, I), Reaches(m, I, S), NEW f, IntsOn(f, S), NEW g, Along(g, f, m, I)
  PROVE  SumFunctionOnSet(f, S) = SumFunctionOnSet(g, I)
<1>1. /\ \A i, j \in I : i # j => m[i] # m[j]
      /\ \A x \in S : \E i \in I : m[i] = x
      /\ \A x \in S : f[x] \in Int
      /\ \A i \in I : g[i] = f[m[i]]
  BY DEF Apart, Reaches, IntsOn, Along
<1>. DEFINE h == [i \in I |-> f[m[i]]]
<1>2. {m[i] : i \in I} = S
  BY <1>1
<1>3. SumFunctionOnSet(h, I) = SumFunctionOnSet(f, {m[i] : i \in I})
  BY <1>1, SumRename
<1>4. \A i \in I : g[i] = h[i]
  BY <1>1
<1>5. SumFunctionOnSet(g, I) = SumFunctionOnSet(h, I)
  <2>. HIDE DEF h
  <2>. QED BY <1>4, SumSame
<1>. QED BY <1>2, <1>3, <1>5

\* The sum over a union of disjoint sets.
THEOREM SumUnion ==
  ASSUME NEW S, IsFiniteSet(S), NEW T, IsFiniteSet(T), S \cap T = {},
         NEW f, \A x \in S \union T : f[x] \in Int
  PROVE  SumFunctionOnSet(f, S \union T) = SumFunctionOnSet(f, S) + SumFunctionOnSet(f, T)
<1>. DEFINE U == S \union T
            fS == [x \in U |-> IF x \in S THEN f[x] ELSE 0]
            fT == [x \in U |-> IF x \in T THEN f[x] ELSE 0]
<1>1. IsFiniteSet(U) /\ S \in SUBSET U /\ T \in SUBSET U
  BY FS_Union
<1>2. SumFunctionOnSet(f, S) = SumFunctionOnSet(fS, U)
  <2>. HIDE DEF U
  <2>. QED BY <1>1, SumPart DEF U
<1>3. SumFunctionOnSet(f, T) = SumFunctionOnSet(fT, U)
  <2>. HIDE DEF U
  <2>. QED BY <1>1, SumPart DEF U
<1>4. \A x \in U : f[x] \in Int /\ fS[x] \in Int /\ fT[x] = f[x] - fS[x]
  OBVIOUS
<1>5. /\ SumFunctionOnSet(f, U) \in Int /\ SumFunctionOnSet(fS, U) \in Int
  <2>. HIDE DEF U, fS, fT
  <2>. QED BY <1>1, <1>4, SumInt
<1>6. SumFunctionOnSet(fT, U) = SumFunctionOnSet(f, U) - SumFunctionOnSet(fS, U)
  <2>. HIDE DEF U, fS, fT
  <2>. QED BY <1>1, <1>4, SumMinus
<1>. HIDE DEF fS, fT, U
<1>7. SumFunctionOnSet(f, U) = SumFunctionOnSet(f, S) + SumFunctionOnSet(f, T)
  BY <1>2, <1>3, <1>5, <1>6
<1>. QED BY <1>7 DEF U

\* The sum of v over the members of a sequence.
SeqTotal(v, q) == SumFunctionOnSet([n \in 1 .. Len(q) |-> v[q[n]]], 1 .. Len(q))

LEMMA SeqTotalInt ==
  ASSUME NEW S, NEW v \in [S -> Int], NEW q \in Seq(S)
  PROVE  SeqTotal(v, q) \in Int
<1>. DEFINE D == 1 .. Len(q)
            f == [n \in D |-> v[q[n]]]
<1>1. IsFiniteSet(D)
  BY FS_Interval
<1>2. \A n \in D : f[n] \in Int
  OBVIOUS
<1>. HIDE DEF f, D
<1>3. SumFunctionOnSet(f, D) \in Int
  BY <1>1, <1>2, SumInt
<1>. QED BY <1>3 DEF f, D, SeqTotal

LEMMA SeqTotalEmpty ==
  ASSUME NEW v
  PROVE  SeqTotal(v, <<>>) = 0
<1>1. Len(<<>>) = 0 /\ 1 .. 0 = {}
  OBVIOUS
<1>. QED BY <1>1, SumEmpty DEF SeqTotal

LEMMA SeqTotalOne ==
  ASSUME NEW v, NEW x, v[x] \in Int
  PROVE  SeqTotal(v, <<x>>) = v[x]
<1>. DEFINE f == [n \in {1} |-> v[<<x>>[n]]]
<1>1. Len(<<x>>) = 1 /\ 1 .. 1 = {1} /\ f[1] = v[x]
  OBVIOUS
<1>2. SeqTotal(v, <<x>>) = SumFunctionOnSet(f, {1})
  BY <1>1 DEF SeqTotal
<1>3. IsFiniteSet({1}) /\ {1} \ {1} = {}
  BY FS_Singleton
<1>4. \A y \in {1} : f[y] \in Int
  OBVIOUS
<1>. HIDE DEF f
<1>5. SumFunctionOnSet(f, {1}) = f[1] + SumFunctionOnSet(f, {})
  BY <1>3, <1>4, SumRemove
<1>. QED BY <1>1, <1>2, <1>5, SumEmpty

SameOn(f, g, D) == \A x \in D : f[x] = g[x]

Shifted(h, f, l, m) == \A n \in 1 .. m : h[n] = f[l + n]

\* A sum over the numbers up to l + m is one over those up to l and one over
\* those beyond.
LEMMA SumSplit ==
  ASSUME NEW l \in Nat, NEW m \in Nat, NEW k \in Nat, k = l + m,
         NEW f, IntsOn(f, 1 .. k), NEW g, SameOn(g, f, 1 .. l), NEW h, Shifted(h, f, l, m)
  PROVE  SumFunctionOnSet(f, 1 .. k)
           = SumFunctionOnSet(g, 1 .. l) + SumFunctionOnSet(h, 1 .. m)
<1>. DEFINE A == 1 .. l
            B == l + 1 .. l + m
            M == 1 .. m
            to == [n \in M |-> l + n]
<1>0. /\ \A n \in 1 .. k : f[n] \in Int
      /\ \A n \in 1 .. l : g[n] = f[n]
      /\ \A n \in 1 .. m : h[n] = f[l + n]
  BY DEF IntsOn, SameOn, Shifted
<1>1. IsFiniteSet(A) /\ IsFiniteSet(M) /\ IsFiniteSet(B)
  <2>1. l + 1 \in Int /\ l + m \in Int
    OBVIOUS
  <2>. QED BY <2>1, FS_Interval
<1>2. A \cap B = {} /\ 1 .. k = A \union B
  OBVIOUS
<1>3. \A n \in M : to[n] \in B /\ h[n] = f[to[n]]
  BY <1>0
<1>4. \A b \in B : \E n \in M : to[n] = b
  <2>1. \A b \in B : b - l \in M /\ to[b - l] = b
    OBVIOUS
  <2>. HIDE DEF B, M, to
  <2>. QED BY <2>1
<1>5. \A i, j \in M : i # j => to[i] # to[j]
  OBVIOUS
<1>6. to \in [M -> B]
  <2>. HIDE DEF B, M
  <2>. QED BY <1>3
<1>7. (\A n \in A \union B : f[n] \in Int) /\ \A n \in A : f[n] = g[n]
  BY <1>0, <1>2
<1>8. \A n \in B : f[n] \in Int
  BY <1>7
<1>. HIDE DEF A, B, M, to
<1>9. SumFunctionOnSet(f, B) = SumFunctionOnSet(h, M)
  <2>1. Apart(to, M) /\ Reaches(to, M, B) /\ IntsOn(f, B) /\ Along(h, f, to, M)
    BY <1>3, <1>4, <1>5, <1>8 DEF Apart, Reaches, IntsOn, Along
  <2>. QED BY ONLY <1>1, <1>6, <2>1, SumReindex
<1>10. SumFunctionOnSet(f, A) = SumFunctionOnSet(g, A)
  BY ONLY <1>1, <1>7, SumSame
<1>11. SumFunctionOnSet(f, A \union B) = SumFunctionOnSet(f, A) + SumFunctionOnSet(f, B)
  BY ONLY <1>1, <1>2, <1>7, SumUnion
<1>12. SumFunctionOnSet(f, A \union B) = SumFunctionOnSet(g, A) + SumFunctionOnSet(h, M)
  BY ONLY <1>9, <1>10, <1>11
<1>. QED BY <1>2, <1>12 DEF A, M

LEMMA SeqTotalConcat ==
  ASSUME NEW S, NEW v \in [S -> Int], NEW q \in Seq(S), NEW r \in Seq(S)
  PROVE  SeqTotal(v, q \o r) = SeqTotal(v, q) + SeqTotal(v, r)
<1>. DEFINE l == Len(q)
            m == Len(r)
            k == Len(q \o r)
            f == [n \in 1 .. k |-> v[(q \o r)[n]]]
            g == [n \in 1 .. l |-> v[q[n]]]
            h == [n \in 1 .. m |-> v[r[n]]]
<1>1. l \in Nat /\ m \in Nat /\ k \in Nat /\ k = l + m
  OBVIOUS
<1>2. /\ \A n \in 1 .. l : (q \o r)[n] = q[n] /\ q[n] \in S
      /\ \A n \in 1 .. m : (q \o r)[l + n] = r[n] /\ r[n] \in S
      /\ \A n \in 1 .. k : (q \o r)[n] \in S
  OBVIOUS
<1>3. IntsOn(f, 1 .. k)
  BY <1>2 DEF IntsOn
<1>4. SameOn(g, f, 1 .. l)
  <2>1. \A n \in 1 .. l : n \in 1 .. k
    BY <1>1
  <2>. HIDE DEF k, l
  <2>. QED BY <1>2, <2>1 DEF SameOn
<1>5. Shifted(h, f, l, m)
  <2>1. \A n \in 1 .. m : l + n \in 1 .. k
    BY <1>1
  <2>. HIDE DEF k, l, m
  <2>. QED BY <1>2, <2>1 DEF Shifted
<1>6. /\ SeqTotal(v, q \o r) = SumFunctionOnSet(f, 1 .. k)
      /\ SeqTotal(v, q) = SumFunctionOnSet(g, 1 .. l)
      /\ SeqTotal(v, r) = SumFunctionOnSet(h, 1 .. m)
  BY DEF SeqTotal
<1>. HIDE DEF f, g, h, k, l, m
<1>7. SumFunctionOnSet(f, 1 .. k)
        = SumFunctionOnSet(g, 1 .. l) + SumFunctionOnSet(h, 1 .. m)
  BY <1>1, <1>3, <1>4, <1>5, SumSplit
<1>. QED BY <1>6, <1>7

LEMMA SeqTotalAppend ==
  ASSUME NEW S, NEW v \in [S -> Int], NEW q \in Seq(S), NEW x \in S
  PROVE  SeqTotal(v, Append(q, x)) = SeqTotal(v, q) + v[x]
<1>1. Append(q, x) = q \o <<x>> /\ <<x>> \in Seq(S)
  OBVIOUS
<1>2. v[x] \in Int
  OBVIOUS
<1>3. SeqTotal(v, <<x>>) = v[x]
  BY <1>2, SeqTotalOne
<1>. QED BY <1>1, <1>3, SeqTotalConcat

\* A sum over the numbers up to n + 1 adds one value to the sum up to n.
LEMMA SumNext ==
  ASSUME NEW n \in Nat, NEW f, IntsOn(f, 1 .. n + 1)
  PROVE  SumFunctionOnSet(f, 1 .. n + 1) = SumFunctionOnSet(f, 1 .. n) + f[n + 1]
<1>. DEFINE D == 1 .. n + 1
            E == 1 .. n
            m == n + 1
<1>1. IsFiniteSet(D) /\ IsFiniteSet(E) /\ m \in D /\ D \ {m} = E
  <2>1. 1 \in Int /\ n \in Int /\ n + 1 \in Int
    OBVIOUS
  <2>2. IsFiniteSet(D) /\ IsFiniteSet(E)
    BY <2>1, FS_Interval
  <2>3. m \in D /\ \A x \in D : x # m <=> x \in E
    OBVIOUS
  <2>4. \A x \in E : x \in D
    OBVIOUS
  <2>. HIDE DEF D, E, m
  <2>. QED BY <2>2, <2>3, <2>4
<1>2. \A x \in D : f[x] \in Int
  BY DEF IntsOn
<1>. HIDE DEF D, E, m
<1>3. SumFunctionOnSet(f, D) = f[m] + SumFunctionOnSet(f, D \ {m})
  BY <1>1, <1>2, SumRemove
<1>4. f[m] \in Int /\ SumFunctionOnSet(f, E) \in Int
  <2>1. E \in SUBSET D
    BY <1>1
  <2>. QED BY <1>1, <1>2, <2>1, SumInt
<1>5. SumFunctionOnSet(f, D) = SumFunctionOnSet(f, E) + f[m]
  <2>1. D \ {m} = E
    BY <1>1
  <2>2. SumFunctionOnSet(f, D) = f[m] + SumFunctionOnSet(f, E)
    BY ONLY <1>3, <2>1
  <2>. QED BY <1>4, <2>2
<1>. QED BY <1>5 DEF D, E, m

\* Only the i-th of distinct things counts.
LEMMA SumOfOne ==
  ASSUME NEW k \in Nat, NEW f, NEW x \in 1 .. k, \A n \in 1 .. k : n # x => f[n] = 0, f[x] \in Int
  PROVE  SumFunctionOnSet(f, 1 .. k) = f[x]
<1>. DEFINE D == 1 .. k
<1>1. IsFiniteSet(D) /\ IsFiniteSet(D \ {x})
  <2>1. IsFiniteSet(D) /\ D \ {x} \in SUBSET D
    BY FS_Interval
  <2>. HIDE DEF D
  <2>. QED BY <2>1, FS_Subset
<1>2. \A n \in D : f[n] \in Int
  OBVIOUS
<1>3. x \in D /\ \A n \in D \ {x} : f[n] = 0
  OBVIOUS
<1>. HIDE DEF D
<1>4. SumFunctionOnSet(f, D) = f[x] + SumFunctionOnSet(f, D \ {x})
  BY <1>1, <1>2, <1>3, SumRemove
<1>5. SumFunctionOnSet(f, D \ {x}) = 0
  BY <1>1, <1>3, SumZero
<1>6. SumFunctionOnSet(f, D) = f[x]
  BY <1>4, <1>5
<1>. QED BY <1>6 DEF D

\* One positive summand makes a sum of naturals positive.
LEMMA SumPositive ==
  ASSUME NEW S, IsFiniteSet(S), NEW f, \A x \in S : f[x] \in Nat, NEW x \in S, f[x] # 0
  PROVE  SumFunctionOnSet(f, S) > 0
<1>1. IsFiniteSet(S \ {x}) /\ \A y \in S : f[y] \in Int
  BY FS_RemoveElement
<1>2. SumFunctionOnSet(f, S) = f[x] + SumFunctionOnSet(f, S \ {x})
  BY <1>1, SumRemove
<1>3. SumFunctionOnSet(f, S \ {x}) \in Nat
  BY <1>1, SumNat
<1>4. f[x] \in Nat \ {0}
  OBVIOUS
<1>. QED BY <1>2, <1>3, <1>4

\* Different values for every member of a set leave no value out of one no larger.
LEMMA Onto ==
  ASSUME NEW S, IsFiniteSet(S), NEW T, IsFiniteSet(T), Cardinality(S) = Cardinality(T),
         NEW f \in [S -> T], Apart(f, S)
  PROVE  Reaches(f, S, T)
<1>1. f \in Injection(S, T)
  BY DEF Injection, IsInjective, Apart
<1>2. f \in Surjection(S, T)
  BY <1>1, FS_Injection
<1>. QED BY <1>2 DEF Surjection, Reaches

\* w[k] is the part of v that has the key k.
PartsOf(v, w, key, K, L) ==
  \A k \in K, l \in L : w[k][l] = IF key[l] = k THEN v[l] ELSE 0

Keyed(a, key, D, K) == \A i \in D : a[i] \in Int /\ key[i] \in K

TotalsOf(h, p, K, D) == \A k \in K : h[k] = SumFunctionOnSet(p[k], D)

\* SumByKey, with its hypotheses under names that a prover can match.
LEMMA SumByNamedKey ==
  ASSUME NEW D, IsFiniteSet(D), NEW K, IsFiniteSet(K), NEW a, NEW key, Keyed(a, key, D, K),
         NEW p, PartsOf(a, p, key, K, D), NEW h, TotalsOf(h, p, K, D)
  PROVE  SumFunctionOnSet(h, K) = SumFunctionOnSet(a, D)
<1>1. \A i \in D : a[i] \in Int /\ key[i] \in K
  BY DEF Keyed
<1>2. \A k \in K, i \in D : p[k][i] = (IF key[i] = k THEN a[i] ELSE 0)
  BY DEF PartsOf
<1>3. \A k \in K : h[k] = SumFunctionOnSet(p[k], D)
  BY DEF TotalsOf
<1>. QED BY <1>1, <1>2, <1>3, SumByKey

SeqTotals(h, w, K, q) == \A k \in K : h[k] = SeqTotal(w[k], q)

\* A sequence summed up key by key.
LEMMA SeqByKey ==
  ASSUME NEW L, NEW v \in [L -> Int], NEW K, IsFiniteSet(K), NEW key \in [L -> K],
         NEW w, PartsOf(v, w, key, K, L), NEW q \in Seq(L), NEW h, SeqTotals(h, w, K, q)
  PROVE  SumFunctionOnSet(h, K) = SeqTotal(v, q)
<1>. DEFINE D == 1 .. Len(q)
            a == [n \in D |-> v[q[n]]]
            kk == [n \in D |-> key[q[n]]]
            p == [k \in K |-> [n \in D |-> w[k][q[n]]]]
<1>1. IsFiniteSet(D)
  BY FS_Interval
<1>2. \A n \in D : q[n] \in L
  OBVIOUS
<1>3. Keyed(a, kk, D, K)
  BY <1>2 DEF Keyed
<1>4. PartsOf(a, p, kk, K, D)
  BY <1>2 DEF PartsOf
<1>5. TotalsOf(h, p, K, D)
  BY DEF SeqTotal, SeqTotals, TotalsOf
<1>6. SeqTotal(v, q) = SumFunctionOnSet(a, D)
  BY DEF SeqTotal
<1>. HIDE DEF D, a, kk, p
<1>7. SumFunctionOnSet(h, K) = SumFunctionOnSet(a, D)
  <2>. QED BY ONLY <1>1, <1>3, <1>4, <1>5, IsFiniteSet(K), SumByNamedKey
<1>. QED BY <1>6, <1>7

-----------------------------------------------------------------------------
(* Flattened sequences, and sets listed as sequences.                       *)

\* FlattenSeq is a run of concatenations.
LEMMA FlattenRun ==
  ASSUME NEW S, NEW ss \in Seq(Seq(S))
  PROVE  \E f \in [0 .. Len(ss) -> Seq(S)] :
           /\ f[0] = <<>> /\ FlattenSeq(ss) = f[Len(ss)]
           /\ \A n \in 1 .. Len(ss) : f[n] = f[n - 1] \o ss[n]
<1>1. Len(ss) \in Nat /\ \A n \in 1 .. Len(ss) : ss[n] \in Seq(S)
  OBVIOUS
<1>. PICK N \in Nat : N = Len(ss)
  BY <1>1
<1>. DEFINE Q == Seq(S)
            F == [n \in 1 .. N |-> [s \in Q |-> s \o ss[n]]]
<1>2. <<>> \in Q /\ StaysIn(F, N, Q)
  <2>1. ASSUME NEW n \in 1 .. N, NEW s \in Q  PROVE F[n][s] \in Q
    <3>1. s \o ss[n] \in Seq(S)
      BY <1>1
    <3>. QED BY <3>1
  <2>2. <<>> \in Q
    OBVIOUS
  <2>. HIDE DEF Q, F
  <2>. QED BY <2>1, <2>2 DEF StaysIn
<1>3. \E f \in [0 .. N -> Q] : Iterates(f, <<>>, F, N)
  <2>. HIDE DEF Q, F
  <2>. QED BY <1>2, Recursion
<1>. PICK f \in [0 .. N -> Q] : Iterates(f, <<>>, F, N)
  BY <1>3
<1>4. f[0] = <<>>
  BY DEF Iterates
<1>5. \A n \in 1 .. N : f[n] = f[n - 1] \o ss[n] /\ f[n - 1] \in Q /\ f[n] \in Q
  <2>. TAKE n \in 1 .. N
  <2>1. n - 1 \in 0 .. N /\ n \in 0 .. N
    OBVIOUS
  <2>2. f[n - 1] \in Q /\ f[n] \in Q
    <3>. HIDE DEF Q
    <3>. QED BY <2>1
  <2>3. f[n] = F[n][f[n - 1]]
    BY DEF Iterates
  <2>. QED BY <2>2, <2>3
<1>6. CASE N = 0
  <2>1. FlattenSeq(ss) = ss
    BY <1>6 DEF FlattenSeq
  <2>2. ss = <<>>
    <3>. HIDE DEF Q
    <3>1. ss \in Seq(Q) /\ Len(ss) = 0
      BY <1>6 DEF Q
    <3>. QED BY ONLY <3>1
  <2>. QED BY <1>4, <1>6, <2>1, <2>2
<1>7. CASE N # 0
  <2>. DEFINE Is(g) == g = [i \in 1 .. N |-> IF i = 1 THEN ss[i] ELSE g[i - 1] \o ss[i]]
              h == [i \in 1 .. N |-> f[i]]
  <2>1. f[1] = ss[1]
    <3>1. 1 \in 1 .. N /\ f[0] = <<>> /\ 1 - 1 = 0
      BY <1>4, <1>7
    <3>2. f[1] = f[0] \o ss[1]
      BY <1>5, <3>1
    <3>3. ss[1] \in Seq(S)
      BY <1>1, <3>1
    <3>. QED BY <3>1, <3>2, <3>3
  <2>2. ASSUME NEW i \in 1 .. N
        PROVE  h[i] = IF i = 1 THEN ss[i] ELSE h[i - 1] \o ss[i]
    <3>1. i # 1 => i - 1 \in 1 .. N /\ h[i - 1] = f[i - 1]
      OBVIOUS
    <3>. QED BY <1>5, <2>1, <3>1
  <2>3. Is(h)
    <3>. DEFINE r == [i \in 1 .. N |-> IF i = 1 THEN ss[i] ELSE h[i - 1] \o ss[i]]
    <3>1. h = [i \in 1 .. N |-> h[i]] /\ \A i \in 1 .. N : h[i] = r[i]
      BY <2>2
    <3>2. h = r
      BY <3>1
    <3>. QED BY <3>2
  <2>. DEFINE g == CHOOSE g : Is(g)
  <2>4. Is(g)
    <3>. HIDE DEF Is
    <3>. QED BY <2>3
  <2>. HIDE DEF h
  <2>5. \A i \in 1 .. N : g[i] = IF i = 1 THEN ss[i] ELSE g[i - 1] \o ss[i]
    <3>. HIDE DEF g
    <3>. QED BY <2>4
  <2>6. FlattenSeq(ss) = g[N]
    BY <1>7 DEF FlattenSeq
  <2>. HIDE DEF g, Is
  <2>. DEFINE G == {n \in 0 .. N : n # 0 => g[n] = f[n]}
  <2>7. 0 \in G
    OBVIOUS
  <2>8. ASSUME NEW n \in 0 .. N - 1, n \in G  PROVE n + 1 \in G
    <3>1. n + 1 \in 1 .. N /\ (n + 1) - 1 = n /\ (n + 1 = 1 <=> n = 0)
      OBVIOUS
    <3>2. CASE n = 0
      BY <2>1, <2>5, <3>1, <3>2
    <3>3. CASE n # 0
      <4>1. g[n] = f[n]
        BY <2>8, <3>3
      <4>. PICK m \in 1 .. N : m = n + 1
        BY <3>1
      <4>2. m - 1 = n /\ m # 1
        BY <3>1, <3>3
      <4>3. g[m] = g[n] \o ss[m]
        BY <2>5, <4>2
      <4>4. f[m] = f[n] \o ss[m]
        BY <1>5, <4>2
      <4>5. g[n + 1] = f[n + 1]
        BY <4>1, <4>3, <4>4
      <4>. QED BY <3>1, <4>5
    <3>. QED BY <3>2, <3>3
  <2>9. \A n \in 0 .. N : n \in G
    <3>. HIDE DEF G
    <3>. QED BY <2>7, <2>8, CountUp
  <2>10. g[N] = f[N]
    BY <1>7, <2>9
  <2>. QED BY <1>4, <1>5, <2>6, <2>10
<1>. QED BY <1>6, <1>7

\* The sum over a flattened sequence is that of the sums over its parts.
THEOREM SeqTotalFlatten ==
  ASSUME NEW S, NEW v \in [S -> Int], NEW ss \in Seq(Seq(S))
  PROVE  /\ FlattenSeq(ss) \in Seq(S)
         /\ SeqTotal(v, FlattenSeq(ss))
              = SumFunctionOnSet([n \in 1 .. Len(ss) |-> SeqTotal(v, ss[n])], 1 .. Len(ss))
<1>1. Len(ss) \in Nat /\ \A n \in 1 .. Len(ss) : ss[n] \in Seq(S)
  OBVIOUS
<1>2. PICK f \in [0 .. Len(ss) -> Seq(S)] :
        /\ f[0] = <<>> /\ FlattenSeq(ss) = f[Len(ss)]
        /\ \A n \in 1 .. Len(ss) : f[n] = f[n - 1] \o ss[n]
  BY FlattenRun
<1>. PICK N \in Nat : N = Len(ss)
  BY <1>1
<1>. DEFINE t == [n \in 1 .. N |-> SeqTotal(v, ss[n])]
            G == {n \in 0 .. N : SeqTotal(v, f[n]) = SumFunctionOnSet(t, 1 .. n)}
<1>3. \A n \in 0 .. N : f[n] \in Seq(S)
  OBVIOUS
<1>4. \A n \in 1 .. N : t[n] \in Int /\ t[n] = SeqTotal(v, ss[n])
  BY <1>1, SeqTotalInt
<1>5. 0 \in G
  <2>1. 1 .. 0 = {}
    OBVIOUS
  <2>. HIDE DEF t
  <2>. QED BY <1>2, <2>1, SeqTotalEmpty, SumEmpty
<1>6. ASSUME NEW n \in 0 .. N - 1, n \in G  PROVE n + 1 \in G
  <2>. PICK m \in 1 .. N : m = n + 1
    OBVIOUS
  <2>1. n \in Nat /\ n \in 0 .. N /\ m - 1 = n /\ m \in 0 .. N
    OBVIOUS
  <2>2. f[m] = f[n] \o ss[m] /\ f[n] \in Seq(S) /\ ss[m] \in Seq(S)
    BY <1>1, <1>2, <1>3, <2>1
  <2>3. SeqTotal(v, f[m]) = SeqTotal(v, f[n]) + SeqTotal(v, ss[m])
    BY <2>2, SeqTotalConcat
  <2>4. IntsOn(t, 1 .. n + 1)
    <3>1. \A x \in 1 .. n + 1 : x \in 1 .. N
      OBVIOUS
    <3>. HIDE DEF t
    <3>. QED BY <1>4, <3>1 DEF IntsOn
  <2>. HIDE DEF t
  <2>5. SumFunctionOnSet(t, 1 .. n + 1) = SumFunctionOnSet(t, 1 .. n) + t[n + 1]
    BY <2>1, <2>4, SumNext
  <2>6. t[m] = SeqTotal(v, ss[m])
    BY <1>4
  <2>7. SeqTotal(v, f[n]) = SumFunctionOnSet(t, 1 .. n)
    BY <1>6
  <2>8. SeqTotal(v, f[m]) = SumFunctionOnSet(t, 1 .. m)
    BY <2>3, <2>5, <2>6, <2>7
  <2>9. m \in G
    BY <2>1, <2>8
  <2>. QED BY <2>9
<1>7. \A n \in 0 .. N : n \in G
  <2>. HIDE DEF G
  <2>. QED BY <1>5, <1>6, CountUp
<1>8. N \in 0 .. N
  OBVIOUS
<1>9. SeqTotal(v, f[N]) = SumFunctionOnSet(t, 1 .. N) /\ f[N] \in Seq(S)
  BY <1>3, <1>7, <1>8
<1>. QED BY <1>2, <1>9

\* SetToSeq lists every member of a finite set once.
LEMMA SetToSeqLists ==
  ASSUME NEW S, IsFiniteSet(S)
  PROVE  /\ SetToSeq(S) \in Seq(S)
         /\ Cardinality(S) \in Nat /\ Len(SetToSeq(S)) = Cardinality(S)
         /\ SetToSeq(S) \in [1 .. Cardinality(S) -> S]
         /\ \A m, n \in 1 .. Cardinality(S) : m # n => SetToSeq(S)[m] # SetToSeq(S)[n]
         /\ \A x \in S : \E n \in 1 .. Cardinality(S) : SetToSeq(S)[n] = x
<1>. DEFINE q == SetToSeq(S)
<1>1. Cardinality(S) \in Nat /\ ExistsBijection(1..Cardinality(S), S)
  BY FS_CardinalityType
<1>2. q \in [1..Cardinality(S) -> S] /\ IsInjective(q)
  <2>1. \E f \in [1..Cardinality(S) -> S] : IsInjective(f)
    BY <1>1 DEF ExistsBijection, Bijection, Injection
  <2>. QED BY <2>1 DEF SetToSeq
<1>. HIDE DEF q
<1>. PICK k \in Nat : k = Cardinality(S)
  BY <1>1
<1>3. q \in Seq(S) /\ Len(q) = k
  BY <1>2
<1>4. \A m, n \in 1 .. k : m # n => q[m] # q[n]
  BY <1>2 DEF IsInjective
<1>5. \A x \in S : \E n \in 1 .. k : q[n] = x
  <2>. DEFINE D == 1 .. k
  <2>1. IsFiniteSet(D) /\ Cardinality(D) = k
    BY FS_Interval
  <2>. HIDE DEF D
  <2>2. q \in [D -> S] /\ Apart(q, D)
    BY <1>2, <1>4 DEF Apart, D
  <2>3. Reaches(q, D, S)
    BY <2>1, <2>2, Onto
  <2>. QED BY <2>3 DEF D, Reaches
<1>. QED BY <1>2, <1>3, <1>4, <1>5 DEF q

-----------------------------------------------------------------------------
(* minimal_settlement, for any net positions.                               *)

\* Of finitely many positions one is no larger than the others.
LEMMA SmallestSize ==
  ASSUME NEW S, IsFiniteSet(S), S # {}, NEW net, \A p \in S : net[p] \in Int
  PROVE  \E p \in S : \A q \in S : Size(net[p]) <= Size(net[q])
<1>. DEFINE sz == [p \in S |-> Size(net[p])]
            Z == {sz[p] : p \in S}
<1>1. \A p \in S : sz[p] \in Nat
  BY DEF Size
<1>2. IsFiniteSet(Z)
  <2>. HIDE DEF sz
  <2>1. sz \in Surjection(S, Z)
    <3>1. sz \in [S -> Z]
      BY DEF sz
    <3>2. \A z \in Z : \E p \in S : sz[p] = z
      OBVIOUS
    <3>. HIDE DEF Z
    <3>. QED BY <3>1, <3>2 DEF Surjection
  <2>. QED BY <2>1, FS_Surjection
<1>3. Z \subseteq Nat /\ Z # {}
  <2>. HIDE DEF sz
  <2>. QED BY <1>1
<1>4. PICK z \in Z : \A y \in Z : z <= y
  <2>. HIDE DEF Z
  <2>. QED BY <1>2, <1>3, FirstOf
<1>5. PICK p \in S : z = sz[p]
  <2>. HIDE DEF sz
  <2>. QED OBVIOUS
<1>6. \A q \in S : sz[p] <= sz[q]
  <2>. HIDE DEF sz
  <2>. QED BY <1>4, <1>5
<1>. QED BY <1>6

\* q lists the members of S once each, by falling size.
Lists(q, S, net) ==
  /\ q \in [1 .. Cardinality(S) -> S]
  /\ \A m, n \in 1 .. Cardinality(S) :
       m < n => q[m] # q[n] /\ Size(net[q[m]]) >= Size(net[q[n]])

LEMMA ListExists ==
  ASSUME NEW S, IsFiniteSet(S), NEW net, \A p \in S : net[p] \in Int
  PROVE  \E q : Lists(q, S, net)
<1>. DEFINE B == {T \in SUBSET S : ~ \E q : Lists(q, T, net)}
<1>. SUFFICES ASSUME B # {} PROVE FALSE
  OBVIOUS
<1>1. PICK T \in B : /\ IsFiniteSet(T) /\ T \in SUBSET S
                     /\ \A x \in T : T \ {x} \in SUBSET S /\ T \ {x} \notin B
  <2>1. B \in SUBSET (SUBSET S)
    OBVIOUS
  <2>. HIDE DEF B
  <2>. QED BY <2>1, SmallestBad
<1>2. ~ \E q : Lists(q, T, net)
  OBVIOUS
<1>3. T # {}
  <2>1. ASSUME T = {} PROVE FALSE
    <3>1. Cardinality(T) = 0
      BY <2>1, FS_EmptySet
    <3>2. 1 .. 0 = {} /\ [x \in {} |-> x] \in [{} -> {}]
      OBVIOUS
    <3>3. Lists([x \in {} |-> x], T, net)
      BY <2>1, <3>1, <3>2 DEF Lists
    <3>. QED BY <1>2, <3>3
  <2>. QED BY <2>1
<1>4. PICK x \in T : \A y \in T : Size(net[x]) <= Size(net[y])
  BY <1>1, <1>3, SmallestSize
<1>. DEFINE U == T \ {x}
<1>5. PICK q : Lists(q, U, net)
  <2>. HIDE DEF U
  <2>1. U \in SUBSET S /\ U \notin B
    BY <1>1 DEF U
  <2>. QED BY <2>1
<1>6. IsFiniteSet(U) /\ Cardinality(U) \in Nat /\ Cardinality(T) = Cardinality(U) + 1
  <2>1. IsFiniteSet(U) /\ Cardinality(U) = Cardinality(T) - 1 /\ Cardinality(T) \in Nat
    BY <1>1, FS_RemoveElement, FS_CardinalityType
  <2>2. Cardinality(U) \in Nat
    BY <2>1, FS_CardinalityType
  <2>. QED BY <2>1, <2>2
<1>. PICK k \in Nat : k = Cardinality(U)
  BY <1>6
<1>7. Cardinality(T) = k + 1
  BY <1>6
<1>8. /\ \A n \in 1 .. k : q[n] \in U
      /\ \A m, n \in 1 .. k : m < n => q[m] # q[n] /\ Size(net[q[m]]) >= Size(net[q[n]])
  BY <1>5 DEF Lists
<1>. DEFINE r == [n \in 1 .. k + 1 |-> IF n = k + 1 THEN x ELSE q[n]]
<1>9. \A n \in 1 .. k + 1 : n = k + 1 \/ n \in 1 .. k
  OBVIOUS
<1>10. r \in [1 .. k + 1 -> T]
  <2>. HIDE DEF U
  <2>. QED BY <1>8, <1>9 DEF U
<1>11. ASSUME NEW m \in 1 .. k + 1, NEW n \in 1 .. k + 1, m < n
       PROVE  r[m] # r[n] /\ Size(net[r[m]]) >= Size(net[r[n]])
  <2>1. m \in 1 .. k /\ r[m] = q[m] /\ m # k + 1
    BY <1>11
  <2>2. CASE n = k + 1
    <3>1. r[n] = x /\ q[m] \in U
      BY <1>8, <2>1, <2>2
    <3>2. q[m] \in T /\ q[m] # x
      BY <3>1
    <3>3. net[x] \in Int /\ net[q[m]] \in Int
      BY <1>1, <3>2
    <3>4. Size(net[x]) <= Size(net[q[m]])
      BY <1>4, <3>2
    <3>. HIDE DEF r
    <3>. QED BY <2>1, <3>1, <3>2, <3>3, <3>4 DEF Size
  <2>3. CASE n # k + 1
    <3>1. n \in 1 .. k /\ r[n] = q[n]
      BY <1>9, <2>3
    <3>. QED BY <1>8, <1>11, <2>1, <3>1
  <2>. QED BY <2>2, <2>3
<1>12. Lists(r, T, net)
  <2>. HIDE DEF r
  <2>. QED BY <1>7, <1>10, <1>11 DEF Lists
<1>. HIDE DEF r, B, U
<1>. QED BY <1>2, <1>12

\* LargestFirst lists every party once, the largest first.
LEMMA LargestFirstLists ==
  ASSUME NEW S, IsFiniteSet(S), NEW net, \A p \in S : net[p] \in Int
  PROVE  /\ Lists(LargestFirst(S, net), S, net)
         /\ LargestFirst(S, net) \in Seq(S)
         /\ Len(LargestFirst(S, net)) = Cardinality(S)
         /\ \A m, n \in 1 .. Cardinality(S) :
              m # n => LargestFirst(S, net)[m] # LargestFirst(S, net)[n]
         /\ \A p \in S : \E n \in 1 .. Cardinality(S) : LargestFirst(S, net)[n] = p
<1>. DEFINE q == LargestFirst(S, net)
<1>1. Lists(q, S, net)
  <2>1. PICK r : Lists(r, S, net)
    BY ListExists
  <2>2. r \in [1 .. Cardinality(S) -> S]
    BY <2>1 DEF Lists
  <2>. QED BY <2>1, <2>2 DEF LargestFirst, Lists
<1>. PICK k \in Nat : k = Cardinality(S)
  BY FS_CardinalityType
<1>. HIDE DEF q
<1>2. q \in [1 .. k -> S] /\ \A m, n \in 1 .. k : m < n => q[m] # q[n]
  BY <1>1 DEF Lists
<1>3. q \in Seq(S) /\ Len(q) = k
  BY <1>2
<1>4. \A m, n \in 1 .. k : m # n => q[m] # q[n]
  <2>1. \A m, n \in 1 .. k : m # n => m < n \/ n < m
    OBVIOUS
  <2>. QED BY <1>2, <2>1
<1>5. \A p \in S : \E n \in 1 .. k : q[n] = p
  <2>. DEFINE D == 1 .. k
  <2>1. IsFiniteSet(D) /\ Cardinality(D) = k
    BY FS_Interval
  <2>. HIDE DEF D
  <2>2. q \in [D -> S] /\ Apart(q, D)
    BY <1>2, <1>4 DEF Apart, D
  <2>3. Reaches(q, D, S)
    BY <2>1, <2>2, Onto
  <2>. QED BY <2>3 DEF D, Reaches
<1>. QED BY <1>1, <1>3, <1>4, <1>5 DEF q

\* One side of the matching: the parties in q before the x-th are settled, the
\* x-th has rest to go, and v[p] is what a leg settles for p.
SideInv(q, net, v, x, rest, legs) ==
  /\ x \in 1 .. Len(q) + 1
  /\ IF x <= Len(q) THEN rest \in 1 .. Owed(q, net, x) ELSE rest = 0
  /\ \A k \in 1 .. Len(q) :
       SeqTotal(v[q[k]], legs) = IF k < x THEN Owed(q, net, k)
                                 ELSE IF k = x THEN Owed(q, net, k) - rest ELSE 0

\* What v has to be for the parties of q, and what q owes.
Side(q, net, v, L) ==
  /\ Len(q) \in Nat
  /\ \A k \in 1 .. Len(q) : v[q[k]] \in [L -> Int] /\ Owed(q, net, k) \in Nat \ {0}
  /\ Owed(q, net, Len(q) + 1) = 0

\* Of the parties in q a leg settles amount for the x-th and nothing for the others.
Touches(q, v, leg, x, amount) ==
  \A k \in 1 .. Len(q) : v[q[k]][leg] = IF k = x THEN amount ELSE 0

\* A leg for the x-th party of a side keeps the account of that side.
LEMMA SideStep ==
  ASSUME NEW q, NEW net, NEW v, NEW L, Side(q, net, v, L),
         NEW x, NEW rest, NEW legs \in Seq(L), SideInv(q, net, v, x, rest, legs), x <= Len(q),
         NEW leg \in L, NEW amount \in 1 .. rest,
         Touches(q, v, leg, x, amount),
         NEW y, y = (IF rest = amount THEN x + 1 ELSE x),
         NEW more, more = (IF y = x THEN rest - amount ELSE Owed(q, net, y))
  PROVE  SideInv(q, net, v, y, more, Append(legs, leg))
<1>. PICK n \in Nat : n = Len(q)
  BY DEF Side
<1>1. /\ x \in 1 .. n /\ rest \in 1 .. Owed(q, net, x) /\ rest \in Nat
      /\ \A k \in 1 .. n : Owed(q, net, k) \in Nat \ {0}
      /\ Owed(q, net, n + 1) = 0
  BY DEF SideInv, Side
<1>2. y \in 1 .. n + 1
  BY <1>1
<1>3. IF y <= n THEN more \in 1 .. Owed(q, net, y) ELSE more = 0
  <2>1. CASE rest = amount /\ x = n
    BY <1>1, <2>1
  <2>2. CASE rest = amount /\ x # n
    <3>1. y = x + 1 /\ y \in 1 .. n /\ y # x
      BY <1>1, <2>2
    <3>2. more = Owed(q, net, y) /\ Owed(q, net, y) \in Nat \ {0}
      BY <1>1, <3>1
    <3>. QED BY <3>1, <3>2
  <2>3. CASE rest # amount
    <3>1. y = x /\ more = rest - amount
      BY <2>3
    <3>2. Owed(q, net, x) \in Nat
      BY <1>1
    <3>. QED BY <1>1, <2>3, <3>1, <3>2
  <2>. QED BY <2>1, <2>2, <2>3
<1>4. ASSUME NEW k \in 1 .. n
      PROVE  SeqTotal(v[q[k]], Append(legs, leg))
               = IF k < y THEN Owed(q, net, k)
                 ELSE IF k = y THEN Owed(q, net, k) - more ELSE 0
  <2>1. v[q[k]] \in [L -> Int]
    BY DEF Side
  <2>2. SeqTotal(v[q[k]], Append(legs, leg)) = SeqTotal(v[q[k]], legs) + v[q[k]][leg]
    BY <2>1, SeqTotalAppend
  <2>3. v[q[k]][leg] = IF k = x THEN amount ELSE 0
    BY DEF Touches
  <2>4. SeqTotal(v[q[k]], legs) = IF k < x THEN Owed(q, net, k)
                                  ELSE IF k = x THEN Owed(q, net, k) - rest ELSE 0
    BY DEF SideInv
  <2>. DEFINE t == SeqTotal(v[q[k]], legs)
              u == SeqTotal(v[q[k]], Append(legs, leg))
              o == Owed(q, net, k)
              w == v[q[k]][leg]
  <2>5. o \in Nat
    BY <1>1
  <2>6. k # x /\ y # x => (k < x <=> k < y) \/ k = y
    BY <1>1
  <2>7. k = y /\ y # x => more = o
    OBVIOUS
  <2>. HIDE DEF t, u, o, w
  <2>8. /\ u = t + w
        /\ w = IF k = x THEN amount ELSE 0
        /\ t = IF k < x THEN o ELSE IF k = x THEN o - rest ELSE 0
    BY <2>2, <2>3, <2>4 DEF t, u, o, w
  <2>9. u = IF k < y THEN o ELSE IF k = y THEN o - more ELSE 0
    <3>1. CASE k < x
      BY <1>1, <2>5, <2>8, <3>1
    <3>2. CASE k = x
      <4>1. x \in Nat /\ rest \in Nat /\ amount \in Nat /\ u = o - rest + amount
        BY <1>1, <2>5, <2>8, <3>2
      <4>2. CASE rest = amount
        BY <2>5, <3>2, <4>1, <4>2
      <4>3. CASE rest # amount
        BY <2>5, <3>2, <4>1, <4>3
      <4>. QED BY <4>2, <4>3
    <3>3. CASE k > x
      BY <1>1, <2>5, <2>7, <2>8, <3>3
    <3>. QED BY <1>1, <3>1, <3>2, <3>3
  <2>. QED BY <2>9 DEF u, o
<1>. QED BY <1>2, <1>3, <1>4 DEF SideInv

PayersOf(net) == LargestFirst(Payers(net), net)

ReceiversOf(net) == LargestFirst(Receivers(net), net)

MatchLeg(net) == [sender: Payers(net), receiver: Receivers(net), amount: Nat \ {0}]

\* What a leg takes from and brings to each party.
Paid(net) ==
  [p \in DOMAIN net |-> [l \in MatchLeg(net) |-> IF l.sender = p THEN l.amount ELSE 0]]

Got(net) ==
  [p \in DOMAIN net |-> [l \in MatchLeg(net) |-> IF l.receiver = p THEN l.amount ELSE 0]]

\* The accounts of both sides after some legs.
MatchInv(net, s) ==
  /\ SideInv(PayersOf(net), net, Paid(net), s.i, s.pay, s.legs)
  /\ SideInv(ReceiversOf(net), net, Got(net), s.j, s.due, s.legs)

MatchStates(net) ==
  {s \in [i: Nat, j: Nat, pay: Nat, due: Nat, legs: Seq(MatchLeg(net))] : MatchInv(net, s)}

MatchInit(net) ==
  [i |-> 1, j |-> 1, pay |-> Owed(PayersOf(net), net, 1),
   due |-> Owed(ReceiversOf(net), net, 1), legs |-> <<>>]

Positions(net) == IsFiniteSet(DOMAIN net) /\ \A p \in DOMAIN net : net[p] \in Int

\* Payers and receivers are such sides.
LEMMA SidesAre ==
  ASSUME NEW net, Positions(net)
  PROVE  /\ Side(PayersOf(net), net, Paid(net), MatchLeg(net))
         /\ Side(ReceiversOf(net), net, Got(net), MatchLeg(net))
         /\ \A k \in 1 .. Len(PayersOf(net)) : PayersOf(net)[k] \in Payers(net)
         /\ \A k \in 1 .. Len(ReceiversOf(net)) : ReceiversOf(net)[k] \in Receivers(net)
         /\ \A k, m \in 1 .. Len(PayersOf(net)) : k # m => PayersOf(net)[k] # PayersOf(net)[m]
         /\ \A k, m \in 1 .. Len(ReceiversOf(net)) :
              k # m => ReceiversOf(net)[k] # ReceiversOf(net)[m]
<1>1. /\ IsFiniteSet(Payers(net)) /\ \A p \in Payers(net) : p \in DOMAIN net /\ net[p] \in Int
      /\ IsFiniteSet(Receivers(net))
      /\ \A p \in Receivers(net) : p \in DOMAIN net /\ net[p] \in Int
  BY FS_Subset DEF Positions, Payers, Receivers
<1>2. /\ PayersOf(net) \in Seq(Payers(net)) /\ Len(PayersOf(net)) = Cardinality(Payers(net))
      /\ \A k, m \in 1 .. Len(PayersOf(net)) : k # m => PayersOf(net)[k] # PayersOf(net)[m]
  BY <1>1, LargestFirstLists DEF PayersOf
<1>3. /\ ReceiversOf(net) \in Seq(Receivers(net))
      /\ Len(ReceiversOf(net)) = Cardinality(Receivers(net))
      /\ \A k, m \in 1 .. Len(ReceiversOf(net)) :
           k # m => ReceiversOf(net)[k] # ReceiversOf(net)[m]
  BY <1>1, LargestFirstLists DEF ReceiversOf
<1>4. /\ Len(PayersOf(net)) \in Nat
      /\ \A k \in 1 .. Len(PayersOf(net)) : PayersOf(net)[k] \in Payers(net)
  <2>. DEFINE T == Payers(net)
              q == PayersOf(net)
  <2>1. q \in Seq(T)
    BY <1>2
  <2>. HIDE DEF T, q
  <2>2. Len(q) \in Nat /\ \A k \in 1 .. Len(q) : q[k] \in T
    BY <2>1
  <2>. QED BY <2>2 DEF T, q
<1>5. /\ Len(ReceiversOf(net)) \in Nat
      /\ \A k \in 1 .. Len(ReceiversOf(net)) : ReceiversOf(net)[k] \in Receivers(net)
  <2>. DEFINE T == Receivers(net)
              q == ReceiversOf(net)
  <2>1. q \in Seq(T)
    BY <1>3
  <2>. HIDE DEF T, q
  <2>2. Len(q) \in Nat /\ \A k \in 1 .. Len(q) : q[k] \in T
    BY <2>1
  <2>. QED BY <2>2 DEF T, q
<1>6. \A l \in MatchLeg(net) : l.amount \in Int
  BY DEF MatchLeg
<1>7. ASSUME NEW p \in DOMAIN net
      PROVE  Paid(net)[p] \in [MatchLeg(net) -> Int] /\ Got(net)[p] \in [MatchLeg(net) -> Int]
  <2>. DEFINE L == MatchLeg(net)
  <2>1. \A l \in L : l.amount \in Int
    BY <1>6
  <2>. HIDE DEF L
  <2>2. /\ [l \in L |-> IF l.sender = p THEN l.amount ELSE 0] \in [L -> Int]
        /\ [l \in L |-> IF l.receiver = p THEN l.amount ELSE 0] \in [L -> Int]
    BY <2>1
  <2>. QED BY <2>2 DEF L, Paid, Got
<1>8. \A p \in Payers(net) \union Receivers(net) : net[p] \in Int /\ Size(net[p]) \in Nat \ {0}
  BY <1>1 DEF Payers, Receivers, Size
<1>9. Side(PayersOf(net), net, Paid(net), MatchLeg(net))
  BY <1>1, <1>4, <1>7, <1>8 DEF Side, Owed
<1>10. Side(ReceiversOf(net), net, Got(net), MatchLeg(net))
  BY <1>1, <1>5, <1>7, <1>8 DEF Side, Owed
<1>. QED BY <1>2, <1>3, <1>4, <1>5, <1>9, <1>10

LEMMA SideInit ==
  ASSUME NEW q, NEW net, NEW v, NEW L, Side(q, net, v, L)
  PROVE  SideInv(q, net, v, 1, Owed(q, net, 1), <<>>) /\ Owed(q, net, 1) \in Nat
<1>. PICK n \in Nat : n = Len(q)
  BY DEF Side
<1>1. \A k \in 1 .. n : Owed(q, net, k) \in Nat \ {0}
  BY DEF Side
<1>2. Owed(q, net, n + 1) = 0
  BY DEF Side
<1>3. \A k \in 1 .. n : SeqTotal(v[q[k]], <<>>) = 0
  BY SeqTotalEmpty
<1>4. /\ 1 \in 1 .. n + 1
      /\ IF 1 <= n THEN Owed(q, net, 1) \in 1 .. Owed(q, net, 1) ELSE Owed(q, net, 1) = 0
      /\ Owed(q, net, 1) \in Nat
  BY <1>1, <1>2
<1>5. \A k \in 1 .. n :
        0 = IF k < 1 THEN Owed(q, net, k)
            ELSE IF k = 1 THEN Owed(q, net, k) - Owed(q, net, 1) ELSE 0
  BY <1>1
<1>. QED BY <1>3, <1>4, <1>5 DEF SideInv

LEMMA MatchStarts ==
  ASSUME NEW net, Positions(net)
  PROVE  MatchInit(net) \in MatchStates(net)
<1>. DEFINE s == MatchInit(net)
<1>1. /\ s.i = 1 /\ s.j = 1 /\ s.legs = <<>>
      /\ s.pay = Owed(PayersOf(net), net, 1) /\ s.due = Owed(ReceiversOf(net), net, 1)
  BY DEF MatchInit
<1>2. MatchInv(net, s) /\ s.pay \in Nat /\ s.due \in Nat
  <2>1. /\ SideInv(PayersOf(net), net, Paid(net), 1, Owed(PayersOf(net), net, 1), <<>>)
        /\ Owed(PayersOf(net), net, 1) \in Nat
    BY SidesAre, SideInit
  <2>2. /\ SideInv(ReceiversOf(net), net, Got(net), 1, Owed(ReceiversOf(net), net, 1), <<>>)
        /\ Owed(ReceiversOf(net), net, 1) \in Nat
    BY SidesAre, SideInit
  <2>. QED BY <1>1, <2>1, <2>2 DEF MatchInv
<1>3. <<>> \in Seq(MatchLeg(net))
  OBVIOUS
<1>4. s \in [i: Nat, j: Nat, pay: Nat, due: Nat, legs: Seq(MatchLeg(net))]
  BY <1>1, <1>2, <1>3 DEF MatchInit
<1>. QED BY <1>2, <1>4 DEF MatchStates

LEMMA SideTyped ==
  ASSUME NEW q, NEW net, NEW v, NEW L, Side(q, net, v, L),
         NEW x, NEW rest, NEW legs, SideInv(q, net, v, x, rest, legs)
  PROVE  x \in Nat /\ rest \in Nat
<1>. PICK n \in Nat : n = Len(q)
  BY DEF Side
<1>1. x \in 1 .. n + 1 /\ IF x <= n THEN rest \in 1 .. Owed(q, net, x) ELSE rest = 0
  BY DEF SideInv
<1>2. \A k \in 1 .. n : Owed(q, net, k) \in Nat
  BY DEF Side
<1>. QED BY <1>1, <1>2

\* A step of the matching keeps the accounts of both sides and settles somebody.
LEMMA MatchMoves ==
  ASSUME NEW net, Positions(net), NEW s \in MatchStates(net),
         s.i <= Len(PayersOf(net)), s.j <= Len(ReceiversOf(net)),
         NEW t, t = MatchNext(net, PayersOf(net), ReceiversOf(net), s)
  PROVE  t \in MatchStates(net) /\ t.i + t.j > s.i + s.j
<1>. DEFINE P == PayersOf(net)
            R == ReceiversOf(net)
            L == MatchLeg(net)
            amount == Smaller(s.pay, s.due)
            leg == [sender |-> P[s.i], receiver |-> R[s.j], amount |-> amount]
<1>1. /\ s.i \in Nat /\ s.j \in Nat /\ s.pay \in Nat /\ s.due \in Nat /\ s.legs \in Seq(L)
      /\ SideInv(P, net, Paid(net), s.i, s.pay, s.legs)
      /\ SideInv(R, net, Got(net), s.j, s.due, s.legs)
  BY DEF MatchStates, MatchInv
<1>2. /\ Side(P, net, Paid(net), L) /\ Side(R, net, Got(net), L)
      /\ \A k \in 1 .. Len(P) : P[k] \in Payers(net)
      /\ \A k \in 1 .. Len(R) : R[k] \in Receivers(net)
      /\ \A k, m \in 1 .. Len(P) : k # m => P[k] # P[m]
      /\ \A k, m \in 1 .. Len(R) : k # m => R[k] # R[m]
  BY SidesAre
<1>3. s.i \in 1 .. Len(P) /\ s.j \in 1 .. Len(R) /\ Len(P) \in Nat /\ Len(R) \in Nat
  BY <1>1, <1>2 DEF SideInv, Side
<1>4. s.pay # 0 /\ s.due # 0
  BY <1>1, <1>3 DEF SideInv
<1>5. /\ amount \in Nat \ {0} /\ amount \in 1 .. s.pay /\ amount \in 1 .. s.due
      /\ (amount = s.pay <=> s.pay <= s.due) /\ (amount = s.due <=> s.due <= s.pay)
  <2>. DEFINE m == s.pay
              n == s.due
  <2>1. m \in Nat \ {0} /\ n \in Nat \ {0}
    BY <1>1, <1>4
  <2>. HIDE DEF m, n
  <2>2. /\ Smaller(m, n) \in Nat \ {0} /\ Smaller(m, n) \in 1 .. m /\ Smaller(m, n) \in 1 .. n
        /\ (Smaller(m, n) = m <=> m <= n) /\ (Smaller(m, n) = n <=> n <= m)
    BY <2>1 DEF Smaller
  <2>. QED BY <2>2 DEF m, n
<1>. HIDE DEF amount
<1>6. leg \in L /\ leg.sender = P[s.i] /\ leg.receiver = R[s.j] /\ leg.amount = amount
  <2>1. P[s.i] \in Payers(net) /\ R[s.j] \in Receivers(net)
    BY <1>2, <1>3
  <2>. QED BY <1>5, <2>1 DEF MatchLeg
<1>. HIDE DEF leg
<1>7. \A k \in 1 .. Len(P) : Paid(net)[P[k]][leg] = IF k = s.i THEN amount ELSE 0
  <2>. TAKE k \in 1 .. Len(P)
  <2>1. P[k] \in DOMAIN net /\ (P[k] = P[s.i] <=> k = s.i)
    BY <1>2, <1>3 DEF Payers
  <2>2. Paid(net)[P[k]][leg] = IF leg.sender = P[k] THEN leg.amount ELSE 0
    BY <1>6, <2>1 DEF Paid
  <2>. QED BY <1>6, <2>1, <2>2
<1>8. \A k \in 1 .. Len(R) : Got(net)[R[k]][leg] = IF k = s.j THEN amount ELSE 0
  <2>. TAKE k \in 1 .. Len(R)
  <2>1. R[k] \in DOMAIN net /\ (R[k] = R[s.j] <=> k = s.j)
    BY <1>2, <1>3 DEF Receivers
  <2>2. Got(net)[R[k]][leg] = IF leg.receiver = R[k] THEN leg.amount ELSE 0
    BY <1>6, <2>1 DEF Got
  <2>. QED BY <1>6, <2>1, <2>2
<1>9. /\ t.i = (IF s.pay = amount THEN s.i + 1 ELSE s.i)
      /\ t.j = (IF s.due = amount THEN s.j + 1 ELSE s.j)
      /\ t.pay = (IF t.i = s.i THEN s.pay - amount ELSE Owed(P, net, t.i))
      /\ t.due = (IF t.j = s.j THEN s.due - amount ELSE Owed(R, net, t.j))
      /\ t.legs = Append(s.legs, leg)
      /\ t = [i |-> t.i, j |-> t.j, pay |-> t.pay, due |-> t.due, legs |-> t.legs]
  BY <1>5 DEF MatchNext, MoveOn, amount, leg
<1>10. SideInv(P, net, Paid(net), t.i, t.pay, Append(s.legs, leg))
  <2>1. Touches(P, Paid(net), leg, s.i, amount)
    BY <1>7 DEF Touches
  <2>2. s.i <= Len(P) /\ s.legs \in Seq(L) /\ amount \in 1 .. s.pay /\ leg \in L
    BY <1>1, <1>5, <1>6
  <2>. HIDE DEF P, L
  <2>3. SideInv(P, net, Paid(net), s.i, s.pay, s.legs) /\ Side(P, net, Paid(net), L)
    BY <1>1, <1>2
  <2>. QED BY ONLY <1>9, <2>1, <2>2, <2>3, SideStep
<1>11. SideInv(R, net, Got(net), t.j, t.due, Append(s.legs, leg))
  <2>1. Touches(R, Got(net), leg, s.j, amount)
    BY <1>8 DEF Touches
  <2>2. s.j <= Len(R) /\ s.legs \in Seq(L) /\ amount \in 1 .. s.due /\ leg \in L
    BY <1>1, <1>5, <1>6
  <2>. HIDE DEF R, L
  <2>3. SideInv(R, net, Got(net), s.j, s.due, s.legs) /\ Side(R, net, Got(net), L)
    BY <1>1, <1>2
  <2>. QED BY ONLY <1>9, <2>1, <2>2, <2>3, SideStep
<1>12. MatchInv(net, t)
  BY <1>9, <1>10, <1>11 DEF MatchInv
<1>13. t.i \in Nat /\ t.j \in Nat /\ t.pay \in Nat /\ t.due \in Nat
  BY <1>2, <1>10, <1>11, SideTyped
<1>14. t.legs \in Seq(L)
  <2>. HIDE DEF L
  <2>. QED BY <1>1, <1>6, <1>9
<1>15. t \in [i: Nat, j: Nat, pay: Nat, due: Nat, legs: Seq(L)]
  <2>. HIDE DEF L
  <2>. QED BY <1>9, <1>13, <1>14
<1>16. t.i + t.j > s.i + s.j
  <2>1. amount = s.pay \/ amount = s.due
    <3>. DEFINE m == s.pay
                n == s.due
    <3>1. m \in Nat /\ n \in Nat /\ (amount = m <=> m <= n) /\ (amount = n <=> n <= m)
      BY <1>1, <1>5
    <3>. HIDE DEF m, n
    <3>2. amount = m \/ amount = n
      BY <3>1
    <3>. QED BY <3>2 DEF m, n
  <2>. DEFINE i == s.i
              j == s.j
              ti == t.i
              tj == t.j
  <2>2. /\ i \in Nat /\ j \in Nat
        /\ ti = (IF s.pay = amount THEN i + 1 ELSE i)
        /\ tj = (IF s.due = amount THEN j + 1 ELSE j)
    BY <1>1, <1>9
  <2>. HIDE DEF i, j, ti, tj
  <2>3. ti + tj > i + j
    BY ONLY <2>1, <2>2
  <2>. QED BY <2>3 DEF i, j, ti, tj
<1>. QED BY <1>12, <1>15, <1>16 DEF MatchStates

Exhausted(net, s) == s.i > Len(PayersOf(net)) \/ s.j > Len(ReceiversOf(net))

MatchStep(net, s) ==
  IF Exhausted(net, s) THEN s ELSE MatchNext(net, PayersOf(net), ReceiversOf(net), s)

MatchLast(net) == Len(PayersOf(net)) + Len(ReceiversOf(net))

\* g is a run of the matching.
MatchRun(g, net) ==
  g = [n \in 0 .. MatchLast(net) |-> IF n = 0 THEN MatchInit(net) ELSE MatchStep(net, g[n - 1])]

LEMMA MatchStaysIn ==
  ASSUME NEW net, Positions(net), NEW s \in MatchStates(net)
  PROVE  /\ MatchStep(net, s) \in MatchStates(net)
         /\ ~ Exhausted(net, s) => MatchStep(net, s).i + MatchStep(net, s).j > s.i + s.j
<1>1. s.i \in Nat /\ s.j \in Nat /\ Len(PayersOf(net)) \in Nat /\ Len(ReceiversOf(net)) \in Nat
  BY SidesAre DEF MatchStates, Side
<1>2. CASE Exhausted(net, s)
  BY <1>2 DEF MatchStep
<1>3. CASE ~ Exhausted(net, s)
  <2>. DEFINE t == MatchNext(net, PayersOf(net), ReceiversOf(net), s)
  <2>1. MatchStep(net, s) = t
    BY <1>3 DEF MatchStep
  <2>2. s.i <= Len(PayersOf(net)) /\ s.j <= Len(ReceiversOf(net))
    BY <1>1, <1>3 DEF Exhausted
  <2>3. t = MatchNext(net, PayersOf(net), ReceiversOf(net), s)
    OBVIOUS
  <2>. HIDE DEF t
  <2>4. t \in MatchStates(net) /\ t.i + t.j > s.i + s.j
    BY <2>2, <2>3, MatchMoves
  <2>. QED BY <2>1, <2>4
<1>. QED BY <1>2, <1>3

LEMMA MatchRunExists ==
  ASSUME NEW net, Positions(net)
  PROVE  \E g : MatchRun(g, net)
<1>. DEFINE N == MatchLast(net)
            S == MatchStates(net)
            a == MatchInit(net)
            F == [n \in 1 .. N |-> [s \in S |-> MatchStep(net, s)]]
<1>1. N \in Nat
  BY SidesAre DEF Side, MatchLast
<1>2. a \in S
  BY MatchStarts
<1>3. ASSUME NEW n \in 1 .. N, NEW s \in S  PROVE F[n][s] = MatchStep(net, s) /\ F[n][s] \in S
  <2>1. MatchStep(net, s) \in S
    BY MatchStaysIn
  <2>. QED BY <2>1
<1>4. StaysIn(F, N, S)
  BY <1>3 DEF StaysIn
<1>. HIDE DEF F, N, S, a
<1>5. PICK f \in [0 .. N -> S] : Iterates(f, a, F, N)
  BY <1>1, <1>2, <1>4, Recursion
<1>6. ASSUME NEW n \in 0 .. N
      PROVE  f[n] = IF n = 0 THEN a ELSE MatchStep(net, f[n - 1])
  <2>1. CASE n = 0
    BY <1>5, <2>1 DEF Iterates
  <2>2. CASE n # 0
    <3>1. n \in 1 .. N /\ n - 1 \in 0 .. N
      BY <1>1, <2>2
    <3>2. f[n - 1] \in S
      BY <1>5, <3>1
    <3>3. f[n] = F[n][f[n - 1]]
      BY <1>5, <3>1 DEF Iterates
    <3>. QED BY <1>3, <2>2, <3>1, <3>2, <3>3
  <2>. QED BY <2>1, <2>2
<1>7. f = [n \in 0 .. N |-> IF n = 0 THEN a ELSE MatchStep(net, f[n - 1])]
  BY <1>5, <1>6
<1>. QED BY <1>7 DEF MatchRun, N, a

LEMMA MatchIs ==
  ASSUME NEW net
  PROVE  Match(net) = (CHOOSE g : MatchRun(g, net))[MatchLast(net)].legs
BY DEF Match, MatchRun, MatchLast, MatchInit, MatchStep, Exhausted, PayersOf, ReceiversOf

\* A leg settles a party, and the last one a party of each side.
Frugal(net, s) ==
  /\ Len(s.legs) <= s.i + s.j - 2
  /\ s.i > Len(PayersOf(net)) /\ s.j > Len(ReceiversOf(net)) /\ Len(s.legs) > 0
       => Len(s.legs) <= s.i + s.j - 3

LEMMA MatchFrugal ==
  ASSUME NEW net, Positions(net), NEW s \in MatchStates(net), Frugal(net, s)
  PROVE  Frugal(net, MatchStep(net, s))
<1>. DEFINE t == MatchNext(net, PayersOf(net), ReceiversOf(net), s)
            i == s.i
            j == s.j
            p == Len(PayersOf(net))
            r == Len(ReceiversOf(net))
            ti == t.i
            tj == t.j
            m == Len(s.legs)
<1>1. CASE Exhausted(net, s)
  BY <1>1 DEF MatchStep
<1>2. CASE ~ Exhausted(net, s)
  <2>1. /\ i \in Nat /\ j \in Nat /\ p \in Nat /\ r \in Nat /\ m \in Nat
        /\ s.legs \in Seq(MatchLeg(net)) /\ s.pay \in Nat /\ s.due \in Nat
    BY SidesAre DEF MatchStates, Side
  <2>2. i <= p /\ j <= r
    BY <1>2, <2>1 DEF Exhausted
  <2>3. /\ ti = (IF s.pay <= s.due THEN i + 1 ELSE i)
        /\ tj = (IF s.due <= s.pay THEN j + 1 ELSE j)
    BY DEF MatchNext, MoveOn
  <2>4. Len(t.legs) = m + 1
    <3>. DEFINE q == s.legs
                leg == [sender |-> PayersOf(net)[s.i], receiver |-> ReceiversOf(net)[s.j],
                        amount |-> Smaller(s.pay, s.due)]
    <3>1. t.legs = Append(q, leg)
      BY DEF MatchNext
    <3>2. q \in Seq(MatchLeg(net))
      BY <2>1
    <3>. HIDE DEF q, leg, t
    <3>3. Len(Append(q, leg)) = Len(q) + 1
      BY <3>2
    <3>. QED BY <3>1, <3>3 DEF q
  <2>5. /\ m <= i + j - 2
        /\ MatchStep(net, s) = t
    BY <1>2 DEF Frugal, MatchStep
  <2>. DEFINE a == s.pay
              b == s.due
  <2>6. a \in Nat /\ b \in Nat
    BY <2>1
  <2>7. /\ ti = (IF a <= b THEN i + 1 ELSE i)
        /\ tj = (IF b <= a THEN j + 1 ELSE j)
    BY <2>3
  <2>. HIDE DEF i, j, p, r, ti, tj, m, a, b
  <2>8. m + 1 <= ti + tj - 2 /\ (ti > p /\ tj > r => m + 1 <= ti + tj - 3)
    BY ONLY <2>1, <2>2, <2>5, <2>6, <2>7
  <2>. QED BY <2>4, <2>5, <2>8 DEF Frugal, ti, tj, p, r
<1>. QED BY <1>1, <1>2

\* The matching ends with all payers or all receivers settled.
LEMMA MatchEnds ==
  ASSUME NEW net, Positions(net)
  PROVE  \E s \in MatchStates(net) :
           Match(net) = s.legs /\ Exhausted(net, s) /\ Frugal(net, s)
<1>. DEFINE N == MatchLast(net)
            g == CHOOSE h : MatchRun(h, net)
            G == {n \in 0 .. N : g[n] \in MatchStates(net) /\ Frugal(net, g[n])
                                 /\ (Exhausted(net, g[n]) \/ g[n].i + g[n].j >= n + 2)}
<1>1. N \in Nat /\ N = Len(PayersOf(net)) + Len(ReceiversOf(net))
      /\ Len(PayersOf(net)) \in Nat /\ Len(ReceiversOf(net)) \in Nat
  BY SidesAre DEF Side, MatchLast
<1>2. MatchRun(g, net)
  BY MatchRunExists
<1>. HIDE DEF g, N
<1>3. \A n \in 0 .. N : g[n] = IF n = 0 THEN MatchInit(net) ELSE MatchStep(net, g[n - 1])
  BY <1>2 DEF MatchRun, N
<1>4. 0 \in G
  <2>1. g[0] = MatchInit(net)
    BY <1>1, <1>3
  <2>2. g[0] \in MatchStates(net)
    BY <2>1, MatchStarts
  <2>3. g[0].i = 1 /\ g[0].j = 1
    BY <2>1 DEF MatchInit
  <2>4. g[0].i + g[0].j >= 0 + 2
    BY <2>3
  <2>5. 0 \in 0 .. N
    BY <1>1
  <2>6. Frugal(net, g[0])
    <3>1. g[0].legs = <<>>
      BY <2>1 DEF MatchInit
    <3>2. Len(g[0].legs) = 0
      BY <3>1
    <3>. QED BY <2>3, <3>2 DEF Frugal
  <2>. QED BY ONLY <2>2, <2>4, <2>5, <2>6
<1>5. ASSUME NEW n \in 0 .. N - 1, n \in G  PROVE n + 1 \in G
  <2>. DEFINE s == g[n]
              t == g[n + 1]
  <2>1. n + 1 \in 0 .. N /\ n + 1 # 0 /\ (n + 1) - 1 = n
    BY <1>1
  <2>2. t = MatchStep(net, s)
    BY <1>3, <2>1
  <2>3. /\ s \in MatchStates(net) /\ Frugal(net, s)
        /\ Exhausted(net, s) \/ s.i + s.j >= n + 2
    BY <1>5
  <2>4. s.i \in Nat /\ s.j \in Nat
    BY <2>3 DEF MatchStates
  <2>. HIDE DEF s, t
  <2>5. t \in MatchStates(net) /\ (~ Exhausted(net, s) => t.i + t.j > s.i + s.j)
    BY <2>2, <2>3, MatchStaysIn
  <2>6. t.i \in Nat /\ t.j \in Nat
    BY <2>5 DEF MatchStates
  <2>7. Exhausted(net, s) => Exhausted(net, t)
    BY <2>2 DEF MatchStep
  <2>8. Exhausted(net, t) \/ t.i + t.j >= (n + 1) + 2
    BY <2>3, <2>4, <2>5, <2>6, <2>7
  <2>9. Frugal(net, t)
    BY <2>2, <2>3, MatchFrugal
  <2>. QED BY <2>1, <2>5, <2>8, <2>9 DEF t
<1>6. \A n \in 0 .. N : n \in G
  <2>. HIDE DEF G
  <2>. QED BY <1>1, <1>4, <1>5, CountUp
<1>7. N \in G
  BY <1>1, <1>6
<1>. DEFINE s == g[N]
<1>8. /\ s \in MatchStates(net) /\ Frugal(net, s)
      /\ Exhausted(net, s) \/ s.i + s.j >= N + 2
  BY <1>7
<1>9. Match(net) = s.legs
  BY MatchIs DEF g, N
<1>. HIDE DEF s
<1>10. Exhausted(net, s)
  <2>1. s.i \in Nat /\ s.j \in Nat
    BY <1>8 DEF MatchStates
  <2>. DEFINE i == s.i
              j == s.j
              p == Len(PayersOf(net))
              r == Len(ReceiversOf(net))
  <2>2. i \in Nat /\ j \in Nat /\ p \in Nat /\ r \in Nat /\ N = p + r
    BY <1>1, <2>1
  <2>. HIDE DEF i, j, p, r
  <2>3. i + j >= N + 2 => i > p \/ j > r
    BY ONLY <2>2
  <2>. QED BY <1>8, <2>3 DEF Exhausted, i, j, p, r
<1>. QED BY <1>8, <1>9, <1>10

\* No party of a side is settled beyond what it owes.
LEMMA SideTotals ==
  ASSUME NEW q, NEW net, NEW v, NEW L, Side(q, net, v, L),
         NEW x, NEW rest, NEW legs \in Seq(L), SideInv(q, net, v, x, rest, legs),
         NEW k \in 1 .. Len(q)
  PROVE  /\ SeqTotal(v[q[k]], legs) \in Int /\ SeqTotal(v[q[k]], legs) <= Owed(q, net, k)
         /\ x > Len(q) => SeqTotal(v[q[k]], legs) = Owed(q, net, k)
<1>. PICK n \in Nat : n = Len(q)
  BY DEF Side
<1>. DEFINE t == SeqTotal(v[q[k]], legs)
            o == Owed(q, net, k)
<1>1. o \in Nat /\ k \in 1 .. n
  BY DEF Side
<1>2. x \in 1 .. n + 1 /\ IF x <= n THEN rest \in 1 .. Owed(q, net, x) ELSE rest = 0
  BY DEF SideInv
<1>3. t = IF k < x THEN o ELSE IF k = x THEN o - rest ELSE 0
  BY DEF SideInv
<1>4. k = x => rest \in 1 .. o
  BY <1>1, <1>2
<1>. HIDE DEF t, o
<1>5. t \in Int /\ t <= o /\ (x > n => t = o)
  <2>1. CASE k < x
    BY <1>1, <1>3, <2>1
  <2>2. CASE k = x
    BY <1>1, <1>2, <1>3, <1>4, <2>2
  <2>3. CASE k > x
    BY <1>1, <1>2, <1>3, <2>3
  <2>. QED BY <1>1, <1>2, <2>1, <2>2, <2>3
<1>. QED BY <1>5 DEF t, o

\* What a party owes and is due.
Owes(net) == [p \in DOMAIN net |-> IF net[p] < 0 THEN -net[p] ELSE 0]

DueTo(net) == [p \in DOMAIN net |-> IF net[p] > 0 THEN net[p] ELSE 0]

LegAmount(net) == [l \in MatchLeg(net) |-> l.amount]

\* What the legs take from all parties is what they bring to all.
LEMMA LegsBySender ==
  ASSUME NEW net, Positions(net), NEW q \in Seq(MatchLeg(net))
  PROVE  /\ SumFunctionOnSet([p \in DOMAIN net |-> SeqTotal(Paid(net)[p], q)], DOMAIN net)
              = SeqTotal(LegAmount(net), q)
         /\ SumFunctionOnSet([p \in DOMAIN net |-> SeqTotal(Got(net)[p], q)], DOMAIN net)
              = SeqTotal(LegAmount(net), q)
<1>. DEFINE L == MatchLeg(net)
            P == DOMAIN net
            v == LegAmount(net)
            s == [l \in L |-> l.sender]
            r == [l \in L |-> l.receiver]
<1>1. v \in [L -> Int] /\ IsFiniteSet(P)
  BY DEF MatchLeg, LegAmount, Positions
<1>2. s \in [L -> P] /\ r \in [L -> P]
  BY DEF MatchLeg, Payers, Receivers
<1>3. PartsOf(v, Paid(net), s, P, L) /\ PartsOf(v, Got(net), r, P, L)
  BY DEF PartsOf, Paid, Got, LegAmount
<1>4. q \in Seq(L)
  OBVIOUS
<1>. DEFINE w == Paid(net)
            x == Got(net)
<1>. HIDE DEF L, P, v, s, r, w, x
<1>5. PartsOf(v, w, s, P, L) /\ PartsOf(v, x, r, P, L)
  BY <1>3 DEF w, x
<1>. DEFINE h == [p \in P |-> SeqTotal(w[p], q)]
            g == [p \in P |-> SeqTotal(x[p], q)]
<1>6. SeqTotals(h, w, P, q) /\ SeqTotals(g, x, P, q)
  BY DEF SeqTotals
<1>. HIDE DEF h, g
<1>7. SumFunctionOnSet(h, P) = SeqTotal(v, q)
  BY ONLY <1>1, <1>2, <1>4, <1>5, <1>6, SeqByKey
<1>8. SumFunctionOnSet(g, P) = SeqTotal(v, q)
  BY ONLY <1>1, <1>2, <1>4, <1>5, <1>6, SeqByKey
<1>. QED BY <1>7, <1>8 DEF P, v, w, x, h, g

LEMMA OnTheList ==
  ASSUME NEW net, Positions(net), NEW S, S = Payers(net) \/ S = Receivers(net), NEW p \in S
  PROVE  \E k \in 1 .. Len(LargestFirst(S, net)) : LargestFirst(S, net)[k] = p
<1>1. IsFiniteSet(S) /\ \A x \in S : net[x] \in Int
  BY FS_Subset DEF Positions, Payers, Receivers
<1>2. /\ Len(LargestFirst(S, net)) = Cardinality(S)
      /\ \A x \in S : \E n \in 1 .. Cardinality(S) : LargestFirst(S, net)[n] = x
  BY <1>1, LargestFirstLists
<1>. QED BY <1>2

\* No leg is paid by a party that owes nothing, or received by one that is due nothing.
LEMMA NotOnTheList ==
  ASSUME NEW net, Positions(net), NEW q \in Seq(MatchLeg(net)), NEW p \in DOMAIN net
  PROVE  /\ p \notin Payers(net) => SeqTotal(Paid(net)[p], q) = 0
         /\ p \notin Receivers(net) => SeqTotal(Got(net)[p], q) = 0
<1>. DEFINE D == 1 .. Len(q)
            L == MatchLeg(net)
<1>1. IsFiniteSet(D) /\ \A n \in D : q[n] \in L
  BY FS_Interval
<1>2. ASSUME NEW v, \A l \in L : v[l] = 0  PROVE SeqTotal(v, q) = 0
  <2>. DEFINE f == [n \in D |-> v[q[n]]]
  <2>1. \A n \in D : f[n] = 0
    BY <1>1, <1>2
  <2>. HIDE DEF D, f
  <2>2. SumFunctionOnSet(f, D) = 0
    BY <1>1, <2>1, SumZero
  <2>. QED BY <2>2 DEF SeqTotal, f, D
<1>3. p \notin Payers(net) => \A l \in L : Paid(net)[p][l] = 0
  BY DEF MatchLeg, Paid
<1>4. p \notin Receivers(net) => \A l \in L : Got(net)[p][l] = 0
  BY DEF MatchLeg, Got
<1>. QED BY <1>2, <1>3, <1>4

\* Nobody pays or gets more than its position on the way.
LEMMA MatchTotals ==
  ASSUME NEW net, Positions(net), NEW s \in MatchStates(net), NEW p \in DOMAIN net
  PROVE  /\ SeqTotal(Paid(net)[p], s.legs) \in Int
         /\ SeqTotal(Paid(net)[p], s.legs) <= Owes(net)[p]
         /\ s.i > Len(PayersOf(net)) => SeqTotal(Paid(net)[p], s.legs) = Owes(net)[p]
         /\ SeqTotal(Got(net)[p], s.legs) \in Int
         /\ SeqTotal(Got(net)[p], s.legs) <= DueTo(net)[p]
         /\ s.j > Len(ReceiversOf(net)) => SeqTotal(Got(net)[p], s.legs) = DueTo(net)[p]
<1>1. /\ Side(PayersOf(net), net, Paid(net), MatchLeg(net))
      /\ Side(ReceiversOf(net), net, Got(net), MatchLeg(net))
  BY SidesAre
<1>2. /\ SideInv(PayersOf(net), net, Paid(net), s.i, s.pay, s.legs)
      /\ SideInv(ReceiversOf(net), net, Got(net), s.j, s.due, s.legs)
      /\ s.legs \in Seq(MatchLeg(net))
  BY DEF MatchStates, MatchInv
<1>3. net[p] \in Int
  BY DEF Positions
<1>4. /\ SeqTotal(Paid(net)[p], s.legs) \in Int
      /\ SeqTotal(Paid(net)[p], s.legs) <= Owes(net)[p]
      /\ s.i > Len(PayersOf(net)) => SeqTotal(Paid(net)[p], s.legs) = Owes(net)[p]
  <2>1. CASE p \in Payers(net)
    <3>1. PICK k \in 1 .. Len(PayersOf(net)) : PayersOf(net)[k] = p
      BY <2>1, OnTheList DEF PayersOf
    <3>2. Owed(PayersOf(net), net, k) = Owes(net)[p]
      <4>1. k <= Len(PayersOf(net)) /\ net[p] < 0
        BY <1>1, <2>1, <3>1 DEF Side, Payers
      <4>. QED BY <1>3, <3>1, <4>1 DEF Owed, Owes, Size
    <3>3. /\ SeqTotal(Paid(net)[PayersOf(net)[k]], s.legs) \in Int
          /\ SeqTotal(Paid(net)[PayersOf(net)[k]], s.legs) <= Owed(PayersOf(net), net, k)
          /\ s.i > Len(PayersOf(net)) =>
               SeqTotal(Paid(net)[PayersOf(net)[k]], s.legs) = Owed(PayersOf(net), net, k)
      BY ONLY <1>1, <1>2, <3>1, SideTotals
    <3>. QED BY <3>1, <3>2, <3>3
  <2>2. CASE p \notin Payers(net)
    <3>1. Owes(net)[p] = 0
      BY <2>2 DEF Owes, Payers
    <3>2. SeqTotal(Paid(net)[p], s.legs) = 0
      BY <1>2, <2>2, NotOnTheList
    <3>. QED BY <3>1, <3>2
  <2>. QED BY <2>1, <2>2
<1>5. /\ SeqTotal(Got(net)[p], s.legs) \in Int
      /\ SeqTotal(Got(net)[p], s.legs) <= DueTo(net)[p]
      /\ s.j > Len(ReceiversOf(net)) => SeqTotal(Got(net)[p], s.legs) = DueTo(net)[p]
  <2>1. CASE p \in Receivers(net)
    <3>1. PICK k \in 1 .. Len(ReceiversOf(net)) : ReceiversOf(net)[k] = p
      BY <2>1, OnTheList DEF ReceiversOf
    <3>2. Owed(ReceiversOf(net), net, k) = DueTo(net)[p]
      <4>1. k <= Len(ReceiversOf(net)) /\ net[p] > 0
        BY <1>1, <2>1, <3>1 DEF Side, Receivers
      <4>. QED BY <1>3, <3>1, <4>1 DEF Owed, DueTo, Size
    <3>3. /\ SeqTotal(Got(net)[ReceiversOf(net)[k]], s.legs) \in Int
          /\ SeqTotal(Got(net)[ReceiversOf(net)[k]], s.legs) <= Owed(ReceiversOf(net), net, k)
          /\ s.j > Len(ReceiversOf(net)) =>
               SeqTotal(Got(net)[ReceiversOf(net)[k]], s.legs) = Owed(ReceiversOf(net), net, k)
      BY ONLY <1>1, <1>2, <3>1, SideTotals
    <3>. QED BY <3>1, <3>2, <3>3
  <2>2. CASE p \notin Receivers(net)
    <3>1. DueTo(net)[p] = 0
      BY <2>2 DEF DueTo, Receivers
    <3>2. SeqTotal(Got(net)[p], s.legs) = 0
      BY <1>2, <2>2, NotOnTheList
    <3>. QED BY <3>1, <3>2
  <2>. QED BY <2>1, <2>2
<1>. QED BY <1>4, <1>5

\* The matching pays and brings every party exactly its position.
THEOREM MatchSettles ==
  ASSUME NEW net, Positions(net), SumFunctionOnSet(net, DOMAIN net) = 0
  PROVE  /\ Match(net) \in Seq(MatchLeg(net))
         /\ \A p \in DOMAIN net : /\ SeqTotal(Paid(net)[p], Match(net)) = Owes(net)[p]
                                  /\ SeqTotal(Got(net)[p], Match(net)) = DueTo(net)[p]
<1>1. PICK s \in MatchStates(net) : Match(net) = s.legs /\ Exhausted(net, s)
  BY MatchEnds
<1>. DEFINE D == DOMAIN net
            paid == [p \in D |-> SeqTotal(Paid(net)[p], s.legs)]
            got == [p \in D |-> SeqTotal(Got(net)[p], s.legs)]
            owes == Owes(net)
            due == DueTo(net)
<1>2. s.legs \in Seq(MatchLeg(net)) /\ IsFiniteSet(D)
  BY DEF MatchStates, Positions
<1>3. ASSUME NEW p \in D
      PROVE  /\ paid[p] \in Int /\ got[p] \in Int /\ paid[p] <= owes[p] /\ got[p] <= due[p]
             /\ s.i > Len(PayersOf(net)) => paid[p] = owes[p]
             /\ s.j > Len(ReceiversOf(net)) => got[p] = due[p]
  BY MatchTotals
<1>4. SumFunctionOnSet(paid, D) = SumFunctionOnSet(got, D)
  BY <1>2, LegsBySender
<1>5. \A p \in D : owes[p] \in Int /\ due[p] \in Int /\ net[p] = due[p] - owes[p]
  BY DEF Positions, Owes, DueTo
<1>. HIDE DEF D, paid, got, owes, due
<1>6. SumFunctionOnSet(owes, D) = SumFunctionOnSet(due, D)
  <2>1. SumFunctionOnSet(net, D) = SumFunctionOnSet(due, D) - SumFunctionOnSet(owes, D)
    BY <1>2, <1>5, SumMinus
  <2>2. SumFunctionOnSet(due, D) \in Int /\ SumFunctionOnSet(owes, D) \in Int
    BY <1>2, <1>5, SumInt
  <2>. QED BY <2>1, <2>2 DEF D
<1>7. \A p \in D : paid[p] = owes[p] /\ got[p] = due[p]
  <2>1. CASE s.i > Len(PayersOf(net))
    <3>1. \A p \in D : paid[p] = owes[p]
      BY <1>3, <2>1
    <3>2. SumFunctionOnSet(paid, D) = SumFunctionOnSet(owes, D)
      BY <1>2, <3>1, SumSame
    <3>3. SumFunctionOnSet(got, D) = SumFunctionOnSet(due, D)
      BY <1>4, <1>6, <3>2
    <3>4. \A p \in D : got[p] = due[p]
      BY <1>2, <1>3, <1>5, <3>3, SumTight
    <3>. QED BY <3>1, <3>4
  <2>2. CASE s.j > Len(ReceiversOf(net))
    <3>1. \A p \in D : got[p] = due[p]
      BY <1>3, <2>2
    <3>2. SumFunctionOnSet(got, D) = SumFunctionOnSet(due, D)
      BY <1>2, <3>1, SumSame
    <3>3. SumFunctionOnSet(paid, D) = SumFunctionOnSet(owes, D)
      BY <1>4, <1>6, <3>2
    <3>4. \A p \in D : paid[p] = owes[p]
      BY <1>2, <1>3, <1>5, <3>3, SumTight
    <3>. QED BY <3>1, <3>4
  <2>. QED BY <1>1, <2>1, <2>2 DEF Exhausted
<1>. QED BY <1>1, <1>2, <1>7 DEF D, paid, got, owes, due

\* A party that is left has not paid or got all it owes or is due.
LEMMA SideUnsettled ==
  ASSUME NEW q, NEW net, NEW v, NEW L, Side(q, net, v, L),
         NEW x, NEW rest, NEW legs \in Seq(L), SideInv(q, net, v, x, rest, legs),
         \A k \in 1 .. Len(q) : SeqTotal(v[q[k]], legs) = Owed(q, net, k)
  PROVE  x = Len(q) + 1
<1>. PICK n \in Nat : n = Len(q)
  BY DEF Side
<1>1. x \in 1 .. n + 1 /\ IF x <= n THEN rest \in 1 .. Owed(q, net, x) ELSE rest = 0
  BY DEF SideInv
<1>2. SUFFICES ASSUME x <= n  PROVE FALSE
  BY <1>1
<1>3. x \in 1 .. n /\ Owed(q, net, x) \in Nat
  BY <1>1, <1>2 DEF Side
<1>4. SeqTotal(v[q[x]], legs) = Owed(q, net, x) - rest
  BY <1>3 DEF SideInv
<1>5. SeqTotal(v[q[x]], legs) = Owed(q, net, x) /\ rest \in 1 .. Owed(q, net, x)
  BY <1>1, <1>2, <1>3
<1>. QED BY <1>3, <1>4, <1>5

\* The matching takes fewer legs than there are parties.
THEOREM MatchIsShort ==
  ASSUME NEW net, Positions(net), SumFunctionOnSet(net, DOMAIN net) = 0, Match(net) # <<>>
  PROVE  Len(Match(net)) < Cardinality(DOMAIN net)
<1>. DEFINE P == PayersOf(net)
            R == ReceiversOf(net)
<1>1. PICK s \in MatchStates(net) : Match(net) = s.legs /\ Frugal(net, s)
  BY MatchEnds
<1>2. /\ s.legs \in Seq(MatchLeg(net))
      /\ SideInv(P, net, Paid(net), s.i, s.pay, s.legs)
      /\ SideInv(R, net, Got(net), s.j, s.due, s.legs)
  BY DEF MatchStates, MatchInv
<1>3. /\ Side(P, net, Paid(net), MatchLeg(net)) /\ Side(R, net, Got(net), MatchLeg(net))
      /\ \A k \in 1 .. Len(P) : P[k] \in Payers(net)
      /\ \A k \in 1 .. Len(R) : R[k] \in Receivers(net)
  BY SidesAre
<1>4. \A p \in DOMAIN net : /\ SeqTotal(Paid(net)[p], s.legs) = Owes(net)[p]
                            /\ SeqTotal(Got(net)[p], s.legs) = DueTo(net)[p]
  BY <1>1, MatchSettles
<1>5. s.i = Len(P) + 1
  <2>1. ASSUME NEW k \in 1 .. Len(P)
        PROVE  SeqTotal(Paid(net)[P[k]], s.legs) = Owed(P, net, k)
    <3>1. P[k] \in DOMAIN net /\ net[P[k]] < 0 /\ net[P[k]] \in Int /\ k <= Len(P)
      BY <1>3 DEF Payers, Positions, Side
    <3>2. Owed(P, net, k) = Owes(net)[P[k]]
      BY <3>1 DEF Owed, Owes, Size
    <3>. QED BY <1>4, <3>1, <3>2
  <2>. HIDE DEF P
  <2>. QED BY <1>2, <1>3, <2>1, SideUnsettled
<1>6. s.j = Len(R) + 1
  <2>1. ASSUME NEW k \in 1 .. Len(R)
        PROVE  SeqTotal(Got(net)[R[k]], s.legs) = Owed(R, net, k)
    <3>1. R[k] \in DOMAIN net /\ net[R[k]] > 0 /\ net[R[k]] \in Int /\ k <= Len(R)
      BY <1>3 DEF Receivers, Positions, Side
    <3>2. Owed(R, net, k) = DueTo(net)[R[k]]
      BY <3>1 DEF Owed, DueTo, Size
    <3>. QED BY <1>4, <3>1, <3>2
  <2>. HIDE DEF R
  <2>. QED BY <1>2, <1>3, <2>1, SideUnsettled
<1>7. Len(P) = Cardinality(Payers(net)) /\ Len(R) = Cardinality(Receivers(net))
      /\ Len(P) \in Nat /\ Len(R) \in Nat
  <2>1. /\ IsFiniteSet(Payers(net)) /\ \A p \in Payers(net) : net[p] \in Int
        /\ IsFiniteSet(Receivers(net)) /\ \A p \in Receivers(net) : net[p] \in Int
    BY FS_Subset DEF Positions, Payers, Receivers
  <2>. QED BY <1>3, <2>1, LargestFirstLists DEF PayersOf, ReceiversOf, Side
<1>8. Len(P) + Len(R) <= Cardinality(DOMAIN net) /\ Cardinality(DOMAIN net) \in Nat
  <2>. DEFINE A == Payers(net)
              B == Receivers(net)
              D == DOMAIN net
  <2>1. A \in SUBSET D /\ B \in SUBSET D /\ A \cap B = {} /\ IsFiniteSet(D)
    BY DEF Payers, Receivers, Positions
  <2>. HIDE DEF A, B, D
  <2>2. /\ IsFiniteSet(A) /\ IsFiniteSet(B)
        /\ A \union B \in SUBSET D
    BY <2>1, FS_Subset
  <2>3. Cardinality(A \union B) = Cardinality(A) + Cardinality(B) - Cardinality(A \cap B)
    BY <2>2, FS_Union
  <2>4. Cardinality(A \cap B) = 0 /\ Cardinality(A) \in Nat /\ Cardinality(B) \in Nat
        /\ Cardinality(D) \in Nat
    BY <2>1, <2>2, FS_EmptySet, FS_CardinalityType
  <2>5. Cardinality(A \union B) <= Cardinality(D)
    BY <2>1, <2>2, FS_Subset
  <2>6. Cardinality(A) + Cardinality(B) <= Cardinality(D)
    BY <2>3, <2>4, <2>5
  <2>. QED BY <1>7, <2>4, <2>6 DEF A, B, D
<1>9. Len(s.legs) > 0
  <2>. DEFINE q == s.legs
              L == MatchLeg(net)
  <2>1. q \in Seq(L) /\ q # <<>>
    BY <1>1, <1>2
  <2>. HIDE DEF q, L
  <2>2. Len(q) > 0
    BY <2>1
  <2>. QED BY <2>2 DEF q
<1>. DEFINE m == Len(s.legs)
            i == s.i
            j == s.j
            a == Len(P)
            b == Len(R)
            n == Cardinality(DOMAIN net)
<1>10. /\ i = a + 1 /\ j = b + 1 /\ a \in Nat /\ b \in Nat /\ n \in Nat /\ a + b <= n
       /\ m > 0 /\ m \in Nat
       /\ i > a /\ j > b /\ m > 0 => m <= i + j - 3
  BY <1>1, <1>2, <1>5, <1>6, <1>7, <1>8, <1>9 DEF Frugal
<1>. HIDE DEF m, i, j, a, b, n
<1>11. m < n
  BY <1>10
<1>. QED BY <1>1, <1>11 DEF m, n
================================================================================
