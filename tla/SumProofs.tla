----------------------------- MODULE SumProofs -----------------------------
(***************************************************************************)
(* Sums over finite sets.  MapThenSumSet takes the elements of a set in    *)
(* the order CHOOSE has; that the order does not matter, that a sum may be *)
(* split and its elements renamed, is proved here once.  The induction is  *)
(* over the subsets of the set summed over: of those a claim fails for,    *)
(* one is the least.                                                       *)
(***************************************************************************)
EXTENDS Sums, Integers, FiniteSetTheorems, WellFoundedInduction, TLAPS

Pick(s) == CHOOSE x \in s : TRUE

\* The partial sums of f over the subsets of S.
IsSum(it, f, S) ==
  it = [s \in SUBSET S |-> IF s = {} THEN 0 ELSE f[Pick(s)] + it[s \ {Pick(s)}]]

\* Some subsets of a finite set include one that includes no other of them.
LEMMA LeastSubset ==
  ASSUME NEW S, IsFiniteSet(S), NEW B, B \subseteq SUBSET S, B # {}
  PROVE  \E T \in B : \A U \in B : U \subseteq T => U = T
<1> DEFINE R == StrictSubsetOrdering(S)
<1>1. IsWellFoundedOn(R, SUBSET S)
  BY FS_StrictSubsetOrderingWellFounded, FS_FiniteSubsetsOfFinite, Zenon
<1>2. PICK T \in B : \A U \in B : ~(<<U, T>> \in R)
  BY <1>1, WFMin, Zenon
<1>3. ASSUME NEW U \in B, U \subseteq T, U # T
      PROVE  FALSE
  <2>1. <<U, T>> \in (SUBSET S) \X (SUBSET S)
    OBVIOUS
  <2>2. <<U, T>>[1] = U /\ <<U, T>>[2] = T
    OBVIOUS
  <2>3. <<U, T>> \in R
    BY <1>3, <2>1, <2>2, Zenon DEF StrictSubsetOrdering
  <2> QED BY <1>2, <2>3
<1> QED BY <1>3

\* What is picked from a set is in it.
LEMMA PickIn == \A s : s # {} => Pick(s) \in s
  BY DEF Pick

\* There is one function of partial sums at most;
LEMMA PartialSumsUnique ==
  ASSUME NEW f, NEW S, IsFiniteSet(S), NEW it, NEW jt, IsSum(it, f, S), IsSum(jt, f, S)
  PROVE  it = jt
<1> DEFINE B == {s \in SUBSET S : it[s] # jt[s]}
<1>1. CASE B = {}
  <2>1. \A s \in SUBSET S : it[s] = jt[s]
    BY <1>1
  <2>2. it = [s \in SUBSET S |-> it[s]] /\ jt = [s \in SUBSET S |-> jt[s]]
    BY DEF IsSum
  <2> QED BY <2>1, <2>2
<1>2. CASE B # {}
  <2>0. B \subseteq SUBSET S
    OBVIOUS
  <2>1. PICK T \in B : \A U \in B : U \subseteq T => U = T
    <3> HIDE DEF B
    <3> QED BY <1>2, <2>0, LeastSubset
  <2>2. T # {}
    BY DEF IsSum
  <2>3. T \ {Pick(T)} \in SUBSET S /\ T \ {Pick(T)} # T
    BY <2>2, PickIn
  <2>4. it[T \ {Pick(T)}] = jt[T \ {Pick(T)}]
    BY <2>1, <2>3
  <2>5. it[T] = f[Pick(T)] + it[T \ {Pick(T)}] /\ jt[T] = f[Pick(T)] + jt[T \ {Pick(T)}]
    BY <2>2 DEF IsSum
  <2> QED BY <2>4, <2>5
<1> QED BY <1>1, <1>2

\* it serves subsets too;
LEMMA PartialSumsRestrict ==
  ASSUME NEW f, NEW S, NEW T, T \subseteq S, NEW it, IsSum(it, f, S)
  PROVE  IsSum([s \in SUBSET T |-> it[s]], f, T)
<1> DEFINE jt == [s \in SUBSET T |-> it[s]]
<1>1. ASSUME NEW s \in SUBSET T
      PROVE  it[s] = IF s = {} THEN 0 ELSE f[Pick(s)] + jt[s \ {Pick(s)}]
  <2>1. it[s] = IF s = {} THEN 0 ELSE f[Pick(s)] + it[s \ {Pick(s)}]
    BY DEF IsSum
  <2>2. s \ {Pick(s)} \in SUBSET T
    OBVIOUS
  <2> QED BY <2>1, <2>2
<1> QED BY <1>1, Zenon DEF IsSum

\* and there is one.
LEMMA PartialSumsExist ==
  ASSUME NEW f, NEW S, IsFiniteSet(S)
  PROVE  \E it : IsSum(it, f, S)
<1> DEFINE B == {s \in SUBSET S : ~ \E it : IsSum(it, f, s)}
<1>1. CASE B = {}
  BY <1>1
<1>2. CASE B # {}
  <2>0. B \subseteq SUBSET S
    OBVIOUS
  <2>1. PICK T \in B : \A U \in B : U \subseteq T => U = T
    <3> HIDE DEF B
    <3> QED BY <1>2, <2>0, LeastSubset
  <2>2. T \subseteq S /\ ~ \E it : IsSum(it, f, T)
    BY <2>1
  <2> DEFINE part(u) == CHOOSE it : IsSum(it, f, u)
             it == [s \in SUBSET T |->
                      IF s = {} THEN 0 ELSE f[Pick(s)] + part(s \ {Pick(s)})[s \ {Pick(s)}]]
  <2>3. ASSUME NEW u \in SUBSET T, u # T
        PROVE  IsSum(part(u), f, u)
    BY <2>1, <2>2, <2>3
  <2>4. ASSUME NEW u \in SUBSET T, u # T
        PROVE  it[u] = part(u)[u]
    <3>1. IsSum(part(u), f, u)
      BY <2>3, <2>4
    <3>2. CASE u = {}
      BY <3>1, <3>2 DEF IsSum
    <3>3. CASE u # {}
      <4> DEFINE v == u \ {Pick(u)}
      <4> HIDE DEF part
      <4>1. v \in SUBSET T /\ v # T /\ v \subseteq u
        BY <3>3, PickIn
      <4>2. part(u)[u] = f[Pick(u)] + part(u)[v]
        BY <3>1, <3>3 DEF IsSum
      <4>3. IsSum([s \in SUBSET v |-> part(u)[s]], f, v)
        BY <3>1, <4>1, PartialSumsRestrict
      <4>4. IsSum(part(v), f, v) /\ IsFiniteSet(v)
        BY <2>2, <2>3, <4>1, FS_Subset
      <4>5. part(v) = [s \in SUBSET v |-> part(u)[s]]
        BY <4>3, <4>4, PartialSumsUnique
      <4>6. part(v)[v] = part(u)[v]
        BY <4>5
      <4> QED BY <3>3, <4>2, <4>6
    <3> QED BY <3>2, <3>3
  <2>5. IsSum(it, f, T)
    <3> HIDE DEF part
    <3>1. ASSUME NEW s \in SUBSET T, s # {}
          PROVE  it[s \ {Pick(s)}] = part(s \ {Pick(s)})[s \ {Pick(s)}]
      <4>1. s \ {Pick(s)} \in SUBSET T /\ s \ {Pick(s)} # T
        BY <3>1, PickIn
      <4> QED BY <2>4, <4>1
    <3>2. it = [s \in SUBSET T |-> IF s = {} THEN 0 ELSE f[Pick(s)] + it[s \ {Pick(s)}]]
      BY <3>1
    <3> QED BY <3>2 DEF IsSum
  <2> QED BY <2>2, <2>5
<1> QED BY <1>1, <1>2

\* So a sum is the partial sum of the whole set.
LEMMA SumIsPartial ==
  ASSUME NEW f, NEW S, IsFiniteSet(S), NEW it, IsSum(it, f, S)
  PROVE  SumOver(f, S) = it[S]
<1> DEFINE jt == CHOOSE j : IsSum(j, f, S)
<1>1. IsSum(jt, f, S)
  OBVIOUS
<1>2. SumOver(f, S) = jt[S]
  BY DEF SumOver, MapThenSumSet, MapThenFoldSet, IsSum, Pick
<1>3. jt = it
  BY <1>1, PartialSumsUnique
<1> QED BY <1>2, <1>3

-----------------------------------------------------------------------------
(* What a sum is, without the order.                                       *)

\* Nothing adds up to 0.
LEMMA SumOfNothing == ASSUME NEW f PROVE SumOver(f, {}) = 0
<1>1. PICK it : IsSum(it, f, {})
  BY PartialSumsExist, FS_EmptySet
<1>2. SumOver(f, {}) = it[{}]
  BY <1>1, SumIsPartial, FS_EmptySet
<1>3. {} \in SUBSET {}
  OBVIOUS
<1>4. it[{}] = 0
  BY <1>1, <1>3, Zenon DEF IsSum
<1> QED BY <1>2, <1>4

\* The element picked, and the rest.
LEMMA SumPicks ==
  ASSUME NEW f, NEW S, IsFiniteSet(S), S # {}
  PROVE  SumOver(f, S) = f[Pick(S)] + SumOver(f, S \ {Pick(S)})
<1> DEFINE T == S \ {Pick(S)}
<1>1. PICK it : IsSum(it, f, S)
  BY PartialSumsExist
<1>2. T \subseteq S /\ IsFiniteSet(T)
  BY FS_RemoveElement
<1>3. SumOver(f, T) = it[T]
  <2> HIDE DEF T
  <2>1. IsSum([s \in SUBSET T |-> it[s]], f, T)
    BY <1>1, <1>2, PartialSumsRestrict
  <2>2. SumOver(f, T) = [s \in SUBSET T |-> it[s]][T]
    BY <1>2, <2>1, SumIsPartial
  <2> QED BY <2>2
<1>4. SumOver(f, S) = it[S]
  BY <1>1, SumIsPartial
<1> QED BY <1>1, <1>3, <1>4 DEF IsSum

\* Whole numbers add up to a whole number.
LEMMA SumWhole ==
  ASSUME NEW f, NEW S, IsFiniteSet(S), \A x \in S : f[x] \in Int
  PROVE  SumOver(f, S) \in Int
<1> DEFINE B == {s \in SUBSET S : ~(SumOver(f, s) \in Int)}
<1>1. CASE B # {}
  <2>0. B \subseteq SUBSET S
    OBVIOUS
  <2>1. PICK T \in B : \A U \in B : U \subseteq T => U = T
    <3> HIDE DEF B
    <3> QED BY <1>1, <2>0, LeastSubset
  <2>2. IsFiniteSet(T) /\ T \subseteq S /\ T # {}
    <3>1. {} \notin B
      BY SumOfNothing
    <3> QED BY <3>1, FS_Subset
  <2>3. T \ {Pick(T)} \in SUBSET S /\ T \ {Pick(T)} # T /\ Pick(T) \in T
    BY <2>2, PickIn
  <2>4. SumOver(f, T \ {Pick(T)}) \in Int
    BY <2>1, <2>3
  <2> QED BY <2>1, <2>2, <2>3, <2>4, SumPicks
<1> QED BY <1>1

\* Any element may be taken out first.
LEMMA SumTakesOut ==
  ASSUME NEW f, NEW S, IsFiniteSet(S), \A x \in S : f[x] \in Int, NEW x \in S
  PROVE  SumOver(f, S) = f[x] + SumOver(f, S \ {x})
<1> DEFINE Fails(s) == \E y \in s : SumOver(f, s) # f[y] + SumOver(f, s \ {y})
           B == {s \in SUBSET S : Fails(s)}
<1>1. CASE B # {}
  <2>0. B \subseteq SUBSET S
    OBVIOUS
  <2>1. PICK T \in B : \A U \in B : U \subseteq T => U = T
    <3> HIDE DEF B
    <3> QED BY <1>1, <2>0, LeastSubset
  <2>2. PICK y \in T : SumOver(f, T) # f[y] + SumOver(f, T \ {y})
    BY <2>1
  <2> DEFINE c == Pick(T)
             R == T \ {c, y}
  <2>3. IsFiniteSet(T) /\ T \subseteq S /\ c \in T
    BY <2>2, FS_Subset, PickIn
  <2>4. SumOver(f, T) = f[c] + SumOver(f, T \ {c})
    BY <2>3, SumPicks
  <2>5. c # y
    BY <2>2, <2>4
  <2>6. \A U : U \subseteq T /\ U # T => \A z \in U : SumOver(f, U) = f[z] + SumOver(f, U \ {z})
    BY <2>1, <2>3
  <2>7. SumOver(f, T \ {c}) = f[y] + SumOver(f, R)
    <3>1. T \ {c} \subseteq T /\ T \ {c} # T /\ y \in T \ {c} /\ (T \ {c}) \ {y} = R
      BY <2>3, <2>5
    <3> QED BY <2>6, <3>1
  <2>8. SumOver(f, T \ {y}) = f[c] + SumOver(f, R)
    <3>1. T \ {y} \subseteq T /\ T \ {y} # T /\ c \in T \ {y} /\ (T \ {y}) \ {c} = R
      BY <2>3, <2>5
    <3> QED BY <2>6, <3>1
  <2>9. f[c] \in Int /\ f[y] \in Int /\ SumOver(f, R) \in Int
    <3>1. R \subseteq S /\ IsFiniteSet(R)
      BY <2>3, FS_Subset
    <3> QED BY <2>3, <3>1, SumWhole
  <2> HIDE DEF c, R
  <2> QED BY <2>2, <2>4, <2>7, <2>8, <2>9
<1>2. CASE B = {}
  <2>1. ~Fails(S)
    BY <1>2
  <2> QED BY <2>1
<1> QED BY <1>1, <1>2

\* Only the values on the set count.
LEMMA SumAgrees ==
  ASSUME NEW f, NEW g, NEW S, IsFiniteSet(S), \A x \in S : f[x] = g[x]
  PROVE  SumOver(f, S) = SumOver(g, S)
<1> DEFINE B == {s \in SUBSET S : SumOver(f, s) # SumOver(g, s)}
<1>1. CASE B # {}
  <2>0. B \subseteq SUBSET S
    OBVIOUS
  <2>1. PICK T \in B : \A U \in B : U \subseteq T => U = T
    <3> HIDE DEF B
    <3> QED BY <1>1, <2>0, LeastSubset
  <2>2. IsFiniteSet(T) /\ T \subseteq S /\ T # {}
    <3>1. {} \notin B
      BY SumOfNothing
    <3> QED BY <3>1, FS_Subset
  <2>3. T \ {Pick(T)} \in SUBSET S /\ T \ {Pick(T)} # T /\ Pick(T) \in T
    BY <2>2, PickIn
  <2>4. SumOver(f, T \ {Pick(T)}) = SumOver(g, T \ {Pick(T)})
    BY <2>1, <2>3
  <2> QED BY <2>1, <2>2, <2>3, <2>4, SumPicks
<1> QED BY <1>1

\* The sum over a set taken apart.
LEMMA SumSplits ==
  ASSUME NEW f, NEW S, IsFiniteSet(S), \A x \in S : f[x] \in Int,
         NEW T, T \subseteq S
  PROVE  SumOver(f, S) = SumOver(f, T) + SumOver(f, S \ T)
<1> DEFINE B == {s \in SUBSET T : SumOver(f, S) # SumOver(f, s) + SumOver(f, S \ s)}
<1>0. IsFiniteSet(T)
  BY FS_Subset
<1>1. CASE B # {}
  <2>0. B \subseteq SUBSET T
    OBVIOUS
  <2>1. PICK U \in B : \A V \in B : V \subseteq U => V = U
    <3> HIDE DEF B
    <3> QED BY <1>0, <1>1, <2>0, LeastSubset
  <2>2. U # {}
    <3>1. SumOver(f, S) \in Int /\ SumOver(f, {}) = 0 /\ S \ {} = S
      BY SumWhole, SumOfNothing
    <3>2. {} \notin B
      BY <3>1
    <3> QED BY <3>2
  <2> DEFINE x == Pick(U)
             V == U \ {x}
  <2>3. x \in U /\ V \subseteq U /\ V # U /\ U \subseteq T /\ U \subseteq S
    BY <2>2, PickIn
  <2>4. SumOver(f, S) = SumOver(f, V) + SumOver(f, S \ V)
    BY <2>1, <2>3
  <2>5. IsFiniteSet(U) /\ IsFiniteSet(V) /\ IsFiniteSet(S \ V) /\ IsFiniteSet(S \ U)
    BY <2>3, FS_Subset
  <2>6. SumOver(f, U) = f[x] + SumOver(f, V)
    BY <2>3, <2>5, SumTakesOut
  <2>7. SumOver(f, S \ V) = f[x] + SumOver(f, S \ U)
    <3>1. x \in S \ V /\ (S \ V) \ {x} = S \ U
      BY <2>3
    <3> HIDE DEF x, V
    <3> QED BY <2>5, <3>1, SumTakesOut
  <2>8. f[x] \in Int /\ SumOver(f, V) \in Int /\ SumOver(f, S \ U) \in Int
    <3> HIDE DEF x, V
    <3> QED BY <2>3, <2>5, SumWhole
  <2> HIDE DEF x, V
  <2> QED BY <2>1, <2>4, <2>6, <2>7, <2>8
<1>2. CASE B = {}
  BY <1>2
<1> QED BY <1>1, <1>2

\* One element.
LEMMA SumOfOne ==
  ASSUME NEW f, NEW x, f[x] \in Int
  PROVE  SumOver(f, {x}) = f[x]
<1>1. IsFiniteSet({x}) /\ {x} \ {x} = {}
  BY FS_Singleton
<1>2. SumOver(f, {x}) = f[x] + SumOver(f, {})
  BY <1>1, SumTakesOut
<1> QED BY <1>2, SumOfNothing

\* Sums of two addends apart and together.
LEMMA SumAdds ==
  ASSUME NEW f, NEW g, NEW h, NEW S, IsFiniteSet(S),
         \A x \in S : f[x] \in Int /\ g[x] \in Int /\ h[x] = f[x] + g[x]
  PROVE  SumOver(h, S) = SumOver(f, S) + SumOver(g, S)
<1> DEFINE B == {s \in SUBSET S : SumOver(h, s) # SumOver(f, s) + SumOver(g, s)}
<1>1. CASE B # {}
  <2>0. B \subseteq SUBSET S
    OBVIOUS
  <2>1. PICK T \in B : \A U \in B : U \subseteq T => U = T
    <3> HIDE DEF B
    <3> QED BY <1>1, <2>0, LeastSubset
  <2>2. IsFiniteSet(T) /\ T \subseteq S /\ T # {}
    <3>1. SumOver(f, {}) = 0 /\ SumOver(g, {}) = 0 /\ SumOver(h, {}) = 0
      BY SumOfNothing
    <3>2. {} \notin B
      BY <3>1
    <3> QED BY <3>2, FS_Subset
  <2> DEFINE x == Pick(T)
             U == T \ {x}
  <2>3. U \in SUBSET S /\ U # T /\ x \in T /\ IsFiniteSet(U)
    BY <2>2, PickIn, FS_Subset
  <2>4. SumOver(h, U) = SumOver(f, U) + SumOver(g, U)
    BY <2>1, <2>3
  <2>5. SumOver(f, U) \in Int /\ SumOver(g, U) \in Int
    <3> HIDE DEF U
    <3> QED BY <2>3, SumWhole
  <2>6. SumOver(f, T) = f[x] + SumOver(f, U) /\ SumOver(g, T) = g[x] + SumOver(g, U)
        /\ SumOver(h, T) = h[x] + SumOver(h, U)
    BY <2>2, SumPicks
  <2>7. f[x] \in Int /\ g[x] \in Int /\ h[x] = f[x] + g[x]
    BY <2>2, <2>3
  <2> HIDE DEF x, U
  <2> QED BY <2>1, <2>4, <2>5, <2>6, <2>7
<1> QED BY <1>1

\* A sum is between the bounds of its addends, times their number.
LEMMA SumBounds ==
  ASSUME NEW f, NEW S, IsFiniteSet(S), NEW a \in Int, NEW b \in Int,
         \A x \in S : f[x] \in a..b
  PROVE  SumOver(f, S) \in (a * Cardinality(S))..(b * Cardinality(S))
<1> DEFINE Card(s) == Cardinality(s)
           B == {s \in SUBSET S : ~(SumOver(f, s) \in (a * Card(s))..(b * Card(s)))}
<1>1. CASE B # {}
  <2>0. B \subseteq SUBSET S
    OBVIOUS
  <2>1. PICK T \in B : \A U \in B : U \subseteq T => U = T
    <3> HIDE DEF B
    <3> QED BY <1>1, <2>0, LeastSubset
  <2>2. IsFiniteSet(T) /\ T \subseteq S /\ T # {}
    <3>1. SumOver(f, {}) = 0 /\ Card({}) = 0
      BY SumOfNothing, FS_EmptySet
    <3>2. SumOver(f, {}) \in (a * Card({}))..(b * Card({}))
      BY <3>1
    <3> QED BY <3>2, FS_Subset
  <2> DEFINE x == Pick(T)
             U == T \ {x}
  <2>3. U \in SUBSET S /\ U # T /\ x \in T /\ IsFiniteSet(U)
    BY <2>2, PickIn, FS_Subset
  <2>4. SumOver(f, U) \in (a * Card(U))..(b * Card(U))
    BY <2>1, <2>3
  <2>5. Card(T) \in Nat /\ Card(U) \in Nat /\ Card(T) = Card(U) + 1
    BY <2>2, <2>3, FS_CardinalityType, FS_RemoveElement
  <2>6. SumOver(f, T) = f[x] + SumOver(f, U) /\ f[x] \in a..b
    BY <2>2, <2>3, SumPicks
  <2>7. a * Card(T) = a * Card(U) + a /\ b * Card(T) = b * Card(U) + b
    BY <2>5
  <2>8. a * Card(U) \in Int /\ b * Card(U) \in Int
    BY <2>5
  <2> HIDE DEF x, U, Card
  <2>9. SumOver(f, T) \in (a * Card(T))..(b * Card(T))
    <3> DEFINE l == a * Card(U)  m == b * Card(U)
    <3>1. l \in Int /\ m \in Int /\ SumOver(f, U) \in l..m
      BY <2>4, <2>8
    <3> HIDE DEF l, m
    <3>2. f[x] + SumOver(f, U) \in (l + a)..(m + b)
      BY <2>6, <3>1
    <3> QED BY <2>6, <2>7, <3>2 DEF l, m
  <2> QED BY <2>1, <2>9
<1> QED BY <1>1

\* Nothing negative adds up to nothing negative.
LEMMA SumNatural ==
  ASSUME NEW f, NEW S, IsFiniteSet(S), \A x \in S : f[x] \in Nat
  PROVE  SumOver(f, S) \in Nat
<1> DEFINE B == {s \in SUBSET S : ~(SumOver(f, s) \in Nat)}
<1>1. CASE B # {}
  <2>0. B \subseteq SUBSET S
    OBVIOUS
  <2>1. PICK T \in B : \A U \in B : U \subseteq T => U = T
    <3> HIDE DEF B
    <3> QED BY <1>1, <2>0, LeastSubset
  <2>2. IsFiniteSet(T) /\ T \subseteq S /\ T # {}
    <3>1. {} \notin B
      BY SumOfNothing
    <3> QED BY <3>1, FS_Subset
  <2>3. T \ {Pick(T)} \in SUBSET S /\ T \ {Pick(T)} # T /\ Pick(T) \in T
    BY <2>2, PickIn
  <2>4. SumOver(f, T \ {Pick(T)}) \in Nat
    BY <2>1, <2>3
  <2> QED BY <2>1, <2>2, <2>3, <2>4, SumPicks
<1> QED BY <1>1

\* What a finite set is turned into is finite.
LEMMA FiniteImage ==
  ASSUME NEW h, NEW S, IsFiniteSet(S)
  PROVE  IsFiniteSet({h[x] : x \in S})
<1> DEFINE to == {h[x] : x \in S}
<1>1. [x \in S |-> h[x]] \in Surjection(S, to)
  BY DEF Surjection
<1> HIDE DEF to
<1>2. IsFiniteSet(to)
  BY <1>1, FS_Surjection
<1> QED BY <1>2 DEF to

\* The elements may be renamed.
LEMMA SumRenamed ==
  ASSUME NEW f, NEW g, NEW S, IsFiniteSet(S), NEW T, NEW h,
         \A x \in S : f[x] \in Int /\ h[x] \in T /\ g[h[x]] = f[x],
         \A x, y \in S : h[x] = h[y] => x = y,
         \A z \in T : \E x \in S : h[x] = z
  PROVE  SumOver(f, S) = SumOver(g, T)
<1> DEFINE to(s) == {h[x] : x \in s}
           B == {s \in SUBSET S : SumOver(f, s) # SumOver(g, to(s))}
<1>0. IsFiniteSet(to(S))
  BY FiniteImage
<1>1. CASE B # {}
  <2>0. B \subseteq SUBSET S
    OBVIOUS
  <2>1. PICK U \in B : \A V \in B : V \subseteq U => V = U
    <3> HIDE DEF B
    <3> QED BY <1>1, <2>0, LeastSubset
  <2>2. IsFiniteSet(U) /\ U \subseteq S /\ IsFiniteSet(to(U))
    <3>1. IsFiniteSet(U) /\ U \subseteq S
      BY FS_Subset
    <3>2. to(U) \in SUBSET to(S)
      BY <3>1
    <3> HIDE DEF to
    <3> QED BY <1>0, <3>1, <3>2, FS_Subset
  <2>3. U # {}
    <3>1. SumOver(f, {}) = 0 /\ SumOver(g, {}) = 0 /\ to({}) = {}
      BY SumOfNothing
    <3> QED BY <3>1
  <2> DEFINE x == Pick(U)
             V == U \ {x}
  <2>4. V \in SUBSET S /\ V # U /\ x \in U /\ x \in S
    BY <2>2, <2>3, PickIn
  <2>5. SumOver(f, V) = SumOver(g, to(V))
    BY <2>1, <2>4
  <2>6. h[x] \in to(U) /\ to(U) \ {h[x]} = to(V)
    BY <2>2, <2>4
  <2>7. \A z \in to(U) : g[z] \in Int
    BY <2>2
  <2>8. SumOver(f, U) = f[x] + SumOver(f, V)
    BY <2>2, <2>3, SumPicks
  <2>9. g[h[x]] = f[x]
    BY <2>4
  <2>10. SumOver(g, to(U)) = g[h[x]] + SumOver(g, to(V))
    <3> HIDE DEF to, x, V
    <3> QED BY <2>2, <2>6, <2>7, SumTakesOut
  <2> HIDE DEF to, x, V
  <2> QED BY <2>1, <2>5, <2>8, <2>9, <2>10
<1>2. CASE B = {}
  <2>1. to(S) = T
    OBVIOUS
  <2>2. SumOver(f, S) = SumOver(g, to(S))
    BY <1>2
  <2> HIDE DEF to
  <2> QED BY <2>1, <2>2
<1> QED BY <1>1, <1>2

-----------------------------------------------------------------------------
(* Sums put together.                                                      *)

\* An element that is not there yet adds its value.
LEMMA SumInserted ==
  ASSUME NEW f, NEW S, IsFiniteSet(S), NEW x, x \notin S, f[x] \in Int,
         \A y \in S : f[y] \in Int
  PROVE  SumOver(f, S \cup {x}) = f[x] + SumOver(f, S)
<1>1. IsFiniteSet(S \cup {x}) /\ (S \cup {x}) \ {x} = S
  BY FS_AddElement
<1> QED BY <1>1, SumTakesOut

\* Two sets without a common element.
LEMMA SumUnion ==
  ASSUME NEW f, NEW S, NEW T, IsFiniteSet(S), IsFiniteSet(T), S \cap T = {},
         \A x \in S \cup T : f[x] \in Int
  PROVE  SumOver(f, S \cup T) = SumOver(f, S) + SumOver(f, T)
<1>1. IsFiniteSet(S \cup T) /\ S \subseteq S \cup T /\ (S \cup T) \ S = T
  BY FS_Union
<1> QED BY <1>1, SumSplits

\* One value throughout.
LEMMA SumConstant ==
  ASSUME NEW f, NEW S, IsFiniteSet(S), NEW a \in Int, \A x \in S : f[x] = a
  PROVE  SumOver(f, S) = a * Cardinality(S)
<1>0. \A x \in S : f[x] \in a..a
  OBVIOUS
<1>1. SumOver(f, S) \in (a * Cardinality(S))..(a * Cardinality(S))
  BY <1>0, SumBounds
<1>2. a * Cardinality(S) \in Int
  BY FS_CardinalityType
<1> QED BY <1>1, <1>2

\* Zeros add up to zero.
LEMMA SumOfZeros ==
  ASSUME NEW f, NEW S, IsFiniteSet(S), \A x \in S : f[x] = 0
  PROVE  SumOver(f, S) = 0
<1>1. SumOver(f, S) = 0 * Cardinality(S)
  BY SumConstant
<1> QED BY <1>1, FS_CardinalityType

\* Elements without a value of their own may be left out.
LEMMA SumOfOthers ==
  ASSUME NEW f, NEW S, IsFiniteSet(S), \A x \in S : f[x] \in Int,
         NEW T, T \subseteq S, \A x \in S \ T : f[x] = 0
  PROVE  SumOver(f, S) = SumOver(f, T)
<1>1. SumOver(f, S) = SumOver(f, T) + SumOver(f, S \ T)
  BY SumSplits
<1>2. IsFiniteSet(T) /\ IsFiniteSet(S \ T)
  BY FS_Subset
<1>3. SumOver(f, S \ T) = 0
  BY <1>2, SumOfZeros
<1>4. SumOver(f, T) \in Int
  BY <1>2, SumWhole
<1> QED BY <1>1, <1>3, <1>4

\* Adding up class by class adds up everything.
LEMMA SumByKey ==
  ASSUME NEW f, NEW S, IsFiniteSet(S), \A x \in S : f[x] \in Int,
         NEW key, NEW K, IsFiniteSet(K), \A x \in S : key[x] \in K,
         NEW part, \A k \in K : \A x : x \in part[k] <=> x \in S /\ key[x] = k,
         NEW g, \A k \in K : g[k] = SumOver(f, part[k])
  PROVE  SumOver(g, K) = SumOver(f, S)
<1> DEFINE of(s) == {x \in S : key[x] \in s}
           B == {s \in SUBSET K : SumOver(g, s) # SumOver(f, of(s))}
<1>1. CASE B # {}
  <2>0. B \subseteq SUBSET K
    OBVIOUS
  <2>1. PICK T \in B : \A U \in B : U \subseteq T => U = T
    <3> HIDE DEF B
    <3> QED BY <1>1, <2>0, LeastSubset
  <2>2. IsFiniteSet(T) /\ T \subseteq K /\ T # {}
    <3>1. SumOver(g, {}) = 0 /\ SumOver(f, {}) = 0 /\ of({}) = {}
      BY SumOfNothing
    <3>2. T \subseteq K /\ T # {}
      <4> HIDE DEF of
      <4> QED BY <3>1
    <3> QED BY <3>2, FS_Subset
  <2> DEFINE k == Pick(T)
             U == T \ {k}
             one == part[k]
  <2>3. U \in SUBSET K /\ U # T /\ k \in T /\ IsFiniteSet(U)
    BY <2>2, PickIn, FS_Subset
  <2>4. SumOver(g, U) = SumOver(f, of(U))
    BY <2>1, <2>3
  <2>5. SumOver(g, T) = SumOver(f, one) + SumOver(g, U)
    BY <2>2, <2>3, SumPicks
  <2>6. of(T) = of(U) \cup one /\ of(U) \cap one = {} /\ of(U) \subseteq S /\ one \subseteq S
    BY <2>3
  <2> HIDE DEF of, one, U, k
  <2>7. IsFiniteSet(of(U)) /\ IsFiniteSet(one) /\ \A x \in of(U) \cup one : f[x] \in Int
    BY <2>6, FS_Subset
  <2>8. SumOver(f, of(T)) = SumOver(f, of(U)) + SumOver(f, one)
    BY <2>6, <2>7, SumUnion
  <2>9. SumOver(f, of(U)) \in Int /\ SumOver(f, one) \in Int
    BY <2>7, SumWhole
  <2> QED BY <2>1, <2>4, <2>5, <2>8, <2>9
<1>2. CASE B = {}
  <2>1. SumOver(g, K) = SumOver(f, of(K)) /\ of(K) = S
    BY <1>2
  <2> HIDE DEF of
  <2> QED BY <2>1
<1> QED BY <1>1, <1>2
=============================================================================
