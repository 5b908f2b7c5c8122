---------------------------- MODULE FiguresProofs ----------------------------
(***************************************************************************)
(* What is proved of the figures of a version, for any number of grades,   *)
(* any history, prices, staff and expenses that the forms let through.  An *)
(* enrollment shown up to date is a fixed point of its calculation, and    *)
(* its nationalities add up to its headcounts; new pupils are shared out   *)
(* exactly; revenue brings what its items and its cells hold; the account  *)
(* counts every amount of the tables once; and what no mark is set for is  *)
(* what calculating it again would give.  All of it rests on the types of  *)
(* the tables, on every rounding being one of whole numbers, and on what   *)
(* the marks of the stale modules say of the tables.                       *)
(***************************************************************************)
EXTENDS BudgetYear, SumProofs, NaturalsInduction, SequenceTheorems

EnrollmentTypes ==
  /\ heads \in [Years \X Grades -> Nat \cup {None}]
  /\ cohort \in [Grades -> CohortRows \cup {None}]
  /\ rules \in Rules
  /\ split1 \in [Grades -> ModelRows \cup {None}]
  /\ split2 \in [Grades -> SplitRows \cup {None}]
  /\ DOMAIN history \subseteq Nat
  /\ \A k \in DOMAIN history : history[k] \in [Grades -> Nat \cup {None}]
  /\ detail \in [Cells -> Nat]
  /\ room \in [Grades -> Nat \ {0}]

FiguresInv == EnrollmentTypes /\ SplitsAddUp /\ EnrollmentIsStable

-----------------------------------------------------------------------------
(* Rounding.                                                               *)

\* Quotients are rounded to whole numbers.
LEMMA HalfUpWhole ==
  ASSUME NEW a \in Int, NEW b \in Nat \ {0}
  PROVE  HalfUp(a, b) \in Int /\ (a \in Nat => HalfUp(a, b) \in Nat)
<1>1. 2 * b \in Nat /\ 2 * b > 0 /\ 2 * a + b \in Int /\ 2 * (-a) + b \in Int
  OBVIOUS
<1>2. (2 * a + b) \div (2 * b) \in Int /\ (2 * (-a) + b) \div (2 * b) \in Int
  BY <1>1
<1>3. CASE a < 0
  BY <1>2, <1>3 DEF HalfUp
<1>4. CASE a >= 0
  <2>1. 2 * a + b >= 0
    BY <1>4
  <2>2. (2 * a + b) \div (2 * b) >= 0
    BY <1>1, <2>1
  <2> QED BY <1>2, <1>4, <2>2 DEF HalfUp
<1> QED BY <1>3, <1>4

\* A quotient cut off is a whole number.
LEMMA DownWhole ==
  ASSUME NEW a \in Int, NEW b \in Nat \ {0}
  PROVE  Down(a, b) \in Int
<1>1. a \div b \in Int /\ (-a) \div b \in Int
  OBVIOUS
<1> QED BY <1>1 DEF Down

\* A product of positive numbers is positive.
LEMMA PositiveProduct ==
  ASSUME NEW a \in Nat \ {0}, NEW b \in Nat \ {0}
  PROVE  a * b \in Nat \ {0}
  OBVIOUS

\* A quotient and its remainder.
LEMMA Quotient ==
  ASSUME NEW x \in Int, NEW d \in Nat \ {0}
  PROVE  x \div d \in Int /\ d * (x \div d) <= x /\ x < d * (x \div d) + d
  OBVIOUS

\* A rounded quotient is off by half a unit at most.
LEMMA HalfUpNear ==
  ASSUME NEW a \in Int, NEW b \in Nat \ {0}
  PROVE  /\ 2 * (b * HalfUp(a, b)) - 2 * a <= b
         /\ -b <= 2 * (b * HalfUp(a, b)) - 2 * a
<1>1. 2 * b \in Nat \ {0} /\ 2 * a + b \in Int /\ 2 * (-a) + b \in Int
  OBVIOUS
<1> DEFINE q == (2 * a + b) \div (2 * b)
           p == (2 * (-a) + b) \div (2 * b)
<1>2. q \in Int /\ (2 * b) * q <= 2 * a + b /\ 2 * a + b < (2 * b) * q + 2 * b
  BY <1>1, Quotient
<1>3. p \in Int /\ (2 * b) * p <= 2 * (-a) + b /\ 2 * (-a) + b < (2 * b) * p + 2 * b
  BY <1>1, Quotient
<1>4. HalfUp(a, b) = IF a < 0 THEN -p ELSE q
  BY DEF HalfUp
<1> HIDE DEF p, q
<1>5. b * (-p) = -(b * p) /\ (2 * b) * q = 2 * (b * q) /\ (2 * b) * p = 2 * (b * p)
  BY <1>2, <1>3
<1>6. b * p \in Int /\ b * q \in Int
  BY <1>2, <1>3
<1>7. CASE a < 0
  <2>1. HalfUp(a, b) = -p
    BY <1>4, <1>7
  <2> QED BY <1>3, <1>5, <1>6, <2>1
<1>8. CASE ~(a < 0)
  <2>1. HalfUp(a, b) = q
    BY <1>4, <1>8
  <2> QED BY <1>2, <1>5, <1>6, <2>1
<1> QED BY <1>7, <1>8

\* Net of a difference is the difference within one unit.
LEMMA RoundingOfDifference ==
  ASSUME NEW a \in Int, NEW d \in Int, NEW b \in Nat \ {0}
  PROVE  LET rest == HalfUp(a, b) - HalfUp(d, b) - HalfUp(a - d, b) IN
         -1 <= rest /\ rest <= 1
<1> DEFINE x == HalfUp(a, b)
           y == HalfUp(d, b)
           z == HalfUp(a - d, b)
           bx == b * x
           by == b * y
           bz == b * z
           r == x - y - z
<1>1. a - d \in Int
  OBVIOUS
<1>2. x \in Int /\ y \in Int /\ z \in Int
  BY <1>1, HalfUpWhole
<1>3. /\ 2 * bx - 2 * a <= b /\ -b <= 2 * bx - 2 * a
      /\ 2 * by - 2 * d <= b /\ -b <= 2 * by - 2 * d
      /\ 2 * bz - 2 * (a - d) <= b /\ -b <= 2 * bz - 2 * (a - d)
  BY <1>1, HalfUpNear
<1>4. bx \in Int /\ by \in Int /\ bz \in Int /\ b * r = bx - by - bz
  <2> HIDE DEF x, y, z
  <2> QED BY <1>2
<1> HIDE DEF bx, by, bz, x, y, z
<1>5. 2 * (b * r) <= 3 * b /\ -(3 * b) <= 2 * (b * r)
  BY <1>3, <1>4
<1>6. r \in Int
  BY <1>2
<1> HIDE DEF r
<1>7. ASSUME r >= 2  PROVE FALSE
  <2>1. b * r >= b * 2
    BY <1>6, <1>7
  <2> QED BY <1>5, <1>6, <2>1
<1>8. ASSUME r <= -2  PROVE FALSE
  <2>1. b * r <= b * (-2)
    BY <1>6, <1>8
  <2> QED BY <1>5, <1>6, <2>1
<1>9. -1 <= r /\ r <= 1
  BY <1>6, <1>7, <1>8
<1> QED BY <1>9 DEF r, x, y, z

\* Times a factor, a rounded quotient is still near.
LEMMA ScaledNear ==
  ASSUME NEW a \in Int, NEW b \in Nat \ {0}, NEW k \in Nat \ {0}
  PROVE  LET d == k * b IN
         /\ 2 * (d * HalfUp(a, b)) - 2 * (k * a) <= d
         /\ -d <= 2 * (d * HalfUp(a, b)) - 2 * (k * a)
<1> DEFINE q == HalfUp(a, b)
           x == 2 * (b * q) - 2 * a
<1>1. q \in Int
  BY HalfUpWhole
<1>2. x <= b /\ -b <= x
  BY HalfUpNear
<1> HIDE DEF q
<1>3. 2 * ((k * b) * q) - 2 * (k * a) = k * x
  BY <1>1
<1>4. x \in Int
  BY <1>1
<1> HIDE DEF x
<1>5. k * x <= k * b
  <2>1. k * (b - x) \in Nat
    BY <1>2, <1>4
  <2>2. k * (b - x) = k * b - k * x
    BY <1>4
  <2> HIDE DEF x
  <2>3. k * b \in Int /\ k * x \in Int
    BY <1>4
  <2> QED BY <2>1, <2>2, <2>3
<1>6. -(k * b) <= k * x
  <2>1. k * (b + x) \in Nat
    BY <1>2, <1>4
  <2>2. k * (b + x) = k * b + k * x
    BY <1>4
  <2>3. k * b \in Int /\ k * x \in Int
    BY <1>4
  <2> QED BY <2>1, <2>2, <2>3
<1> QED BY <1>3, <1>5, <1>6 DEF q

\* A fortieth and the rest, each rounded, are the whole or one more.
LEMMA ZakatShares ==
  ASSUME NEW b \in Nat \ {0}
  PROVE  LET taken == HalfUp(b, 40) + HalfUp(39 * b, 40) - b IN
         HalfUp(b, 40) \in Int /\ HalfUp(39 * b, 40) \in Int /\ 0 <= taken /\ taken <= 1
<1>1. HalfUp(b, 40) = (2 * b + 40) \div 80 /\ HalfUp(39 * b, 40) = (2 * (39 * b) + 40) \div 80
  BY DEF HalfUp
<1> QED BY <1>1

\* Of numbers one is the least.
LEMMA LeastNumber ==
  ASSUME NEW S, S \subseteq Nat, S # {}
  PROVE  \E x \in S : \A y \in S : x <= y
<1> DEFINE Below == {ss \in Nat \X Nat : ss[1] < ss[2]}
<1>1. IsWellFoundedOn(Below, Nat)
  BY NatLessThanWellFounded, Zenon DEF OpToRel
<1>2. PICK x \in S : \A y \in S : ~(<<y, x>> \in Below)
  BY <1>1, WFMin, Zenon
<1>3. ASSUME NEW y \in S, y < x  PROVE FALSE
  <2>1. <<y, x>> \in Nat \X Nat /\ <<y, x>>[1] = y /\ <<y, x>>[2] = x
    OBVIOUS
  <2>2. <<y, x>> \in Below
    BY <1>3, <2>1, Zenon
  <2> QED BY <1>2, <2>2, Zenon
<1>4. \A y \in S : x <= y
  <2>1. x \in Nat /\ \A y \in S : y \in Nat
    OBVIOUS
  <2> HIDE DEF Below
  <2> QED BY <1>3, <2>1
<1> QED BY <1>4, Zenon

\* Reconciling moves the difference to one nationality: together they are
\* as many as the grade (reconcileBreakdown).
LEMMA ReconciledAddsUp ==
  ASSUME NEW c \in Trio, NEW total \in Int
  PROVE  Reconciled(c, total) \in Trio /\ Heads(Reconciled(c, total)) = total
<1>1. c["Francais"] \in Int /\ c["Nationaux"] \in Int /\ c["Autres"] \in Int
  BY DEF Trio, Nationalities
<1>2. Largest(c) \in Nationalities
  BY DEF Largest, Nationalities
<1>3. CASE Largest(c) = "Francais"
  BY <1>1, <1>3 DEF Reconciled, Heads, Trio, Nationalities
<1>4. CASE Largest(c) = "Nationaux"
  BY <1>1, <1>4 DEF Reconciled, Heads, Trio, Nationalities
<1>5. CASE Largest(c) = "Autres"
  BY <1>1, <1>5 DEF Reconciled, Heads, Trio, Nationalities
<1> QED BY <1>2, <1>3, <1>4, <1>5 DEF Nationalities

-----------------------------------------------------------------------------
(* The years before.                                                       *)

\* Some years have an earliest one.
LEMMA LeastYear ==
  ASSUME NEW S, S \subseteq Nat, S # {}
  PROVE  Min(S) \in S
<1> DEFINE Below == {ss \in Nat \X Nat : ss[1] < ss[2]}
<1>1. IsWellFoundedOn(Below, Nat)
  BY NatLessThanWellFounded, Zenon DEF OpToRel
<1>2. PICK x \in S : \A y \in S : ~(<<y, x>> \in Below)
  BY <1>1, WFMin, Zenon
<1>3. ASSUME NEW y \in S, y < x  PROVE FALSE
  <2>1. <<y, x>> \in Nat \X Nat /\ <<y, x>>[1] = y /\ <<y, x>>[2] = x
    OBVIOUS
  <2>2. <<y, x>> \in Below
    BY <1>3, <2>1, Zenon
  <2> QED BY <1>2, <2>2, Zenon
<1>4. \A y \in S : x <= y
  <2>1. x \in Nat /\ \A y \in S : y \in Nat
    OBVIOUS
  <2> HIDE DEF Below
  <2> QED BY <1>3, <2>1
<1> QED BY <1>4, Zenon DEF Min

\* The later years of some are years of them.
LEMMA YearsLeft ==
  ASSUME NEW S, S \subseteq Nat
  PROVE  Rest(S) \subseteq S
  BY DEF Rest

\* A year that was observed has a headcount, and its feeder has pupils.
LEMMA PointsTyped ==
  ASSUME EnrollmentTypes, NEW g \in Grades \ {PS}, NEW S, S \subseteq Observed(g), S # {}
  PROVE  /\ history[Min(S)][g] \in Nat
         /\ history[Min(S) + 1][g - 1] \in Nat \ {0}
<1>1. g - 1 \in Grades
  BY EnrollmentAssumption DEF Grades, PS
<1>2. Observed(g) \subseteq DOMAIN history /\ DOMAIN history \subseteq Nat
  BY DEF Observed, EnrollmentTypes
<1>3. Min(S) \in S
  BY <1>2, LeastYear
<1> DEFINE k == Min(S)
<1>4. /\ k \in DOMAIN history /\ k + 1 \in DOMAIN history
      /\ history[k][g] # None /\ history[k + 1][g - 1] # None
      /\ history[k + 1][g - 1] > 0
  BY <1>3 DEF Observed
<1>5. history[k] \in [Grades -> Nat \cup {None}]
      /\ history[k + 1] \in [Grades -> Nat \cup {None}]
  BY <1>4 DEF EnrollmentTypes
<1>6. history[k][g] \in Nat /\ history[k + 1][g - 1] \in Nat
  BY <1>1, <1>4, <1>5
<1> QED BY <1>4, <1>6

\* A trend is a whole number of parts of One, if there is one.
LEMMA TrendTyped ==
  ASSUME EnrollmentTypes, NEW g \in Grades \ {PS}
  PROVE  TrendRatio(g) \in Int \cup {None}
<1> DEFINE one == Observed(g)
           two == Rest(one)
           three == Rest(two)
           to(years) == history[Min(years)][g]
           from(years) == history[Min(years) + 1][g - 1]
           w == rules.retentionWeight
<1>1. one \subseteq Nat /\ two \subseteq one /\ three \subseteq two
  BY YearsLeft DEF EnrollmentTypes, Observed, Rest
<1>2. \A years : years \subseteq one /\ years # {} =>
        to(years) \in Nat /\ from(years) \in Nat \ {0}
  BY PointsTyped
<1>3. w \in Int /\ One \in Nat \ {0}
  BY AmountsAssumption DEF EnrollmentTypes, Rules
<1>4. CASE one = {}
  BY <1>4 DEF TrendRatio
<1>5. CASE one # {} /\ two = {}
  <2>1. to(one) * One \in Int /\ from(one) \in Nat \ {0}
    BY <1>2, <1>3, <1>5
  <2>2. HalfUp(to(one) * One, from(one)) \in Int
    BY <2>1, HalfUpWhole
  <2> QED BY <1>5, <2>2 DEF TrendRatio
<1>6. CASE one # {} /\ two # {} /\ three = {}
  <2>1. /\ to(one) \in Nat /\ from(one) \in Nat \ {0}
        /\ to(two) \in Nat /\ from(two) \in Nat \ {0}
    BY <1>1, <1>2, <1>6
  <2>2. from(one) * from(two) \in Nat \ {0}
    BY <2>1, PositiveProduct
  <2> HIDE DEF to, from, w
  <2>3. w * to(one) * from(two) + (One - w) * to(two) * from(one) \in Int
    BY <1>3, <2>1
  <2>4. HalfUp(w * to(one) * from(two) + (One - w) * to(two) * from(one),
               from(one) * from(two)) \in Int
    BY <2>2, <2>3, HalfUpWhole
  <2> QED BY <1>6, <2>4 DEF TrendRatio, to, from, w
<1>7. CASE one # {} /\ two # {} /\ three # {}
  <2>1. /\ to(one) \in Nat /\ from(one) \in Nat \ {0}
        /\ to(two) \in Nat /\ from(two) \in Nat \ {0}
        /\ to(three) \in Nat /\ from(three) \in Nat \ {0}
    BY <1>1, <1>2, <1>7
  <2> HIDE DEF to, from, w
  <2>2. 3 * from(one) * from(two) * from(three) \in Nat \ {0}
    BY <2>1, PositiveProduct
  <2> DEFINE sum == 3 * w * to(one) * from(two) * from(three)
                    + (One - w) * (2 * to(two) * from(one) * from(three)
                                     + to(three) * from(one) * from(two))
  <2>3. sum \in Int
    BY <1>3, <2>1
  <2>4. HalfUp(sum, 3 * from(one) * from(two) * from(three)) \in Int
    BY <2>2, <2>3, HalfUpWhole
  <2> QED BY <1>7, <2>4 DEF TrendRatio, to, from, w
<1> QED BY <1>4, <1>5, <1>6, <1>7

\* So is the target of retention.
LEMMA TargetTyped ==
  ASSUME EnrollmentTypes, NEW g \in Grades
  PROVE  Target(g) \in Int \cup {None}
<1> DEFINE of(years) == IF years = {} THEN None ELSE history[Min(years)][g]
           latest == of(DOMAIN history)
           before == IF DOMAIN history = {} THEN None ELSE of(Rest(DOMAIN history))
           w == rules.targetWeight
<1>1. \A years : years \subseteq DOMAIN history => of(years) \in Nat \cup {None}
  BY LeastYear DEF EnrollmentTypes
<1>2. latest \in Nat \cup {None} /\ before \in Nat \cup {None}
  BY <1>1, YearsLeft DEF EnrollmentTypes, Rest
<1>3. w \in Int /\ One \in Nat \ {0}
  BY AmountsAssumption DEF EnrollmentTypes, Rules
<1>4. CASE latest # None /\ before # None
  <2>1. latest \in Nat /\ before \in Nat
    BY <1>2, <1>4
  <2> HIDE DEF latest, before, w
  <2>2. latest * w + before * (One - w) \in Int
    BY <2>1, <1>3
  <2>3. HalfUp(latest * w + before * (One - w), One) \in Int
    BY <2>2, <1>3, HalfUpWhole
  <2> QED BY <1>4, <2>3 DEF Target, latest, before, w
<1>5. CASE latest = None \/ before = None
  <2>1. Target(g) = IF latest = None THEN before ELSE latest
    BY <1>5 DEF Target
  <2> HIDE DEF latest, before
  <2> QED BY <1>2, <2>1
<1> QED BY <1>4, <1>5

-----------------------------------------------------------------------------
(* The calculation.                                                        *)

\* Rates, adjustments and pupils retained are whole.
LEMMA RetainedTyped ==
  ASSUME EnrollmentTypes, NEW g \in Grades
  PROVE  Rate(g) \in Int /\ Adjustment(g) \in Int /\ Retained(g) \in Int
<1>1. One \in Nat \ {0} /\ rules.threshold \in Int
  BY AmountsAssumption DEF EnrollmentTypes, Rules
<1>2. g # PS => TrendRatio(g) \in Int \cup {None}
  BY TrendTyped
<1>3. DefaultRate(g) \in Int
  BY <1>1, <1>2 DEF DefaultRate, Or, CapAt
<1>4. Rate(g) \in Int /\ Adjustment(g) \in Int
  BY <1>3 DEF Rate, Adjustment, EnrollmentTypes, CohortRows
<1>5. CASE g = PS
  BY <1>4, <1>5 DEF Retained
<1>6. CASE g # PS
  <2>1. Applied(g) \in Int
    BY <1>1, <1>2, <1>4, <1>6 DEF Applied, Or, CapAt
  <2>2. AY1(g - 1) \in Nat \cup {None}
    <3>1. g - 1 \in Grades
      BY <1>6, EnrollmentAssumption DEF Grades, PS
    <3>2. <<"AY1", g - 1>> \in Years \X Grades
      BY <3>1 DEF Years
    <3> QED BY <3>2 DEF AY1, EnrollmentTypes
  <2>3. Or(AY1(g - 1), 0) \in Int
    BY <2>2 DEF Or
  <2>4. Or(AY1(g - 1), 0) * Applied(g) \in Int
    BY <2>1, <2>3
  <2>5. HalfUp(Or(AY1(g - 1), 0) * Applied(g), One) \in Int
    BY <1>1, <2>4, HalfUpWhole
  <2> QED BY <1>4, <1>6, <2>5 DEF Retained
<1> QED BY <1>5, <1>6

\* Headcounts are never negative, whatever the form adjusts.
LEMMA NewHeadsTyped ==
  ASSUME EnrollmentTypes, NEW g \in Grades
  PROVE  NewHeads(g) \in Nat /\ NewCohort(g) \in CohortRows
<1>1. Rate(g) \in Int /\ Adjustment(g) \in Int /\ Retained(g) \in Int
  BY RetainedTyped
<1>2. NewCohort(g) \in CohortRows
  BY <1>1 DEF NewCohort, CohortRows
<1>3. CASE g = PS
  <2>1. AY1(PS) \in Nat \cup {None} /\ AY2(PS) \in Nat \cup {None}
    <3>1. <<"AY1", PS>> \in Years \X Grades /\ <<"AY2", PS>> \in Years \X Grades
      BY <1>3 DEF Years
    <3> QED BY <3>1 DEF AY1, AY2, EnrollmentTypes
  <2>2. Intake \in Nat
    BY <2>1, EnrollmentAssumption DEF Intake, Or
  <2> QED BY <1>2, <1>3, <2>2 DEF NewHeads
<1>4. CASE g # PS
  <2>1. Laterals(g) \in Int
    BY <1>1, TargetTyped DEF Laterals, Or, AtLeast
  <2> QED BY <1>1, <1>2, <1>4, <2>1 DEF NewHeads, AtLeast
<1> QED BY <1>3, <1>4

\* So are the parts of a grade.
LEMMA CountsTyped ==
  ASSUME EnrollmentTypes, NEW g \in Grades, NEW total \in Nat
  PROVE  Counts(g, total) \in Trio
<1>1. One \in Nat \ {0} /\ Fallback \in Counted
  BY AmountsAssumption, EnrollmentAssumption
<1>2. Model(g) \in ModelRows \cup {None}
  <2>1. (IF g = PS THEN PS ELSE g - 1) \in Grades
    BY EnrollmentAssumption DEF Grades, PS
  <2> QED BY <2>1 DEF Model, EnrollmentTypes
<1>3. ASSUME NEW w \in Trio
      PROVE  ByWeights(total, w) \in Trio
  <2>1. ASSUME NEW n \in Nationalities PROVE HalfUp(total * w[n], One) \in Int
    <3>1. w[n] \in Int
      BY <1>3 DEF Trio
    <3>2. total * w[n] \in Int
      BY <3>1
    <3> QED BY <1>1, <3>2, HalfUpWhole
  <2> QED BY <2>1 DEF ByWeights, Trio
<1>4. Counted \subseteq Trio
  BY DEF Counted, Trio
<1>5. ASSUME NEW c \in Counted, Heads(c) > 0
      PROVE  ByHeads(total, c) \in Trio /\ WeightsOf(c) \in Trio
  <2>1. Heads(c) \in Nat \ {0}
    BY <1>5 DEF Counted, Heads, Nationalities
  <2>2. ASSUME NEW n \in Nationalities
        PROVE  HalfUp(total * c[n], Heads(c)) \in Int /\ HalfUp(One * c[n], Heads(c)) \in Int
    <3>1. c[n] \in Int
      BY DEF Counted
    <3>2. total * c[n] \in Int /\ One * c[n] \in Int
      BY <1>1, <3>1
    <3> QED BY <2>1, <3>2, HalfUpWhole
  <2> QED BY <2>1, <2>2 DEF ByHeads, WeightsOf, Trio
<1>6. ASSUME NEW c \in Counted
      PROVE  WeightsOf(c) \in Trio
  <2>1. CASE Heads(c) = 0
    BY <2>1 DEF WeightsOf, Trio, Nobody
  <2>2. CASE Heads(c) # 0
    <3>1. Heads(c) > 0
      BY <2>2 DEF Counted, Heads, Nationalities
    <3> QED BY <1>5, <3>1
  <2> QED BY <2>1, <2>2
<1>7. CASE Model(g) = None
  BY <1>1, <1>3, <1>4, <1>7 DEF Counts
<1>8. CASE Model(g) # None
  <2>1. Model(g).heads \in Counted /\ Model(g).weights \in Counted
    BY <1>2, <1>8 DEF ModelRows
  <2> QED BY <1>3, <1>4, <1>5, <1>6, <1>8, <2>1 DEF Counts
<1> QED BY <1>7, <1>8

\* A split calculated is a row of the table and adds up.
LEMMA SplitUpTyped ==
  ASSUME EnrollmentTypes, NEW g \in Grades, NEW total \in Nat
  PROVE  /\ SplitUp(total, g) \in SplitRows \cup {None}
         /\ total > 0 \/ g = PS \/ Model(g) # None =>
              /\ Heads(SplitUp(total, g).heads) = total
              /\ ~SplitUp(total, g).overridden
<1>1. CASE total > 0
  <2> DEFINE c == Reconciled(Counts(g, total), total)
  <2>1. c \in Trio /\ Heads(c) = total
    BY CountsTyped, ReconciledAddsUp
  <2>2. SplitUp(total, g) = [heads |-> c, overridden |-> FALSE]
    BY <1>1 DEF SplitUp
  <2> HIDE DEF c
  <2> QED BY <2>1, <2>2 DEF SplitRows
<1>2. CASE ~(total > 0) /\ (g = PS \/ Model(g) # None)
  <2>1. SplitUp(total, g) = [heads |-> Nobody, overridden |-> FALSE]
    BY <1>2 DEF SplitUp
  <2>2. Nobody \in Trio /\ Heads(Nobody) = 0 /\ total = 0
    BY <1>2 DEF Nobody, Trio, Heads, Nationalities
  <2> QED BY <2>1, <2>2 DEF SplitRows
<1>3. CASE ~(total > 0) /\ g # PS /\ Model(g) = None
  <2>1. SplitUp(total, g) = split2[g]
    BY <1>3 DEF SplitUp
  <2> QED BY <1>3, <2>1 DEF EnrollmentTypes
<1> QED BY <1>1, <1>2, <1>3

\* A calculation leaves rows of the types of the tables.
LEMMA CalculationTyped ==
  ASSUME EnrollmentTypes, CalculateEnrollment
  PROVE  EnrollmentTypes'
<1>1. heads' = [k \in Years \X Grades |-> IF k[1] = "AY1" THEN heads[k] ELSE NewHeads(k[2])]
  BY DEF CalculateEnrollment, Computed, NewHeadcounts
<1>2. heads' \in [Years \X Grades -> Nat \cup {None}]
  <2>1. ASSUME NEW k \in Years \X Grades
        PROVE  heads[k] \in Nat \cup {None} /\ NewHeads(k[2]) \in Nat
    BY NewHeadsTyped DEF EnrollmentTypes
  <2> QED BY <1>1, <2>1
<1>3. cohort' \in [Grades -> CohortRows \cup {None}]
  BY NewHeadsTyped DEF CalculateEnrollment, Computed
<1>4. split2' \in [Grades -> SplitRows \cup {None}]
  <2>1. ASSUME NEW g \in Grades PROVE NewSplit(g) \in SplitRows \cup {None}
    BY NewHeadsTyped, SplitUpTyped DEF NewSplit, EnrollmentTypes
  <2> QED BY <2>1 DEF CalculateEnrollment, Computed
<1> QED BY <1>2, <1>3, <1>4 DEF EnrollmentTypes, CalculateEnrollment

\* What it stores as a split that nobody overrode adds up.
LEMMA CalculationAddsUp ==
  ASSUME EnrollmentTypes, CalculateEnrollment
  PROVE  SplitsAddUp'
<1> SUFFICES ASSUME NEW g \in Grades,
                    split2'[g] # None, ~Overridden(g)',
                    AY2(g)' > 0 \/ g = PS \/ Model(g)' # None
             PROVE  Heads(split2'[g].heads) = AY2(g)'
  BY DEF SplitsAddUp, Heads
<1>1. AY2(g)' = NewHeads(g) /\ NewHeads(g) \in Nat
  <2>1. <<"AY2", g>> \in Years \X Grades
    BY DEF Years
  <2> QED BY <2>1, NewHeadsTyped DEF CalculateEnrollment, Computed, NewHeadcounts, AY2
<1>2. split2'[g] = NewSplit(g)
  BY DEF CalculateEnrollment, Computed
<1>3. Model(g)' = Model(g)
  BY DEF CalculateEnrollment, Model
<1>4. ~Overridden(g)
  <2>1. CASE Overridden(g)
    <3>1. split2'[g] = split2[g]
      BY <1>2, <2>1 DEF NewSplit
    <3> QED BY <2>1, <3>1 DEF Overridden
  <2> QED BY <2>1
<1>5. split2'[g] = SplitUp(NewHeads(g), g)
  BY <1>2, <1>4 DEF NewSplit
<1> QED BY <1>1, <1>3, <1>5, SplitUpTyped

\* Calculated again at once, it would leave what it left.
LEMMA CalculationIsStable ==
  ASSUME EnrollmentTypes, CalculateEnrollment
  PROVE  EnrollmentIsStable'
<1>1. /\ history' = history /\ rules' = rules /\ split1' = split1 /\ room' = room
      /\ heads' = NewHeadcounts /\ capacity' = NewCapacity
      /\ \A g \in Grades : cohort'[g] = NewCohort(g) /\ split2'[g] = NewSplit(g)
      /\ cohort' = [g \in Grades |-> NewCohort(g)] /\ split2' = [g \in Grades |-> NewSplit(g)]
  BY DEF CalculateEnrollment, Computed
<1>2. \A g \in Grades : TrendRatio(g)' = TrendRatio(g) /\ Target(g)' = Target(g)
  <2> TAKE g \in Grades
  <2>1. history' = history /\ rules' = rules
    BY <1>1
  <2>2. Observed(g)' = Observed(g)
    BY <2>1 DEF Observed
  <2>3. TrendRatio(g)' = TrendRatio(g)
    BY <2>1, <2>2 DEF TrendRatio
  <2>4. Target(g)' = Target(g)
    BY <2>1 DEF Target
  <2> QED BY <2>3, <2>4
<1>3. \A g \in Grades : AY1(g)' = AY1(g) /\ AY2(g)' = NewHeads(g)
  <2>1. \A g \in Grades : <<"AY1", g>> \in Years \X Grades /\ <<"AY2", g>> \in Years \X Grades
    BY DEF Years
  <2> QED BY <1>1, <2>1 DEF NewHeadcounts, AY1, AY2
<1>4. \A g \in Grades : Rate(g)' = Rate(g) /\ Adjustment(g)' = Adjustment(g)
  BY <1>1, NewHeadsTyped, EnrollmentAssumption DEF NewCohort, Rate, Adjustment
<1>5. \A g \in Grades : Retained(g)' = Retained(g)
  <2> TAKE g \in Grades
  <2>1. CASE g = PS
    BY <2>1 DEF Retained
  <2>2. CASE g # PS
    <3>1. g - 1 \in Grades
      BY <2>2, EnrollmentAssumption DEF Grades, PS
    <3>2. AY1(g - 1)' = AY1(g - 1)
      BY <1>3, <3>1
    <3>3. Overflows(g)' = Overflows(g)
      BY <1>1, <1>2 DEF Overflows
    <3>4. Applied(g)' = Applied(g)
      BY <1>2, <1>4, <3>3 DEF Applied
    <3> QED BY <2>2, <3>2, <3>4 DEF Retained
  <2> QED BY <2>1, <2>2
<1>6. \A g \in Grades : NewHeads(g)' = NewHeads(g) /\ NewCohort(g)' = NewCohort(g)
  <2> TAKE g \in Grades
  <2>1. NewCohort(g)' = NewCohort(g)
    BY <1>4, <1>5 DEF NewCohort
  <2>2. CASE g = PS
    <3>1. AY2(PS)' = Intake /\ Intake \in Nat
      BY <1>3, <2>2, NewHeadsTyped DEF NewHeads
    <3>2. Intake' = Intake
      BY <3>1, EnrollmentAssumption DEF Intake, Or
    <3> QED BY <2>1, <2>2, <3>2 DEF NewHeads
  <2>3. CASE g # PS
    <3>1. Laterals(g)' = Laterals(g)
      BY <1>2, <1>5 DEF Laterals
    <3> QED BY <1>4, <1>5, <2>1, <2>3, <3>1 DEF NewHeads
  <2> QED BY <2>2, <2>3
<1>7. \A g \in Grades : NewSplit(g)' = NewSplit(g)
  <2> TAKE g \in Grades
  <2>1. CASE Overridden(g)
    <3>1. split2'[g] = split2[g]
      BY <1>1, <2>1 DEF NewSplit
    <3>2. Overridden(g)'
      BY <2>1, <3>1 DEF Overridden
    <3> QED BY <2>1, <3>1, <3>2 DEF NewSplit
  <2>2. CASE ~Overridden(g)
    <3> DEFINE t == NewHeads(g)
    <3>1. t \in Nat /\ split2'[g] = SplitUp(t, g)
      BY <1>1, <2>2, NewHeadsTyped DEF NewSplit
    <3>2. ~Overridden(g)'
      <4>1. CASE t > 0 \/ g = PS \/ Model(g) # None
        BY <3>1, <4>1, SplitUpTyped DEF Overridden
      <4>2. CASE ~(t > 0) /\ g # PS /\ Model(g) = None
        <5>1. split2'[g] = split2[g]
          BY <3>1, <4>2 DEF SplitUp
        <5> QED BY <2>2, <5>1 DEF Overridden
      <4> QED BY <4>1, <4>2
    <3>3. Model(g)' = Model(g)
      BY <1>1 DEF Model
    <3>4. Counts(g, t)' = Counts(g, t)
      BY <1>6, <3>3 DEF Counts
    <3>5. t' = t
      BY <1>6
    <3>6. SplitUp(t, g)' = SplitUp(t, g)
      <4>1. CASE t > 0
        BY <3>4, <3>5, <4>1 DEF SplitUp
      <4>2. CASE ~(t > 0) /\ (g = PS \/ Model(g) # None)
        BY <3>3, <3>5, <4>2 DEF SplitUp
      <4>3. CASE ~(t > 0) /\ g # PS /\ Model(g) = None
        BY <3>1, <3>3, <3>5, <4>3 DEF SplitUp
      <4> QED BY <4>1, <4>2, <4>3
    <3> QED BY <2>2, <3>2, <3>6 DEF NewSplit
  <2> QED BY <2>1, <2>2
<1>8. NewHeadcounts' = NewHeadcounts
  <2>1. \A k \in Years \X Grades :
          /\ k[1] = "AY1" => heads'[k] = heads[k]
          /\ NewHeads(k[2])' = NewHeads(k[2])
    BY <1>1, <1>6 DEF NewHeadcounts
  <2> QED BY <2>1 DEF NewHeadcounts
<1>9. NewCapacity' = NewCapacity
  <2>1. \A k \in Years \X Grades :
          NewHeadcounts[k] = None => capacity'[k] = capacity[k]
    BY <1>1 DEF NewCapacity
  <2>2. \A k \in Years \X Grades :
          CapacityOf(NewHeadcounts[k], k[2])' = CapacityOf(NewHeadcounts[k], k[2])
    BY <1>1, <1>8 DEF CapacityOf
  <2> QED BY <1>8, <2>1, <2>2 DEF NewCapacity
<1> QED BY <1>1, <1>6, <1>7, <1>8, <1>9 DEF EnrollmentIsStable, Computed

-----------------------------------------------------------------------------
(* The steps.                                                              *)

\* The tables a calculation of enrollment reads, but for the detail, which
\* it does not.
inputs == <<heads, cohort, rules, split1, split2, room, capacity, history>>

\* Equal tables give equal calculations.
LEMMA SameInputs ==
  ASSUME UNCHANGED inputs
  PROVE  Computed' = Computed
<1>1. /\ heads' = heads /\ cohort' = cohort /\ rules' = rules /\ split1' = split1
      /\ split2' = split2 /\ room' = room /\ capacity' = capacity /\ history' = history
  BY DEF inputs
<1>2. \A g : AY1(g)' = AY1(g) /\ AY2(g)' = AY2(g) /\ Model(g)' = Model(g)
  BY <1>1 DEF AY1, AY2, Model
<1>3. \A g \in Grades : TrendRatio(g)' = TrendRatio(g) /\ Target(g)' = Target(g)
  <2> TAKE g \in Grades
  <2>1. Observed(g)' = Observed(g)
    BY <1>1 DEF Observed
  <2>2. TrendRatio(g)' = TrendRatio(g)
    BY <1>1, <2>1 DEF TrendRatio
  <2>3. Target(g)' = Target(g)
    BY <1>1 DEF Target
  <2> QED BY <2>2, <2>3
<1>4. \A g \in Grades : Overflows(g)' = Overflows(g)
  BY <1>1, <1>3 DEF Overflows
<1>5. \A g \in Grades : Rate(g)' = Rate(g) /\ Adjustment(g)' = Adjustment(g)
  BY <1>1, <1>3, <1>4 DEF Rate, Adjustment, DefaultRate
<1>6. \A g \in Grades : Retained(g)' = Retained(g)
  BY <1>2, <1>3, <1>4, <1>5 DEF Retained, Applied
<1>7. \A g \in Grades : NewHeads(g)' = NewHeads(g) /\ NewCohort(g)' = NewCohort(g)
  BY <1>2, <1>3, <1>5, <1>6 DEF NewHeads, NewCohort, Laterals, Intake
<1>8. \A g \in Grades : NewSplit(g)' = NewSplit(g)
  <2> TAKE g \in Grades
  <2> DEFINE t == NewHeads(g)
  <2>1. t' = t
    BY <1>7
  <2>2. Counts(g, t)' = Counts(g, t)
    BY <1>2, <2>1 DEF Counts
  <2>3. SplitUp(t, g)' = SplitUp(t, g)
    BY <1>1, <1>2, <2>1, <2>2 DEF SplitUp
  <2> QED BY <1>1, <2>3 DEF NewSplit, Overridden
<1>9. NewHeadcounts' = NewHeadcounts
  <2>1. \A k \in Years \X Grades : NewHeads(k[2])' = NewHeads(k[2])
    BY <1>7
  <2> QED BY <1>1, <2>1 DEF NewHeadcounts
<1>10. NewCapacity' = NewCapacity
  BY <1>1, <1>9 DEF NewCapacity, CapacityOf
<1> QED BY <1>7, <1>8, <1>9, <1>10 DEF Computed

\* What leaves the tables of enrollment and their mark alone keeps what holds of them.
LEMMA Untouched ==
  ASSUME FiguresInv, UNCHANGED inputs, detail' \in [Cells -> Nat],
         "ENROLLMENT" \in stale => "ENROLLMENT" \in stale'
  PROVE  FiguresInv'
<1>1. EnrollmentTypes'
  BY DEF FiguresInv, EnrollmentTypes, inputs
<1>2. SplitsAddUp'
  <2>1. \A g \in Grades : Overridden(g)' = Overridden(g) /\ AY2(g)' = AY2(g) /\ Model(g)' = Model(g)
    BY DEF inputs, Overridden, AY2, Model
  <2>2. split2' = split2
    BY DEF inputs
  <2> QED BY <2>1, <2>2 DEF FiguresInv, SplitsAddUp
<1>3. EnrollmentIsStable'
  <2>1. /\ heads' = heads /\ cohort' = cohort /\ split2' = split2 /\ capacity' = capacity
    BY DEF inputs
  <2> QED BY <2>1, SameInputs DEF FiguresInv, EnrollmentIsStable
<1> QED BY <1>1, <1>2, <1>3 DEF FiguresInv

\* A form that marks enrollment promises nothing of the figures.
LEMMA Marked ==
  ASSUME EnrollmentTypes', "ENROLLMENT" \in stale'
  PROVE  FiguresInv'
  BY DEF FiguresInv, SplitsAddUp, EnrollmentIsStable

\* Cells sent along hold parts of a headcount.
LEMMA DetailTyped ==
  ASSUME EnrollmentTypes, PutDetail
  PROVE  detail' \in [Cells -> Nat]
<1> DEFINE total(k) == Or(heads[k], 0)
           some(few, k) == IF few THEN CapAt(1, total(k)) ELSE total(k)
<1>1. PICK scope \in DetailScopes, n \in Nationalities, t \in Tariffs, few \in BOOLEAN :
        detail' =
          [c \in Cells |->
             IF /\ <<c[1], c[2]>> \in scope
                /\ c[3] = n \/ (few /\ c[3] = "Francais")
                /\ c[4] = IF c[3] = n THEN t ELSE "Plein"
             THEN IF c[3] = n THEN some(few, <<c[1], c[2]>>)
                  ELSE total(<<c[1], c[2]>>) - some(few, <<c[1], c[2]>>)
             ELSE detail[c]]
  BY DEF PutDetail
<1>2. ASSUME NEW c \in Cells
      PROVE  /\ detail[c] \in Nat
             /\ some(few, <<c[1], c[2]>>) \in Nat
             /\ total(<<c[1], c[2]>>) - some(few, <<c[1], c[2]>>) \in Nat
  <2>1. <<c[1], c[2]>> \in Years \X Grades
    BY DEF Cells
  <2>2. total(<<c[1], c[2]>>) \in Nat
    BY <2>1 DEF EnrollmentTypes, Or
  <2>3. detail[c] \in Nat
    BY DEF EnrollmentTypes
  <2> HIDE DEF total
  <2> QED BY <2>2, <2>3 DEF CapAt
<1> HIDE DEF total, some
<1> QED BY <1>1, <1>2

\* Every form of enrollment keeps what holds of the tables.
LEMMA FormsKeep ==
  ASSUME FiguresInv, EditEnrollment
  PROVE  FiguresInv'
<1> USE DEF FiguresInv
<1>1. Sent(EnrollmentMarks) => "ENROLLMENT" \in stale'
  BY DEF Sent, EnrollmentMarks
<1>2. CASE PutHeadcount
  <2>1. heads' \in [Years \X Grades -> Nat \cup {None}]
    BY <1>2, EnrollmentAssumption DEF PutHeadcount, EnrollmentTypes
  <2>2. EnrollmentTypes'
    BY <1>2, <2>1 DEF PutHeadcount, EnrollmentTypes
  <2> QED BY <1>1, <1>2, <2>2, Marked DEF PutHeadcount
<1>3. CASE PutCohort
  <2>1. PICK g \in Grades, rate \in Rates, a \in Adjustments :
          cohort' = [cohort EXCEPT ![g] = Parameters(g, rate, a)]
    BY <1>3 DEF PutCohort
  <2>2. cohort[g] # None => cohort[g].retained \in Int \cup {None}
    BY DEF EnrollmentTypes, CohortRows
  <2>3. Parameters(g, rate, a) \in CohortRows
    BY <2>2, EnrollmentAssumption, AmountsAssumption DEF Parameters, CohortRows
  <2>4. EnrollmentTypes'
    BY <1>3, <2>1, <2>3 DEF PutCohort, EnrollmentTypes
  <2> QED BY <1>1, <1>3, <2>4, Marked DEF PutCohort
<1>4. CASE PutRules
  <2>1. EnrollmentTypes'
    BY <1>4, EnrollmentAssumption DEF PutRules, EnrollmentTypes
  <2> QED BY <1>1, <1>4, <2>1, Marked DEF PutRules
<1>5. CASE PutSettings
  <2>1. EnrollmentTypes'
    BY <1>5, EnrollmentAssumption DEF PutSettings, EnrollmentTypes
  <2> QED BY <1>1, <1>5, <2>1, Marked DEF PutSettings
<1>6. CASE PutNationalities
  <2>1. PICK g \in Grades, c \in Overrides :
          split2' = [split2 EXCEPT ![g] = [heads |-> c, overridden |-> TRUE]]
    BY <1>6 DEF PutNationalities
  <2>2. [heads |-> c, overridden |-> TRUE] \in SplitRows
    BY EnrollmentAssumption DEF SplitRows, Counted, Trio
  <2>3. EnrollmentTypes'
    BY <1>6, <2>1, <2>2 DEF PutNationalities, EnrollmentTypes
  <2> QED BY <1>1, <1>6, <2>3, Marked DEF PutNationalities
<1>7. CASE ResetNationalities
  <2>1. EnrollmentTypes'
    BY <1>7 DEF ResetNationalities, EnrollmentTypes
  <2> QED BY <1>1, <1>7, <2>1, Marked DEF ResetNationalities
<1>8. CASE PutDetail
  <2>1. detail' \in [Cells -> Nat]
    BY <1>8, DetailTyped
  <2> QED BY <1>8, <2>1, Untouched DEF PutDetail, Sent, inputs
<1> QED BY <1>2, <1>3, <1>4, <1>5, <1>6, <1>7, <1>8 DEF EditEnrollment

\* So does every step.
LEMMA StepsKeepFigures ==
  ASSUME FiguresInv, [Next]_budget
  PROVE  FiguresInv'
<1> USE DEF enrollment
<1>0. detail \in [Cells -> Nat]
  BY DEF FiguresInv, EnrollmentTypes
<1>1. CASE EditPupils
  BY <1>1, FormsKeep DEF EditPupils
<1>2. CASE Pupils
  BY <1>2, CalculationTyped, CalculationAddsUp, CalculationIsStable DEF Pupils, FiguresInv
<1>3. CASE PutFees \/ PutItems
  BY <1>3, <1>0, Untouched DEF PutFees, PutItems, Sent, inputs
<1>4. CASE EditSettings
  BY <1>4, <1>0, Untouched DEF EditSettings, Sent, inputs
<1>5. CASE CreateEmployee \/ UpdateEmployee \/ DeleteEmployee
  BY <1>5, <1>0, Untouched DEF CreateEmployee, UpdateEmployee, DeleteEmployee, StaffSent, Sent, inputs
<1>6. CASE PutCategories \/ PutTerms \/ PutGroups \/ PutProfiles
  BY <1>6, <1>0, Untouched
     DEF PutCategories, PutTerms, PutGroups, PutProfiles, SettingSent, StaffSent, Sent, inputs
<1>7. CASE EditExpenses \/ EditExpensesUnmarked
  BY <1>7, <1>0, Untouched DEF EditExpenses, EditExpensesUnmarked, Sent, inputs
<1>8. CASE CalculateRevenue
  BY <1>8, <1>0, Untouched DEF CalculateRevenue, inputs
<1>9. CASE CalculateStaffing
  BY <1>9, <1>0, Untouched DEF CalculateStaffing, inputs
<1>10. CASE CalculateOpEx
  BY <1>10, <1>0, Untouched DEF CalculateOpEx, inputs
<1>11. CASE CalculatePnl
  BY <1>11, <1>0, Untouched DEF CalculatePnl, inputs
<1>12. CASE UNCHANGED budget
  BY <1>12, <1>0, Untouched DEF budget, enrollmentVars, inputs
<1> QED
  BY <1>1, <1>2, <1>3, <1>4, <1>5, <1>6, <1>7, <1>8, <1>9, <1>10, <1>11, <1>12 DEF Next

\* It holds at the start.
LEMMA FiguresInitially ==
  ASSUME Init
  PROVE  FiguresInv
<1>1. PICK d \in Drafts :
        /\ history = d.history /\ split1 = d.split1 /\ rules = d.rules
        /\ heads = [k \in Years \X Grades |-> IF k[1] = "AY1" THEN d.ay1[k[2]] ELSE None]
        /\ cohort = [g \in Grades |-> None] /\ split2 = [g \in Grades |-> None]
        /\ room = [g \in Grades |-> d.room]
        /\ detail = [c \in Cells |-> IF c \in DOMAIN d.detail THEN d.detail[c] ELSE 0]
  BY DEF Init, EnrollmentInit
<1>2. \A k \in Years \X Grades : d.ay1[k[2]] \in Nat \cup {None}
  BY DraftsAssumption
<1>3. heads \in [Years \X Grades -> Nat \cup {None}]
  BY <1>1, <1>2
<1>4. EnrollmentTypes
  BY <1>1, <1>3, DraftsAssumption DEF EnrollmentTypes
<1>5. "ENROLLMENT" \in stale
  BY DEF Init, Modules
<1> QED BY <1>4, <1>5 DEF FiguresInv, SplitsAddUp, EnrollmentIsStable

\* So it always holds.
LEMMA FiguresHold == Spec => []FiguresInv
<1>1. Init => FiguresInv
  BY FiguresInitially
<1>2. FiguresInv /\ [Next]_budget => FiguresInv'
  BY StepsKeepFigures
<1> QED BY <1>1, <1>2, PTL DEF Spec

-----------------------------------------------------------------------------
(* New pupils.                                                             *)

\* The places moved one after the other.
IsMoving(after, last, prior, now, stay) ==
  after = [k \in 0..last |->
    IF k = 0 THEN Rounded(prior, now, stay) ELSE StepTo(after[k - 1], prior, now, stay)]

LEMMA MovingEnds ==
  ASSUME NEW prior, NEW now, NEW stay, NEW last \in Nat
  PROVE  \E after : IsMoving(after, last, prior, now, stay)
<1> DEFINE B == {n \in Nat : ~ \E f : IsMoving(f, n, prior, now, stay)}
<1>1. CASE B = {}
  BY <1>1
<1>2. CASE B # {}
  <2>0. B \subseteq Nat
    OBVIOUS
  <2>1. PICK n \in B : \A k \in B : n <= k
    <3> HIDE DEF B
    <3> QED BY <1>2, <2>0, LeastNumber
  <2>2. CASE n = 0
    <3> DEFINE f == [k \in 0..0 |-> Rounded(prior, now, stay)]
    <3>1. IsMoving(f, 0, prior, now, stay)
      <4>1. \A k \in 0..0 : k = 0
        OBVIOUS
      <4> QED BY <4>1 DEF IsMoving
    <3> QED BY <2>2, <3>1
  <2>3. CASE n # 0
    <3>1. n - 1 \in Nat /\ ~(n <= n - 1)
      BY <2>3
    <3>2. n - 1 \notin B
      BY <2>1, <3>1
    <3>3. PICK f : IsMoving(f, n - 1, prior, now, stay)
      BY <3>1, <3>2
    <3> DEFINE to(k, from) ==
                 IF k = 0 THEN Rounded(prior, now, stay) ELSE StepTo(from, prior, now, stay)
               h == [k \in 0..n |-> IF k = n THEN to(n, f[n - 1]) ELSE f[k]]
    <3>4. \A k \in 0..(n - 1) : f[k] = to(k, f[k - 1])
      BY <3>3 DEF IsMoving
    <3>5. h = [k \in 0..n |-> to(k, h[k - 1])]
      <4> HIDE DEF to
      <4>1. \A k \in 0..n : h[k] = to(k, h[k - 1])
        <5> TAKE k \in 0..n
        <5>1. CASE k = n
          <6>1. h[n - 1] = f[n - 1] /\ h[n] = to(n, f[n - 1])
            BY <3>1
          <6> QED BY <5>1, <6>1
        <5>2. CASE k # n /\ k # 0
          <6>1. k \in 0..(n - 1) /\ k - 1 \in 0..n /\ k - 1 # n
            BY <5>2
          <6>2. h[k] = f[k] /\ h[k - 1] = f[k - 1]
            BY <5>2, <6>1
          <6> QED BY <3>4, <6>1, <6>2
        <5>3. CASE k # n /\ k = 0
          <6>1. k \in 0..(n - 1) /\ h[k] = f[k]
            BY <2>3, <5>3
          <6>2. h[k] = to(0, f[k - 1])
            BY <3>4, <5>3, <6>1
          <6>3. to(0, f[k - 1]) = to(0, h[k - 1])
            BY DEF to
          <6> QED BY <5>3, <6>2, <6>3
        <5> QED BY <5>1, <5>2, <5>3
      <4>2. h = [k \in 0..n |-> h[k]]
        OBVIOUS
      <4> HIDE DEF h
      <4> QED BY <4>1, <4>2
    <3>6. IsMoving(h, n, prior, now, stay)
      BY <3>5, Zenon DEF IsMoving
    <3> QED BY <3>6
  <2> QED BY <2>2, <2>3
<1> QED BY <1>1, <1>2

\* Of three nationalities with places one has to give one up.
LEMMA SomebodyGivesUp ==
  ASSUME NEW c \in Counted, NEW prior \in Counted, NEW stay \in Nat, Heads(c) > stay
  PROVE  GivesUp(c, prior, stay) \in Nationalities /\ c[GivesUp(c, prior, stay)] > 0
<1> DEFINE over(n) == Overage(c, n, prior, stay)
           first(n) == /\ c[n] > 0
                       /\ \A m \in Nationalities \ {n} : c[m] > 0 =>
                            \/ over(n) > over(m)
                            \/ over(n) = over(m) /\
                                 (c[n] > c[m] \/ (c[n] = c[m] /\ Order[n] < Order[m]))
<1>1. /\ c["Francais"] \in Nat /\ c["Nationaux"] \in Nat /\ c["Autres"] \in Nat
      /\ prior["Francais"] \in Nat /\ prior["Nationaux"] \in Nat /\ prior["Autres"] \in Nat
  BY DEF Counted, Nationalities
<1>2. over("Francais") \in Int /\ over("Nationaux") \in Int /\ over("Autres") \in Int
  BY <1>1 DEF Overage, Heads
<1>3. Order["Francais"] = 1 /\ Order["Nationaux"] = 2 /\ Order["Autres"] = 3
  BY DEF Order, Nationalities
<1>4. c["Francais"] > 0 \/ c["Nationaux"] > 0 \/ c["Autres"] > 0
  BY <1>1 DEF Heads
<1>5. \A n \in Nationalities : n = "Francais" \/ n = "Nationaux" \/ n = "Autres"
  BY DEF Nationalities
<1> HIDE DEF over
<1>6. first("Francais") \/ first("Nationaux") \/ first("Autres")
  BY <1>1, <1>2, <1>3, <1>4, <1>5
<1>7. \E n \in Nationalities : first(n)
  BY <1>6 DEF Nationalities
<1>8. GivesUp(c, prior, stay) = CHOOSE n \in Nationalities : first(n)
  BY DEF GivesUp, over
<1> HIDE DEF first
<1>9. GivesUp(c, prior, stay) \in Nationalities /\ first(GivesUp(c, prior, stay))
  BY <1>7, <1>8
<1> QED BY <1>9 DEF first

\* Of three nationalities of which some have pupils left one gets a place.
LEMMA SomebodyGets ==
  ASSUME NEW c \in Counted, NEW prior \in Counted, NEW now \in Counted, NEW stay \in Nat,
         Heads(c) < stay, stay <= Heads(now)
  PROVE  /\ Gets(c, prior, now, stay) \in Nationalities
         /\ c[Gets(c, prior, now, stay)] < now[Gets(c, prior, now, stay)]
<1> DEFINE over(n) == Overage(c, n, prior, stay)
           first(n) == /\ c[n] < now[n]
                       /\ \A m \in Nationalities \ {n} : c[m] < now[m] =>
                            \/ over(n) < over(m)
                            \/ /\ over(n) = over(m)
                               /\ \/ prior[n] > prior[m]
                                  \/ prior[n] = prior[m] /\ now[n] > now[m]
                                  \/ /\ prior[n] = prior[m] /\ now[n] = now[m]
                                     /\ Order[n] < Order[m]
<1>1. /\ c["Francais"] \in Nat /\ c["Nationaux"] \in Nat /\ c["Autres"] \in Nat
      /\ prior["Francais"] \in Nat /\ prior["Nationaux"] \in Nat /\ prior["Autres"] \in Nat
      /\ now["Francais"] \in Nat /\ now["Nationaux"] \in Nat /\ now["Autres"] \in Nat
  BY DEF Counted, Nationalities
<1>2. over("Francais") \in Int /\ over("Nationaux") \in Int /\ over("Autres") \in Int
  BY <1>1 DEF Overage, Heads
<1>3. Order["Francais"] = 1 /\ Order["Nationaux"] = 2 /\ Order["Autres"] = 3
  BY DEF Order, Nationalities
<1>4. \/ c["Francais"] < now["Francais"] \/ c["Nationaux"] < now["Nationaux"]
      \/ c["Autres"] < now["Autres"]
  BY <1>1 DEF Heads
<1>5. \A n \in Nationalities : n = "Francais" \/ n = "Nationaux" \/ n = "Autres"
  BY DEF Nationalities
<1> HIDE DEF over
<1>6. first("Francais") \/ first("Nationaux") \/ first("Autres")
  BY <1>1, <1>2, <1>3, <1>4, <1>5
<1>7. \E n \in Nationalities : first(n)
  BY <1>6 DEF Nationalities
<1>8. Gets(c, prior, now, stay) = CHOOSE n \in Nationalities : first(n)
  BY DEF Gets, over
<1> HIDE DEF first
<1>9. Gets(c, prior, now, stay) \in Nationalities /\ first(Gets(c, prior, now, stay))
  BY <1>7, <1>8
<1> QED BY <1>9 DEF first

\* Shares are rounded one by one: none is more than its nationality has, and
\* together they are hardly more than stay.
LEMMA RoundedShares ==
  ASSUME NEW prior \in Counted, NEW now \in Counted, NEW stay \in Nat, Heads(prior) > 0
  PROVE  /\ Rounded(prior, now, stay) \in Counted
         /\ \A n \in Nationalities : Rounded(prior, now, stay)[n] <= now[n]
         /\ Heads(Rounded(prior, now, stay)) <= stay + 1
<1> DEFINE pupils == Heads(prior)
           share(n) == HalfUp(stay * prior[n], pupils)
           r == Rounded(prior, now, stay)
<1>1. /\ prior["Francais"] \in Nat /\ prior["Nationaux"] \in Nat /\ prior["Autres"] \in Nat
      /\ pupils \in Nat \ {0}
      /\ pupils = prior["Francais"] + prior["Nationaux"] + prior["Autres"]
  BY DEF Counted, Nationalities, Heads
<1>2. \A n \in Nationalities : now[n] \in Nat /\ prior[n] \in Nat /\ stay * prior[n] \in Nat
  BY DEF Counted
<1> HIDE DEF pupils
<1>3. ASSUME NEW n \in Nationalities
      PROVE  /\ share(n) \in Nat
             /\ 2 * (pupils * share(n)) - 2 * (stay * prior[n]) <= pupils
  <2> DEFINE of == stay * prior[n]
  <2>1. of \in Nat /\ of \in Int
    BY <1>2
  <2> HIDE DEF of
  <2>2. HalfUp(of, pupils) \in Nat
    BY <1>1, <2>1, HalfUpWhole
  <2>3. 2 * (pupils * HalfUp(of, pupils)) - 2 * of <= pupils
    BY <1>1, <2>1, HalfUpNear
  <2> QED BY <2>2, <2>3 DEF of
<1> HIDE DEF share
<1>4. \A n \in Nationalities : r[n] = CapAt(share(n), now[n])
  BY DEF Rounded, share, pupils
<1>5. \A n \in Nationalities : r[n] \in Nat /\ r[n] <= now[n] /\ r[n] <= share(n)
  BY <1>2, <1>3, <1>4 DEF CapAt
<1>6. r = [n \in Nationalities |-> r[n]]
  BY DEF Rounded
<1>7. r \in Counted
  <2> HIDE DEF r
  <2> QED BY <1>5, <1>6, Zenon DEF Counted
<1>8. Heads(r) <= stay + 1
  <2> DEFINE a == share("Francais")
             b == share("Nationaux")
             d == share("Autres")
             p == prior["Francais"]
             q == prior["Nationaux"]
             s == prior["Autres"]
  <2>1. a \in Nat /\ b \in Nat /\ d \in Nat /\ Heads(r) <= a + b + d /\ Heads(r) \in Nat
    BY <1>3, <1>5 DEF Nationalities, Heads
  <2>2. /\ 2 * (pupils * a) - 2 * (stay * p) <= pupils
        /\ 2 * (pupils * b) - 2 * (stay * q) <= pupils
        /\ 2 * (pupils * d) - 2 * (stay * s) <= pupils
    BY <1>3 DEF Nationalities
  <2> HIDE DEF a, b, d, r
  <2>3. p \in Nat /\ q \in Nat /\ s \in Nat /\ pupils \in Nat \ {0} /\ pupils = p + q + s
    BY <1>1
  <2> HIDE DEF p, q, s
  <2>4. pupils * a + pupils * b + pupils * d = pupils * (a + b + d)
        /\ stay * p + stay * q + stay * s = stay * pupils
        /\ pupils * stay = stay * pupils
    BY <2>1, <2>3
  <2>5. /\ pupils * a \in Int /\ pupils * b \in Int /\ pupils * d \in Int
        /\ stay * p \in Int /\ stay * q \in Int /\ stay * s \in Int
        /\ pupils * (a + b + d) \in Int /\ pupils * stay \in Int
    BY <2>1, <2>3
  <2>6. 2 * (pupils * (a + b + d)) - 2 * (pupils * stay) <= 3 * pupils
    BY <2>2, <2>3, <2>4, <2>5
  <2>7. ASSUME a + b + d >= stay + 2 PROVE FALSE
    <3>1. pupils * (a + b + d) >= pupils * (stay + 2)
      BY <2>1, <2>3, <2>7
    <3>2. pupils * (stay + 2) = pupils * stay + 2 * pupils
      BY <2>3
    <3> QED BY <2>3, <2>5, <2>6, <3>1, <3>2
  <2> QED BY <2>1, <2>7
<1> QED BY <1>5, <1>7, <1>8

\* A step moves one place, if places are missing or too many, and gives
\* nobody more than it has.
LEMMA OnePlaceMoves ==
  ASSUME NEW c \in Counted, NEW prior \in Counted, NEW now \in Counted, NEW stay \in Nat,
         stay <= Heads(now), \A n \in Nationalities : c[n] <= now[n]
  PROVE  LET d == StepTo(c, prior, now, stay) IN
         /\ d \in Counted /\ \A n \in Nationalities : d[n] <= now[n]
         /\ Heads(c) > stay => Heads(d) = Heads(c) - 1
         /\ Heads(c) < stay => Heads(d) = Heads(c) + 1
         /\ Heads(c) = stay => d = c
<1>1. /\ Heads(c) \in Nat
      /\ \A n \in Nationalities : c[n] \in Nat /\ now[n] \in Nat
  BY DEF Counted, Heads, Nationalities
<1> DEFINE d == StepTo(c, prior, now, stay)
<1>2. ASSUME NEW n \in Nationalities, NEW k \in Int, c[n] + k >= 0, c[n] + k <= now[n],
             d = [c EXCEPT ![n] = c[n] + k]
      PROVE  /\ d \in Counted /\ Heads(d) = Heads(c) + k
             /\ \A o \in Nationalities : d[o] <= now[o]
  <2>1. \A o \in Nationalities : d[o] = IF o = n THEN c[n] + k ELSE c[o]
    BY <1>2 DEF Counted
  <2>2. \A o \in Nationalities : d[o] \in Nat /\ d[o] <= now[o]
    BY <1>1, <1>2, <2>1
  <2>3. d \in Counted
    BY <1>1, <1>2 DEF Counted
  <2>4. Heads(d) = Heads(c) + k
    <3> HIDE DEF d
    <3>1. n = "Francais" \/ n = "Nationaux" \/ n = "Autres"
      BY DEF Nationalities
    <3>2. /\ "Francais" \in Nationalities /\ "Nationaux" \in Nationalities
          /\ "Autres" \in Nationalities
      BY DEF Nationalities
    <3> QED BY <1>1, <2>1, <3>1, <3>2 DEF Heads
  <2> QED BY <2>2, <2>3, <2>4
<1>3. CASE Heads(c) > stay
  <2> DEFINE n == GivesUp(c, prior, stay)
  <2>1. n \in Nationalities /\ c[n] > 0
    BY <1>3, SomebodyGivesUp
  <2>2. d = [c EXCEPT ![n] = c[n] - 1]
    BY <1>3 DEF StepTo
  <2> HIDE DEF n, d
  <2>3. c[n] - 1 = c[n] + (-1) /\ c[n] + (-1) >= 0 /\ c[n] + (-1) <= now[n] /\ -1 \in Int
    BY <1>1, <2>1
  <2>4. d = [c EXCEPT ![n] = c[n] + (-1)]
    BY <2>2, <2>3
  <2>5. /\ d \in Counted /\ Heads(d) = Heads(c) + (-1)
        /\ \A o \in Nationalities : d[o] <= now[o]
    BY <1>2, <2>1, <2>3, <2>4
  <2> QED BY <1>1, <1>3, <2>5 DEF d
<1>4. CASE Heads(c) < stay
  <2> DEFINE n == Gets(c, prior, now, stay)
  <2>1. n \in Nationalities /\ c[n] < now[n]
    BY <1>4, SomebodyGets
  <2>2. d = [c EXCEPT ![n] = c[n] + 1]
    BY <1>1, <1>4 DEF StepTo
  <2> HIDE DEF n, d
  <2>3. c[n] + 1 >= 0 /\ c[n] + 1 <= now[n] /\ 1 \in Int
    BY <1>1, <2>1
  <2>4. /\ d \in Counted /\ Heads(d) = Heads(c) + 1
        /\ \A o \in Nationalities : d[o] <= now[o]
    BY <1>2, <2>1, <2>2, <2>3
  <2> QED BY <1>1, <1>4, <2>4 DEF d
<1>5. CASE Heads(c) = stay
  BY <1>1, <1>5 DEF StepTo
<1> QED BY <1>1, <1>3, <1>4, <1>5

\* The places allocated are as many as stay, and nobody has more than it has
\* pupils, whatever was rounded and capped (allocateRetainedByNationality).
LEMMA AllocatedAddsUp ==
  ASSUME NEW prior \in Counted, NEW now \in Counted, NEW stay \in Nat,
         stay <= Heads(now), stay > 0 => Heads(prior) > 0
  PROVE  /\ Allocated(prior, now, stay) \in Counted
         /\ \A n \in Nationalities : Allocated(prior, now, stay)[n] <= now[n]
         /\ Heads(Allocated(prior, now, stay)) = stay
<1>1. CASE stay = 0
  <2>1. Allocated(prior, now, stay) = Nobody
    BY <1>1 DEF Allocated
  <2>2. Nobody \in Counted /\ Heads(Nobody) = 0 /\ \A n \in Nationalities : Nobody[n] <= now[n]
    BY DEF Nobody, Counted, Heads, Nationalities
  <2> QED BY <1>1, <2>1, <2>2
<1>2. CASE stay # 0
  <2> DEFINE last == stay + 3
             after == CHOOSE f : IsMoving(f, last, prior, now, stay)
  <2>1. last \in Nat /\ last >= 3
    OBVIOUS
  <2>2. IsMoving(after, last, prior, now, stay)
    BY <2>1, MovingEnds
  <2>3. Allocated(prior, now, stay) = after[last]
    BY <1>2 DEF Allocated, IsMoving
  <2> HIDE DEF after
  <2>4. /\ after[0] = Rounded(prior, now, stay)
        /\ \A k \in 1..last : after[k] = StepTo(after[k - 1], prior, now, stay)
    <3>1. \A k \in 0..last : after[k] =
            IF k = 0 THEN Rounded(prior, now, stay) ELSE StepTo(after[k - 1], prior, now, stay)
      BY <2>2 DEF IsMoving
    <3>2. 0 \in 0..last /\ \A k \in 1..last : k \in 0..last /\ k # 0
      BY <2>1
    <3> HIDE DEF last
    <3> QED BY <3>1, <3>2
  <2> DEFINE Good(k) == /\ after[k] \in Counted /\ \A n \in Nationalities : after[k][n] <= now[n]
                        /\ Heads(after[k]) - stay <= AtLeast(last - k, 0)
                        /\ stay - Heads(after[k]) <= AtLeast(last - k, 0)
             B == {k \in 0..last : ~Good(k)}
  <2>5. Good(0)
    <3>1. Heads(prior) > 0
      BY <1>2
    <3>2. /\ after[0] \in Counted /\ \A n \in Nationalities : after[0][n] <= now[n]
          /\ Heads(after[0]) <= stay + 1
      BY <2>4, <3>1, RoundedShares
    <3>3. Heads(after[0]) \in Nat
      BY <3>2 DEF Counted, Heads, Nationalities
    <3> QED BY <3>2, <3>3 DEF AtLeast
  <2>6. ASSUME NEW k \in 1..last, Good(k - 1)  PROVE Good(k)
    <3> DEFINE c == after[k - 1]
               d == after[k]
    <3>1. c \in Counted /\ (\A n \in Nationalities : c[n] <= now[n])
          /\ d = StepTo(c, prior, now, stay)
      BY <2>4, <2>6
    <3>2. Heads(c) - stay <= last - (k - 1) /\ stay - Heads(c) <= last - (k - 1)
      BY <2>1, <2>6 DEF AtLeast
    <3> HIDE DEF c, d, last, Good
    <3>3. /\ d \in Counted /\ \A n \in Nationalities : d[n] <= now[n]
          /\ Heads(c) > stay => Heads(d) = Heads(c) - 1
          /\ Heads(c) < stay => Heads(d) = Heads(c) + 1
          /\ Heads(c) = stay => d = c
      BY <3>1, OnePlaceMoves
    <3>4. Heads(c) \in Nat /\ Heads(d) \in Nat
      BY <3>1, <3>3 DEF Counted, Heads, Nationalities
    <3>5. AtLeast(last - k, 0) = last - k /\ last - k \in Nat
      BY <2>1 DEF AtLeast
    <3>6. Heads(d) - stay <= last - k /\ stay - Heads(d) <= last - k
      BY <2>1, <3>2, <3>3, <3>4, <3>5
    <3> QED BY <3>3, <3>5, <3>6 DEF Good, d
  <2>7. CASE B # {}
    <3>1. B \subseteq Nat
      BY <2>1
    <3>2. PICK k \in B : \A j \in B : k <= j
      <4> HIDE DEF B
      <4> QED BY <2>7, <3>1, LeastNumber
    <3> HIDE DEF Good
    <3>3. k \in 0..last /\ ~Good(k)
      OBVIOUS
    <3>4. k # 0
      BY <2>5, <3>3
    <3>5. k \in 1..last /\ k - 1 \in 0..last /\ ~(k <= k - 1)
      BY <2>1, <3>3, <3>4
    <3>6. Good(k - 1)
      BY <3>2, <3>5
    <3> QED BY <2>6, <3>3, <3>5, <3>6
  <2>8. CASE B = {}
    <3>1. Good(last)
      <4> HIDE DEF Good
      <4>1. last \in 0..last
        BY <2>1
      <4> QED BY <2>8, <4>1
    <3>2. AtLeast(last - last, 0) = 0
      BY <2>1 DEF AtLeast
    <3>3. Heads(after[last]) \in Nat
      BY <3>1 DEF Counted, Heads, Nationalities
    <3> HIDE DEF last
    <3>4. Heads(after[last]) = stay
      BY <3>1, <3>2, <3>3
    <3> QED BY <2>3, <3>1, <3>4
  <2> QED BY <2>7, <2>8
<1> QED BY <1>1, <1>2

\* The detail of a grade is counted in whole pupils.
LEMMA DetailCounted ==
  ASSUME EnrollmentTypes, NEW y \in Years, NEW g \in Grades
  PROVE  DetailHeads(y, g) \in Counted
<1>1. ASSUME NEW n \in Nationalities
      PROVE  SumOver([t \in Tariffs |-> detail[<<y, g, n, t>>]], Tariffs) \in Nat
  <2> DEFINE f == [t \in Tariffs |-> detail[<<y, g, n, t>>]]
  <2>1. \A t \in Tariffs : f[t] \in Nat
    BY DEF EnrollmentTypes, Cells
  <2>2. IsFiniteSet(Tariffs)
    BY EnrollmentAssumption
  <2> HIDE DEF f
  <2>3. SumOver(f, Tariffs) \in Nat
    BY <2>1, <2>2, SumNatural
  <2> QED BY <2>3 DEF f
<1> QED BY <1>1 DEF DetailHeads, Counted

\* The pupils of a grade shared out: those who stay are taken from those it
\* has, whatever the cohort row holds.
LEMMA StayersFit ==
  ASSUME EnrollmentTypes, Derivable, NEW g \in Grades \ {PS}
  PROVE  Stayers(g) \in Nat /\ Stayers(g) <= Heads(DetailHeads("AY2", g))
<1>1. Calculated(g)
  BY DEF Derivable
<1>2. cohort[g].retained \in Int
  BY <1>1 DEF Calculated, EnrollmentTypes, CohortRows
<1>3. Heads(DetailHeads("AY2", g)) \in Nat
  <2>1. DetailHeads("AY2", g) \in Counted
    BY DetailCounted DEF Years
  <2> QED BY <2>1 DEF Heads, Counted, Nationalities
<1> QED BY <1>2, <1>3 DEF Stayers, CapAt, AtLeast

\* The pupils who stay are shared out exactly.
LEMMA StayersShared ==
  ASSUME EnrollmentTypes, Derivable, NEW g \in Grades \ {PS}
  PROVE  /\ StayersOf(g) \in Counted
         /\ \A n \in Nationalities : StayersOf(g)[n] <= DetailHeads("AY2", g)[n]
         /\ Heads(StayersOf(g)) = Stayers(g)
<1>1. g \in Grades /\ g - 1 \in Grades
  BY EnrollmentAssumption DEF Grades, PS
<1>2. DetailHeads("AY1", g - 1) \in Counted /\ DetailHeads("AY2", g) \in Counted
  BY <1>1, DetailCounted DEF Years
<1>3. Stayers(g) \in Nat /\ Stayers(g) <= Heads(DetailHeads("AY2", g))
  BY StayersFit
<1>4. Stayers(g) > 0 => Heads(DetailHeads("AY1", g - 1)) > 0
  BY DEF Derivable
<1> QED BY <1>2, <1>3, <1>4, AllocatedAddsUp DEF StayersOf

\* The property of one state.
LEMMA NewPupilsShared ==
  ASSUME EnrollmentTypes
  PROVE  NewPupilsAddUp
<1> SUFFICES ASSUME Derivable, NEW g \in Grades \ {PS}
             PROVE  /\ \A n \in Nationalities :
                         0 <= StayersOf(g)[n] /\ StayersOf(g)[n] <= DetailHeads("AY2", g)[n]
                    /\ Heads(StayersOf(g)) = Stayers(g)
  BY DEF NewPupilsAddUp
<1> QED BY StayersShared DEF Counted

-----------------------------------------------------------------------------
(* Spreading over months.                                                  *)

\* There are finitely many months.
LEMMA MonthsFinite == IsFiniteSet(Months)
<1>1. 1 \in Int /\ 12 \in Int
  OBVIOUS
<1>2. IsFiniteSet(1..12)
  BY <1>1, FS_Interval, Zenon
<1> QED BY <1>2 DEF Months

\* A list that names nothing twice has as many elements as places.
LEMMA ListSize ==
  ASSUME NEW S, NEW list \in Seq(S), IsInjective(list)
  PROVE  IsFiniteSet(ToSet(list)) /\ Cardinality(ToSet(list)) = Len(list)
<1> DEFINE n == Len(list)
<1>1. n \in Nat /\ DOMAIN list = 1..n
  OBVIOUS
<1>2. list \in Bijection(1..n, ToSet(list))
  BY <1>1 DEF Bijection, Injection, Surjection, ToSet, IsInjective
<1>3. ExistsBijection(1..n, ToSet(list))
  BY <1>2 DEF ExistsBijection
<1>4. IsFiniteSet(1..n) /\ Cardinality(1..n) = n
  BY <1>1, FS_Interval
<1> QED BY <1>3, <1>4, FS_Bijection

\* Whatever a part is, the last month brings the sum to the total.
LEMMA LastTakesRest ==
  ASSUME NEW S, NEW list \in Seq(S), list # <<>>, IsInjective(list),
         NEW total \in Int, NEW part \in Int, NEW f,
         \A m \in ToSet(list) :
           f[m] = IF m = list[Len(list)] THEN total - part * (Len(list) - 1) ELSE part
  PROVE  SumOver(f, ToSet(list)) = total
<1> DEFINE n == Len(list)
           last == list[n]
           rest == ToSet(list) \ {last}
<1>1. n \in Nat /\ n >= 1 /\ last \in ToSet(list)
  <2>1. n \in Nat /\ n # 0 /\ DOMAIN list = 1..n
    OBVIOUS
  <2> QED BY <2>1 DEF ToSet
<1>2. IsFiniteSet(ToSet(list)) /\ Cardinality(ToSet(list)) = n
  BY ListSize
<1>3. IsFiniteSet(rest) /\ Cardinality(rest) = n - 1
  BY <1>1, <1>2, FS_RemoveElement
<1>4. part * (n - 1) \in Int
  BY <1>1
<1> HIDE DEF n, last, rest
<1>5. f[last] = total - part * (n - 1) /\ \A m \in rest : f[m] = part
  BY <1>1 DEF last, n, rest
<1>6. \A m \in ToSet(list) : f[m] \in Int
  BY <1>4 DEF n
<1>7. SumOver(f, ToSet(list)) = f[last] + SumOver(f, rest)
  BY <1>1, <1>2, <1>6, SumTakesOut DEF rest
<1>8. SumOver(f, rest) = part * (n - 1)
  BY <1>3, <1>5, SumConstant
<1> QED BY <1>4, <1>5, <1>7, <1>8

\* Equal parts, the last month with the rest (splitAcrossMonths).
LEMMA EqualPartsAddUp ==
  ASSUME NEW S, NEW list \in Seq(S), list # <<>>, NEW total \in Int
  PROVE  /\ DOMAIN InParts(total, list) = ToSet(list)
         /\ \A m \in ToSet(list) : InParts(total, list)[m] \in Int
         /\ IsInjective(list) => SumOver(InParts(total, list), ToSet(list)) = total
<1> DEFINE part == Down(total, Len(list))
<1>1. Len(list) \in Nat \ {0}
  OBVIOUS
<1>2. part \in Int
  BY <1>1, DownWhole
<1>3. part * (Len(list) - 1) \in Int
  BY <1>1, <1>2
<1> HIDE DEF part
<1>4. InParts(total, list) =
        [m \in ToSet(list) |->
           IF m = list[Len(list)] THEN total - part * (Len(list) - 1) ELSE part]
  BY DEF InParts, part
<1>5. ASSUME IsInjective(list)
      PROVE  SumOver(InParts(total, list), ToSet(list)) = total
  <2>1. \A m \in ToSet(list) : InParts(total, list)[m] =
          IF m = list[Len(list)] THEN total - part * (Len(list) - 1) ELSE part
    BY <1>4
  <2> QED BY <1>2, <1>5, <2>1, LastTakesRest
<1> QED BY <1>2, <1>3, <1>4, <1>5

\* Some months have a last one.
LEMMA LastMonth ==
  ASSUME NEW S, S \subseteq Months, S # {}
  PROVE  Max(S) \in S
<1> DEFINE B == {k \in Nat : \A m \in S : m <= k}
<1>1. B \subseteq Nat /\ 12 \in B
  BY DEF Months
<1>2. PICK x \in B : \A y \in B : x <= y
  <2> HIDE DEF B
  <2> QED BY <1>1, LeastNumber
<1>3. \A m \in S : m \in Int /\ m <= x /\ m >= 1
  BY <1>2 DEF Months
<1>4. x \in S
  <2>1. CASE x \notin S
    <3>1. x \in Nat /\ \A m \in S : m <= x - 1
      BY <1>2, <1>3, <2>1
    <3>2. x >= 1
      BY <1>3, <3>1
    <3>3. x - 1 \in B
      BY <3>1, <3>2
    <3> QED BY <1>2, <3>1, <3>3
  <2> QED BY <2>1
<1>5. \A m \in S : x >= m
  BY <1>2, <1>3
<1> QED BY <1>4, <1>5, Zenon DEF Max

\* Some weight is above zero where all together are.
LEMMA SomeWeight ==
  ASSUME NEW w \in [Months -> Int], SumOver(w, Months) > 0
  PROVE  \E m \in Months : w[m] > 0
<1> DEFINE up == [m \in Months |-> -w[m]]
           zero == [m \in Months |-> 0]
<1> SUFFICES ASSUME \A m \in Months : ~(w[m] > 0)  PROVE FALSE
  OBVIOUS
<1>1. \A m \in Months : up[m] \in Nat /\ w[m] \in Int /\ zero[m] = w[m] + up[m]
  OBVIOUS
<1>2. \A m \in Months : zero[m] = 0
  OBVIOUS
<1> HIDE DEF up, zero
<1>3. SumOver(zero, Months) = SumOver(w, Months) + SumOver(up, Months)
  BY <1>1, MonthsFinite, SumAdds
<1>4. SumOver(zero, Months) = 0
  BY <1>2, MonthsFinite, SumOfZeros
<1>5. SumOver(up, Months) \in Nat /\ SumOver(w, Months) \in Int
  BY <1>1, MonthsFinite, SumNatural, SumWhole
<1> QED BY <1>3, <1>4, <1>5

\* Parts by weight, the last month with the rest.
LEMMA WeightedPartsAddUp ==
  ASSUME NEW w \in [Months -> Int], SumOver(w, Months) > 0, NEW total \in Int
  PROVE  /\ DOMAIN InWeights(total, w) = Months
         /\ \A m \in Months : InWeights(total, w)[m] \in Int
         /\ SumOver(InWeights(total, w), Months) = total
<1> DEFINE all == SumOver(w, Months)
           weighted == {m \in Months : w[m] > 0}
           part == [m \in weighted |-> Down(total * w[m], all)]
           last == Max(weighted)
           rest == weighted \ {last}
           f == InWeights(total, w)
<1>1. all \in Nat \ {0}
  BY MonthsFinite, SumWhole
<1>2. last \in weighted
  <2>1. weighted \subseteq Months /\ weighted # {}
    BY SomeWeight
  <2> HIDE DEF weighted
  <2> QED BY <2>1, LastMonth
<1>3. \A m \in weighted : part[m] \in Int
  <2> TAKE m \in weighted
  <2>1. total * w[m] \in Int
    OBVIOUS
  <2> HIDE DEF all
  <2> QED BY <1>1, <2>1, DownWhole
<1>4. f = [m \in Months |->
             IF m \notin weighted THEN 0
             ELSE IF m = last THEN total - SumOver(part, rest) ELSE part[m]]
  BY Zenon DEF InWeights
<1>5. weighted \subseteq Months
  OBVIOUS
<1> HIDE DEF all, weighted, part, last, f
<1>6. IsFiniteSet(weighted) /\ IsFiniteSet(rest) /\ rest \subseteq weighted
  BY <1>5, MonthsFinite, FS_Subset
<1>7. SumOver(part, rest) \in Int
  BY <1>3, <1>6, SumWhole
<1>8. \A m \in Months : f[m] \in Int
  BY <1>3, <1>4, <1>7
<1>9. SumOver(f, Months) = SumOver(f, weighted)
  <2>1. \A m \in Months \ weighted : f[m] = 0
    BY <1>4
  <2> QED BY <1>5, <1>8, <2>1, MonthsFinite, SumOfOthers
<1>10. SumOver(f, weighted) = f[last] + SumOver(f, rest)
  BY <1>2, <1>5, <1>6, <1>8, SumTakesOut
<1>11. SumOver(f, rest) = SumOver(part, rest)
  <2>1. \A m \in rest : f[m] = part[m]
    BY <1>4, <1>5
  <2> QED BY <1>6, <2>1, SumAgrees
<1>12. f[last] = total - SumOver(part, rest)
  BY <1>2, <1>4, <1>5
<1>13. DOMAIN f = Months
  BY <1>4
<1> QED BY <1>7, <1>8, <1>9, <1>10, <1>11, <1>12, <1>13 DEF f

\* Whatever way an item is spread, its months add up to its annual amount.
LEMMA SpreadAddsUp ==
  ASSUME NEW i, i.annual \in Int, Distributed(i)
  PROVE  /\ DOMAIN Spread(i) \subseteq Months
         /\ \A m \in DOMAIN Spread(i) : Spread(i)[m] \in Int
         /\ Billable(i) => SumOver(Spread(i), DOMAIN Spread(i)) = i.annual
<1> DEFINE ten == <<1, 2, 3, 4, 5, 6, 9, 10, 11, 12>>
           twelve == [m \in Months |-> m]
<1>1. ten \in Seq(Months) /\ ten # <<>> /\ IsInjective(ten)
  <2>1. ten \in Seq(Months) /\ ten # <<>> /\ DOMAIN ten = 1..10
    BY DEF Months
  <2>2. \A k \in 1..10 : ten[k] = IF k <= 6 THEN k ELSE k + 2
    OBVIOUS
  <2> HIDE DEF ten
  <2>3. \A k, l \in DOMAIN ten : ten[k] = ten[l] => k = l
    BY <2>1, <2>2
  <2> QED BY <2>1, <2>3 DEF IsInjective
<1>2. twelve \in Seq(Months) /\ twelve # <<>> /\ IsInjective(twelve)
  <2>1. twelve \in [1..12 -> Months] /\ 12 \in Nat
    BY DEF Months
  <2>2. twelve \in Seq(Months)
    <3> HIDE DEF twelve
    <3> QED BY <2>1, SeqDef, Zenon
  <2>3. twelve # <<>>
    <3>1. 1 \in DOMAIN twelve
      BY DEF Months
    <3> QED BY <3>1
  <2> QED BY <2>2, <2>3 DEF IsInjective
<1>3. \A list \in Seq(Months) : ToSet(list) \subseteq Months
  BY DEF ToSet
<1> HIDE DEF ten, twelve
<1>4. CASE i.method = "ACADEMIC_10"
  <2>1. Spread(i) = InParts(i.annual, ten)
    BY <1>4 DEF Spread, ten
  <2> QED BY <1>1, <1>3, <2>1, EqualPartsAddUp
<1>5. CASE i.method = "YEAR_ROUND_12"
  <2>1. Spread(i) = InParts(i.annual, twelve)
    BY <1>5 DEF Spread, twelve
  <2> QED BY <1>2, <1>3, <2>1, EqualPartsAddUp
<1>6. CASE i.method = "CUSTOM_WEIGHTS"
  <2>1. Spread(i) = InWeights(i.annual, i.weights)
    BY <1>6 DEF Spread
  <2>2. i.weights \in [Months -> Int] /\ SumOver(i.weights, Months) > 0
    BY <1>6 DEF Distributed
  <2> QED BY <2>1, <2>2, WeightedPartsAddUp
<1>7. CASE i.method = "SPECIFIC_PERIOD"
  <2>1. Spread(i) = InParts(i.annual, i.months)
    BY <1>7 DEF Spread
  <2>2. i.months \in Seq(Months) /\ i.months # <<>>
    BY <1>7 DEF Distributed
  <2> QED BY <1>3, <1>7, <2>1, <2>2, EqualPartsAddUp DEF Billable
<1> QED BY <1>4, <1>5, <1>6, <1>7 DEF Distributed

\* The months of teaching of a year and what falls into them.
LEMMA TeachingYear ==
  ASSUME NEW y, NEW num \in Int, NEW den \in Nat \ {0}
  PROVE  LET list == TeachingMonths(y)  s == SpreadYear(num, den, list) IN
         /\ DOMAIN s \subseteq Months
         /\ \A m \in DOMAIN s : s[m] \in Int
         /\ SumOver(s, DOMAIN s) = Visible(num, den, Len(list))
         /\ Len(list) \in Nat
<1> DEFINE list == TeachingMonths(y)
           s == SpreadYear(num, den, list)
           n == Len(list)
           part == Visible(num, den, 1)
           total == Visible(num, den, n)
<1>1. list \in Seq(Months) /\ list # <<>> /\ IsInjective(list)
  <2>1. CASE y = "AY1"
    <3> DEFINE spring == <<1, 2, 3, 4, 5, 6>>
    <3>1. spring \in Seq(Months) /\ spring # <<>> /\ DOMAIN spring = 1..6
      BY DEF Months
    <3>2. \A k \in 1..6 : spring[k] = k
      OBVIOUS
    <3>3. list = spring
      BY <2>1 DEF TeachingMonths
    <3> HIDE DEF spring, list
    <3> QED BY <3>1, <3>2, <3>3 DEF IsInjective
  <2>2. CASE y # "AY1"
    <3> DEFINE autumn == <<9, 10, 11, 12>>
    <3>1. autumn \in Seq(Months) /\ autumn # <<>> /\ DOMAIN autumn = 1..4
      BY DEF Months
    <3>2. \A k \in 1..4 : autumn[k] = 8 + k
      OBVIOUS
    <3>3. list = autumn
      BY <2>2 DEF TeachingMonths
    <3> HIDE DEF autumn, list
    <3> QED BY <3>1, <3>2, <3>3 DEF IsInjective
  <2> QED BY <2>1, <2>2
<1> HIDE DEF list
<1>2. n \in Nat \ {0} /\ ToSet(list) \subseteq Months
  BY <1>1 DEF ToSet
<1>3. part \in Int /\ total \in Int
  <2>1. 10 * den \in Nat \ {0} /\ num * 1 \in Int /\ num * n \in Int
    BY <1>2
  <2> HIDE DEF n
  <2> QED BY <2>1, HalfUpWhole DEF Visible
<1>4. part * (n - 1) \in Int
  BY <1>2, <1>3
<1>5. s = [m \in ToSet(list) |-> IF m = list[n] THEN total - part * (n - 1) ELSE part]
  BY Zenon DEF SpreadYear
<1> HIDE DEF s, n, part, total
<1>6. SumOver(s, ToSet(list)) = total
  <2>1. \A m \in ToSet(list) :
          s[m] = IF m = list[Len(list)] THEN total - part * (Len(list) - 1) ELSE part
    BY <1>5 DEF n
  <2> QED BY <1>1, <1>3, <2>1, LastTakesRest
<1>7. DOMAIN s = ToSet(list)
  BY <1>5
<1>8. \A m \in DOMAIN s : s[m] \in Int
  BY <1>3, <1>4, <1>5
<1> QED BY <1>2, <1>6, <1>7, <1>8 DEF s, n, total, list

-----------------------------------------------------------------------------
(* Revenue.                                                                *)

\* What the forms let through is what the tables hold.
BudgetTypes ==
  /\ FeeGrid(fees) /\ ItemList(items) /\ NamesDiffer(items) /\ Setting(settings)
  /\ IsFiniteSet(staff) /\ \A e \in staff : Employee(e)
  /\ CostList(categories) /\ Term(terms) /\ GroupList(groups) /\ ProfileList(profiles)
  /\ ExpenseTable(lines, monthly)

\* Rows of revenue as the account reads them.
BookedRows(b) ==
  /\ DOMAIN b.tuition \subseteq Cells
  /\ \A c \in DOMAIN b.tuition : \A m \in DOMAIN b.tuition[c].net : b.tuition[c].net[m] \in Int
  /\ IsFiniteSet(b.other)
  /\ \A r \in b.other :
       /\ r.amount \in Int /\ r.category # "Rental Income"
       /\ r.executive \in ShownCategories \cup {None}

\* Nationalities are finitely many.
LEMMA NationalitiesFinite == IsFiniteSet(Nationalities)
<1>1. IsFiniteSet({"Francais"})
  BY FS_Singleton
<1>2. IsFiniteSet({"Francais"} \cup {"Nationaux"})
  BY <1>1, FS_AddElement
<1>3. IsFiniteSet(({"Francais"} \cup {"Nationaux"}) \cup {"Autres"})
  BY <1>2, FS_AddElement
<1>4. ({"Francais"} \cup {"Nationaux"}) \cup {"Autres"} = Nationalities
  BY DEF Nationalities
<1> QED BY <1>3, <1>4

\* Grades are finitely many.
LEMMA GradesFinite == IsFiniteSet(Grades)
<1>1. 1 \in Int /\ LastGrade \in Int
  BY EnrollmentAssumption
<1>2. IsFiniteSet(1..LastGrade)
  BY <1>1, FS_Interval, Zenon
<1> QED BY <1>2 DEF Grades

\* So are cells of the detail.
LEMMA CellsFinite == IsFiniteSet(Cells)
<1> DEFINE pairs == (Years \X Grades) \X (Nationalities \X Tariffs)
           cell == [p \in pairs |-> <<p[1][1], p[1][2], p[2][1], p[2][2]>>]
<1>1. IsFiniteSet(Years)
  <2>1. IsFiniteSet({"AY1"} \cup {"AY2"})
    BY FS_Singleton, FS_AddElement
  <2>2. {"AY1"} \cup {"AY2"} = Years
    BY DEF Years
  <2> QED BY <2>1, <2>2
<1>2. IsFiniteSet(Tariffs)
  BY EnrollmentAssumption
<1>3. IsFiniteSet(Years \X Grades) /\ IsFiniteSet(Nationalities \X Tariffs)
  BY <1>1, <1>2, GradesFinite, NationalitiesFinite, FS_Product
<1>4. IsFiniteSet(pairs)
  BY <1>3, FS_Product
<1>5. IsFiniteSet({cell[p] : p \in pairs})
  <2> HIDE DEF pairs, cell
  <2> QED BY <1>4, FiniteImage
<1>6. Cells \subseteq {cell[p] : p \in pairs}
  <2>1. ASSUME NEW c \in Cells
        PROVE  c \in {cell[p] : p \in pairs}
    <3> DEFINE p == <<<<c[1], c[2]>>, <<c[3], c[4]>>>>
    <3>1. p \in pairs
      BY DEF Cells
    <3>2. cell[p] = <<c[1], c[2], c[3], c[4]>>
      BY <3>1
    <3>3. c = <<c[1], c[2], c[3], c[4]>>
      BY DEF Cells
    <3> HIDE DEF p, pairs, cell
    <3> QED BY <3>1, <3>2, <3>3
  <2> QED BY <2>1
<1> HIDE DEF pairs, cell
<1> QED BY <1>5, <1>6, FS_Subset

\* The tuition of a cell.
LEMMA TuitionAddsUp ==
  ASSUME EnrollmentTypes, BudgetTypes, NEW c \in Billed
  PROVE  LET t == Tuition(c)
             year(part) == SumOver(part, DOMAIN part)
             rest == year(t.gross) - year(t.discount) - year(t.net)
         IN /\ \A m \in DOMAIN t.net : t.net[m] \in Int
            /\ -1 <= rest /\ rest <= 1
<1> DEFINE gross == detail[c] * fees[c].tuition * One
           discount == detail[c] * Discount(c)
           list == TeachingMonths(c[1])
           n == Len(list)
           t == Tuition(c)
<1>1. One \in Nat \ {0} /\ detail[c] \in Int /\ c \in DOMAIN fees
  BY AmountsAssumption DEF EnrollmentTypes, Billed
<1>2. fees[c].tuition \in Int
  BY <1>1 DEF BudgetTypes, FeeGrid
<1>3. Discount(c) \in Int
  <2>1. settings.flatDiscount \in Int
    BY DEF BudgetTypes, Setting
  <2>2. PleinOf(c) \in DOMAIN fees => fees[PleinOf(c)].tuition \in Int
    BY DEF BudgetTypes, FeeGrid
  <2> HIDE DEF t
  <2> QED BY <1>1, <1>2, <2>1, <2>2 DEF Discount
<1>4. gross \in Int /\ discount \in Int
  BY <1>1, <1>2, <1>3
<1>5. t.gross = SpreadYear(gross, One, list) /\ t.discount = SpreadYear(discount, One, list)
      /\ t.net = SpreadYear(gross - discount, One, list)
  BY DEF Tuition
<1> HIDE DEF gross, discount, list, t
<1>6. n \in Nat /\ gross - discount \in Int
  BY <1>1, <1>4, TeachingYear DEF list
<1>7. /\ SumOver(t.gross, DOMAIN t.gross) = Visible(gross, One, n)
      /\ SumOver(t.discount, DOMAIN t.discount) = Visible(discount, One, n)
      /\ SumOver(t.net, DOMAIN t.net) = Visible(gross - discount, One, n)
      /\ \A m \in DOMAIN t.net : t.net[m] \in Int
  BY <1>1, <1>4, <1>5, <1>6, TeachingYear DEF list
<1> DEFINE a == gross * n
           d == discount * n
           b == 10 * One
           rest == HalfUp(a, b) - HalfUp(d, b) - HalfUp(a - d, b)
<1>8. a \in Int /\ d \in Int /\ b \in Nat \ {0} /\ (gross - discount) * n = a - d
  BY <1>1, <1>4, <1>6
<1>9. -1 <= rest /\ rest <= 1
  <2> HIDE DEF a, b, d
  <2> QED BY <1>8, RoundingOfDifference
<1>10. rest = Visible(gross, One, n) - Visible(discount, One, n)
                - Visible(gross - discount, One, n)
  <2> HIDE DEF n
  <2> QED BY <1>8 DEF Visible
<1> HIDE DEF rest
<1> QED BY <1>7, <1>9, <1>10 DEF t

\* New pupils are whole, of every nationality.
LEMMA NewPupilsWhole ==
  ASSUME EnrollmentTypes, Derivable, NEW g \in Grades
  PROVE  NewPupils(g) \in Trio
<1>1. DetailHeads("AY2", g) \in Counted
  BY DetailCounted DEF Years
<1>2. CASE g = PS
  BY <1>1, <1>2 DEF NewPupils, Counted, Trio
<1>3. CASE g # PS
  <2>1. StayersOf(g) \in Counted
    BY <1>3, StayersShared
  <2>2. NewPupils(g) = [n \in Nationalities |-> DetailHeads("AY2", g)[n] - StayersOf(g)[n]]
    BY <1>3 DEF NewPupils
  <2> HIDE DEF Derivable
  <2> QED BY <1>1, <2>1, <2>2 DEF Counted, Trio
<1> QED BY <1>2, <1>3

\* So is what their registration brings,
LEMMA DaiWhole ==
  ASSUME EnrollmentTypes, BudgetTypes, Derivable, NEW n \in Nationalities
  PROVE  DaiOf(n) \in Int
<1> DEFINE billed == {c \in Cells : c[1] = "AY2" /\ c[3] = n /\ detail[c] > 0}
           f == [c \in billed |-> detail[c] * fees[<<"AY2", c[2], n, "Plein">>].dai]
<1>1. IsFiniteSet(billed)
  BY CellsFinite, FS_Subset
<1>2. \A c \in billed : f[c] \in Int
  <2> TAKE c \in billed
  <2>1. c[2] \in Grades /\ DaiFees(c[2], n) # {}
    BY DEF Derivable, DaiKnown, Cells
  <2>2. <<"AY2", c[2], n, "Plein">> \in DOMAIN fees
    BY <2>1 DEF Derivable, DaiAgrees
  <2>3. fees[<<"AY2", c[2], n, "Plein">>].dai \in Int
    BY <2>2 DEF BudgetTypes, FeeGrid
  <2>4. detail[c] \in Int
    BY DEF EnrollmentTypes
  <2> QED BY <2>3, <2>4
<1> HIDE DEF billed, f
<1>3. SumOver(f, billed) \in Int
  BY <1>1, <1>2, SumWhole
<1> QED BY <1>3 DEF DaiOf, f, billed

\* the number of one nationality,
LEMMA NewOfWhole ==
  ASSUME EnrollmentTypes, Derivable, NEW n \in Nationalities
  PROVE  NewOf(n) \in Int
<1> DEFINE f == [g \in Grades |-> NewPupils(g)[n]]
<1>1. \A g \in Grades : f[g] \in Int
  BY NewPupilsWhole DEF Trio
<1> HIDE DEF f
<1>2. SumOver(f, Grades) \in Int
  BY <1>1, GradesFinite, SumWhole
<1> QED BY <1>2 DEF NewOf, f

\* and that of a band of grades.
LEMMA NewInWhole ==
  ASSUME EnrollmentTypes, Derivable, NEW band, band \subseteq Grades
  PROVE  NewIn(band) \in Int
<1> DEFINE f == [g \in band |-> Heads(NewPupils(g))]
<1>1. IsFiniteSet(band)
  BY GradesFinite, FS_Subset
<1>2. \A g \in band : f[g] \in Int
  <2> TAKE g \in band
  <2>1. NewPupils(g) \in Trio
    BY NewPupilsWhole
  <2> HIDE DEF Derivable
  <2>2. Heads(NewPupils(g)) \in Int
    BY <2>1 DEF Trio, Heads, Nationalities
  <2> QED BY <2>2
<1> HIDE DEF f
<1>3. SumOver(f, band) \in Int
  BY <1>1, <1>2, SumWhole
<1> QED BY <1>3 DEF NewIn, f

\* An item the calculation derives.
DerivedItem(i) ==
  /\ i.annual \in Int /\ Distributed(i) /\ i.name \in DerivedNames
  /\ i.category # "Rental Income" 

\* Derived items are items a form could hold, but for their names.
LEMMA DerivedTyped ==
  ASSUME EnrollmentTypes, BudgetTypes, Derivable
  PROVE  /\ \A i \in DerivedItems : DerivedItem(i)
         /\ IsFiniteSet(DerivedItems) /\ NamesDiffer(DerivedItems)
<1> DEFINE dai == [n \in Nationalities |-> Registration(<<"DAI", n>>, DaiOf(n), <<5, 6>>)]
           dpi == [n \in Nationalities |->
                     Registration(<<"DPI", n>>, settings.dpi * NewOf(n), <<5, 6>>)]
           dossier == [n \in Nationalities |->
                         Registration(<<"Dossier", n>>, settings.dossier * NewOf(n), <<5, 6>>)]
           amount(x) == settings.exam[x] * Or(AY1(ExamGrade[x]), 0)
           exam == [x \in DOMAIN ExamGrade |->
                      Item(<<"Exam", x>>, amount(x), <<4, 5>>, "Examination Fees")]
           first == Registration(<<"Evaluation", "Primaire">>,
                                 settings.primary * NewIn(Primary), <<10, 11>>)
           second == Registration(<<"Evaluation", "Secondaire">>,
                                  settings.secondary * NewIn(Secondary), <<10, 11>>)
           DaiItems == {dai[n] : n \in Nationalities}
           DpiItems == {dpi[n] : n \in Nationalities}
           DossierItems == {dossier[n] : n \in Nationalities}
           ExamItems == {exam[x] : x \in DOMAIN ExamGrade}
           Evaluations == {first, second}
<1>1. DerivedItems = DaiItems \cup DpiItems \cup DossierItems \cup ExamItems \cup Evaluations
  BY DEF DerivedItems
<1>2. \A n \in Nationalities :
        DaiOf(n) \in Int /\ settings.dpi * NewOf(n) \in Int /\ settings.dossier * NewOf(n) \in Int
  <2> TAKE n \in Nationalities
  <2>1. DaiOf(n) \in Int /\ NewOf(n) \in Int
    BY DaiWhole, NewOfWhole
  <2>2. settings.dpi \in Int /\ settings.dossier \in Int
    BY DEF BudgetTypes, Setting
  <2> HIDE DEF Derivable, BudgetTypes
  <2> QED BY <2>1, <2>2
<1>3. \A x \in DOMAIN ExamGrade : amount(x) \in Int
  <2> TAKE x \in DOMAIN ExamGrade
  <2>1. <<"AY1", ExamGrade[x]>> \in Years \X Grades
    BY RatesAssumption DEF Years
  <2>2. Or(AY1(ExamGrade[x]), 0) \in Int
    BY <2>1 DEF EnrollmentTypes, AY1, Or
  <2>3. settings.exam[x] \in Int
    BY DEF BudgetTypes, Setting
  <2> QED BY <2>2, <2>3
<1>4. settings.primary * NewIn(Primary) \in Int /\ settings.secondary * NewIn(Secondary) \in Int
  <2>1. NewIn(Primary) \in Int /\ NewIn(Secondary) \in Int
    BY RatesAssumption, NewInWhole
  <2>2. settings.primary \in Int /\ settings.secondary \in Int
    BY DEF BudgetTypes, Setting
  <2> QED BY <2>1, <2>2
<1>5. ASSUME NEW name \in DerivedNames, NEW annual \in Int, NEW months \in Seq(Months) \ {<<>>},
             NEW category, category # "Rental Income"
      PROVE  DerivedItem(Item(name, annual, months, category))
  <2> DEFINE i == Item(name, annual, months, category)
  <2>1. i.name = name /\ i.annual = annual /\ i.months = months /\ i.category = category
        /\ i.method = "SPECIFIC_PERIOD"
    BY DEF Item
  <2> HIDE DEF i
  <2>2. DerivedItem(i)
    BY <1>5, <2>1, Zenon DEF DerivedItem, Distributed
  <2> QED BY <2>2 DEF i
<1>6. <<5, 6>> \in Seq(Months) \ {<<>>} /\ <<4, 5>> \in Seq(Months) \ {<<>>}
      /\ <<10, 11>> \in Seq(Months) \ {<<>>}
  BY DEF Months
<1>7. /\ \A n \in Nationalities :
           <<"DAI", n>> \in DerivedNames /\ <<"DPI", n>> \in DerivedNames
           /\ <<"Dossier", n>> \in DerivedNames
      /\ \A x \in DOMAIN ExamGrade : <<"Exam", x>> \in DerivedNames
      /\ <<"Evaluation", "Primaire">> \in DerivedNames
      /\ <<"Evaluation", "Secondaire">> \in DerivedNames
  BY DEF DerivedNames
<1>8. \A i \in DaiItems \cup DpiItems \cup DossierItems : DerivedItem(i)
  <2> HIDE DEF DerivedItem
  <2>1. \A n \in Nationalities :
          DerivedItem(dai[n]) /\ DerivedItem(dpi[n]) /\ DerivedItem(dossier[n])
    BY <1>2, <1>5, <1>6, <1>7 DEF Registration
  <2> HIDE DEF dai, dpi, dossier
  <2> QED BY <2>1
<1>9. \A i \in ExamItems : DerivedItem(i)
  <2>1. \A x \in DOMAIN ExamGrade : DerivedItem(exam[x])
    <3> HIDE DEF amount
    <3> QED BY <1>3, <1>5, <1>6, <1>7
  <2> HIDE DEF exam
  <2> QED BY <2>1
<1>10. DerivedItem(first) /\ DerivedItem(second)
  BY <1>4, <1>5, <1>6, <1>7 DEF Registration
<1>11. IsFiniteSet(DerivedItems)
  <2>1. IsFiniteSet(DaiItems) /\ IsFiniteSet(DpiItems) /\ IsFiniteSet(DossierItems)
    <3> HIDE DEF dai, dpi, dossier
    <3> QED BY NationalitiesFinite, FiniteImage
  <2>2. IsFiniteSet(ExamItems)
    <3> HIDE DEF exam
    <3> QED BY RatesAssumption, FiniteImage
  <2>3. IsFiniteSet({first} \cup {second}) /\ {first} \cup {second} = Evaluations
    <3> HIDE DEF first, second
    <3> QED BY FS_Singleton, FS_AddElement
  <2> HIDE DEF DaiItems, DpiItems, DossierItems, ExamItems, Evaluations
  <2> QED BY <1>1, <2>1, <2>2, <2>3, FS_Union
<1>12. NamesDiffer(DerivedItems)
  <2>0. /\ \A n \in Nationalities : dai[n].name = <<"DAI", n>> /\ dpi[n].name = <<"DPI", n>>
                                     /\ dossier[n].name = <<"Dossier", n>>
        /\ \A x \in DOMAIN ExamGrade : exam[x].name = <<"Exam", x>>
    BY DEF Registration, Item
  <2>1. /\ \A i \in DaiItems : \E n \in Nationalities : i = dai[n] /\ i.name = <<"DAI", n>>
        /\ \A i \in DpiItems : \E n \in Nationalities : i = dpi[n] /\ i.name = <<"DPI", n>>
        /\ \A i \in DossierItems :
             \E n \in Nationalities : i = dossier[n] /\ i.name = <<"Dossier", n>>
        /\ \A i \in ExamItems : \E x \in DOMAIN ExamGrade : i = exam[x] /\ i.name = <<"Exam", x>>
    <3> HIDE DEF dai, dpi, dossier, exam
    <3> QED BY <2>0
  <2>2. first.name = <<"Evaluation", "Primaire">> /\ second.name = <<"Evaluation", "Secondaire">>
    BY DEF Registration, Item
  <2> HIDE DEF dai, dpi, dossier, exam, first, second
  <2>3. \A a, b, x, y : <<a, x>> = <<b, y>> => a = b /\ x = y
    OBVIOUS
  <2>4. \A i \in DerivedItems :
          \/ \E n \in Nationalities : i = dai[n] /\ i.name = <<"DAI", n>>
          \/ \E n \in Nationalities : i = dpi[n] /\ i.name = <<"DPI", n>>
          \/ \E n \in Nationalities : i = dossier[n] /\ i.name = <<"Dossier", n>>
          \/ \E x \in DOMAIN ExamGrade : i = exam[x] /\ i.name = <<"Exam", x>>
          \/ i = first \/ i = second
    <3> HIDE DEF DaiItems, DpiItems, DossierItems, ExamItems
    <3> QED BY <1>1, <2>1
  <2> SUFFICES ASSUME NEW i \in DerivedItems, NEW j \in DerivedItems, i.name = j.name
               PROVE  i = j
    BY DEF NamesDiffer
  <2> HIDE DEF DaiItems, DpiItems, DossierItems, ExamItems, Evaluations, Derivable
  <2>5. CASE \E n \in Nationalities : i = dai[n] /\ i.name = <<"DAI", n>>
    BY <2>2, <2>4, <2>5
  <2>6. CASE \E n \in Nationalities : i = dpi[n] /\ i.name = <<"DPI", n>>
    BY <2>2, <2>4, <2>6
  <2>7. CASE \E n \in Nationalities : i = dossier[n] /\ i.name = <<"Dossier", n>>
    BY <2>2, <2>4, <2>7
  <2>8. CASE \E x \in DOMAIN ExamGrade : i = exam[x] /\ i.name = <<"Exam", x>>
    BY <2>2, <2>4, <2>8
  <2>9. CASE i = first
    BY <2>2, <2>4, <2>9
  <2>10. CASE i = second
    BY <2>2, <2>4, <2>10
  <2> QED BY <2>4, <2>5, <2>6, <2>7, <2>8, <2>9, <2>10
<1> HIDE DEF DerivedItem, DaiItems, DpiItems, DossierItems, ExamItems, first, second
<1> QED BY <1>1, <1>8, <1>9, <1>10, <1>11, <1>12

\* Amounts of some of the rows may be taken from those of all.
LEMMA AmountsAgree ==
  ASSUME NEW S, IsFiniteSet(S), \A r \in S : r.amount \in Int, NEW T, T \subseteq S
  PROVE  /\ AmountOf(T) = SumOver([r \in S |-> r.amount], T)
         /\ AmountOf(T) \in Int /\ IsFiniteSet(T)
<1> DEFINE f == [r \in S |-> r.amount]
           g == [r \in T |-> r.amount]
<1>1. IsFiniteSet(T)
  BY FS_Subset
<1>2. \A r \in T : g[r] = f[r] /\ g[r] \in Int
  OBVIOUS
<1> HIDE DEF f, g
<1>3. SumOver(g, T) = SumOver(f, T) /\ SumOver(g, T) \in Int
  BY <1>1, <1>2, SumAgrees, SumWhole
<1> QED BY <1>1, <1>3 DEF AmountOf, f, g

\* Rows with an amount by a key of their own add up to the amounts.
LEMMA RowsAddUp ==
  ASSUME NEW K, IsFiniteSet(K), NEW amount, \A k \in K : amount[k] \in Int,
         NEW row, NEW R, \A k \in K : row[k] \in R /\ row[k].amount = amount[k],
         \A k, l \in K : row[k] = row[l] => k = l,
         \A r \in R : \E k \in K : row[k] = r
  PROVE  AmountOf(R) = SumOver(amount, K) /\ IsFiniteSet(R)
<1> DEFINE f == [r \in R |-> r.amount]
<1>1. \A k \in K : f[row[k]] = amount[k]
  OBVIOUS
<1>2. IsFiniteSet(R)
  <2>1. IsFiniteSet({row[k] : k \in K}) /\ R = {row[k] : k \in K}
    BY FiniteImage
  <2> QED BY <2>1
<1> HIDE DEF f
<1>3. SumOver(amount, K) = SumOver(f, R)
  BY <1>1, SumRenamed
<1> QED BY <1>2, <1>3 DEF AmountOf, f

\* The rows of an item.
LEMMA ItemAddsUp ==
  ASSUME NEW i, i.annual \in Int, Distributed(i)
  PROVE  /\ IsFiniteSet(RowsOf(i))
         /\ \A r \in RowsOf(i) :
              /\ r.amount \in Int /\ r.name = i.name /\ r.category = i.category
              /\ r.executive \in ShownCategories \cup {None}
         /\ Billable(i) => AmountOf(RowsOf(i)) = i.annual
<1> DEFINE share == Spread(i)
           with == {k \in DOMAIN share : share[k] # 0}
           row == [m \in with |->
                     [name |-> i.name, category |-> i.category,
                      executive |-> ExecutiveCategory(i), month |-> m, amount |-> share[m]]]
<1>1. /\ DOMAIN share \subseteq Months
      /\ \A m \in DOMAIN share : share[m] \in Int
      /\ Billable(i) => SumOver(share, DOMAIN share) = i.annual
  BY SpreadAddsUp
<1>2. RowsOf(i) = {row[m] : m \in with}
  BY DEF RowsOf
<1>3. ExecutiveCategory(i) \in ShownCategories \cup {None}
  BY DEF ExecutiveCategory, ShownCategories
<1>4. \A m \in with :
        /\ row[m].amount = share[m] /\ row[m].name = i.name /\ row[m].category = i.category
        /\ row[m].executive = ExecutiveCategory(i) /\ row[m].month = m
  OBVIOUS
<1>5. with \subseteq DOMAIN share /\ \A m \in DOMAIN share \ with : share[m] = 0
  OBVIOUS
<1> HIDE DEF row, share, with
<1>6. IsFiniteSet(DOMAIN share) /\ IsFiniteSet(with)
  BY <1>1, <1>5, MonthsFinite, FS_Subset
<1>7. \A m \in with : share[m] \in Int
  BY <1>1, <1>5
<1>8. \A k, l \in with : row[k] = row[l] => k = l
  BY <1>4
<1>9. AmountOf(RowsOf(i)) = SumOver(share, with) /\ IsFiniteSet(RowsOf(i))
  <2>1. \A m \in with : row[m] \in RowsOf(i) /\ row[m].amount = share[m]
    BY <1>2, <1>4
  <2>2. \A r \in RowsOf(i) : \E m \in with : row[m] = r
    BY <1>2
  <2> DEFINE R == RowsOf(i)
             g == [r \in R |-> r.amount]
  <2>3. \A m \in with : share[m] \in Int /\ row[m] \in R /\ g[row[m]] = share[m]
    BY <1>7, <2>1
  <2> HIDE DEF R, g
  <2>4. SumOver(share, with) = SumOver(g, R)
    BY <1>6, <1>8, <2>2, <2>3, SumRenamed DEF R
  <2>5. IsFiniteSet(R)
    BY <1>6, <1>7, <1>8, <2>1, <2>2, RowsAddUp DEF R
  <2> QED BY <2>4, <2>5 DEF AmountOf, R, g
<1>10. SumOver(share, DOMAIN share) = SumOver(share, with)
  BY <1>1, <1>5, <1>6, SumOfOthers
<1>11. \A r \in RowsOf(i) :
         /\ r.amount \in Int /\ r.name = i.name /\ r.category = i.category
         /\ r.executive \in ShownCategories \cup {None}
  <2> TAKE r \in RowsOf(i)
  <2>1. PICK m \in with : r = row[m]
    BY <1>2
  <2> QED BY <1>3, <1>4, <1>7, <2>1
<1> QED BY <1>1, <1>2, <1>9, <1>10, <1>11

\* Revenue as it is calculated.
LEMMA RevenueTyped ==
  ASSUME EnrollmentTypes, BudgetTypes, Derivable
  PROVE  BookedRows(Revenue)
<1> DEFINE all == items \cup DerivedItems
<1>1. Revenue.tuition = [c \in Billed |-> Tuition(c)]
      /\ Revenue.other = UNION {RowsOf(i) : i \in all}
  BY DEF Revenue
<1>2. \A i \in all : i.annual \in Int /\ Distributed(i) /\ i.category # "Rental Income"
  BY DerivedTyped DEF BudgetTypes, ItemList, DerivedItem
<1>3. IsFiniteSet(all)
  <2>1. IsFiniteSet(items) /\ IsFiniteSet(DerivedItems)
    BY DerivedTyped DEF BudgetTypes, ItemList
  <2> QED BY <2>1, FS_Union
<1> HIDE DEF all
<1>4. IsFiniteSet(Revenue.other)
  <2> DEFINE rows == [i \in all |-> RowsOf(i)]
             sets == {rows[i] : i \in all}
  <2>1. IsFiniteSet(sets)
    <3> HIDE DEF rows
    <3> QED BY <1>3, FiniteImage
  <2>2. \A T \in sets : IsFiniteSet(T)
    BY <1>2, ItemAddsUp
  <2>3. Revenue.other = UNION sets
    BY <1>1
  <2> HIDE DEF sets
  <2> QED BY <2>1, <2>2, <2>3, FS_UNION
<1>5. \A r \in Revenue.other :
        /\ r.amount \in Int /\ r.category # "Rental Income"
        /\ r.executive \in ShownCategories \cup {None}
  <2> TAKE r \in Revenue.other
  <2>1. PICK i \in all : r \in RowsOf(i)
    BY <1>1
  <2> QED BY <1>2, <2>1, ItemAddsUp
<1>6. Billed \subseteq Cells
  BY DEF Billed
<1>7. \A c \in Billed : \A m \in DOMAIN Tuition(c).net : Tuition(c).net[m] \in Int
  BY TuitionAddsUp
<1> QED BY <1>1, <1>4, <1>5, <1>6, <1>7 DEF BookedRows

\* Revenue as it is calculated adds up.
LEMMA RevenueSums ==
  ASSUME EnrollmentTypes, BudgetTypes, "REVENUE" \notin stale => booked = Revenue /\ Derivable
  PROVE  RevenueAddsUp
<1> SUFFICES ASSUME "REVENUE" \notin stale  PROVE RevenueAddsUp
  BY DEF RevenueAddsUp
<1>1. booked = Revenue /\ Derivable
  OBVIOUS
<1> DEFINE all == items \cup DerivedItems
<1>2. booked.tuition = [c \in Billed |-> Tuition(c)]
      /\ booked.other = UNION {RowsOf(i) : i \in all}
  BY <1>1 DEF Revenue
<1>3. \A i \in all : i.annual \in Int /\ Distributed(i)
  BY <1>1, DerivedTyped DEF BudgetTypes, ItemList, DerivedItem
<1>4. NamesDiffer(all)
  BY <1>1, DerivedTyped DEF BudgetTypes, ItemList, DerivedItem, NamesDiffer
<1> HIDE DEF all
<1>5. ASSUME NEW i \in all, Billable(i)
      PROVE  AmountOf(ItemRows(i)) = i.annual
  <2>1. ItemRows(i) = RowsOf(i)
    <3>1. \A j \in all : \A r \in RowsOf(j) : r.name = j.name
      BY <1>3, ItemAddsUp
    <3> QED BY <1>2, <1>4, <3>1 DEF ItemRows, NamesDiffer
  <2> QED BY <1>3, <1>5, <2>1, ItemAddsUp
<1>6. ASSUME NEW c \in TuitionCells
      PROVE  LET year(part) == SumOver(part, DOMAIN part)
                 t == booked.tuition[c]
                 rest == year(t.gross) - year(t.discount) - year(t.net)
             IN -1 <= rest /\ rest <= 1
  <2>1. c \in Billed /\ booked.tuition[c] = Tuition(c)
    BY <1>2 DEF TuitionCells
  <2> QED BY <2>1, TuitionAddsUp
<1> QED BY <1>5, <1>6 DEF RevenueAddsUp, all

-----------------------------------------------------------------------------
(* What staff costs.                                                       *)

\* A row of what staff costs as the account reads it: its parts make up its
\* total within two units.
PayRow(r) ==
  /\ r.gross \in Int /\ r.housing \in Int /\ r.transport \in Int /\ r.premium \in Int
  /\ r.hsa \in Int /\ r.gosi \in Int /\ r.ajeer \in Int /\ r.award \in Int
  /\ r.total \in Int
  /\ r.gross + r.gosi + r.ajeer + r.award - r.total \in -2..2
PayrollRows(p) ==
  /\ IsFiniteSet(DOMAIN p.pay)
  /\ \A e \in DOMAIN p.pay, m \in Months : PayRow(p.pay[e][m])
  /\ IsFiniteSet(DOMAIN p.byCategory)
  /\ \A c \in DOMAIN p.byCategory, m \in Months : p.byCategory[c][m] \in Int

\* How far the rounded parts of a row are from its rounded total.
RowOff(g, r, j, a, one) ==
  HalfUp(g, one) + HalfUp(g * r, one * one) + HalfUp(j, 12) + HalfUp(a, 720)
    - HalfUp(g * 720 * (one + r) + (j * 60 + a) * one * one, 720 * one * one)

\* The total of a row is rounded by itself, its four parts each by itself.
LEMMA PartsMakeTotal ==
  ASSUME NEW g \in Int, NEW r \in Int, NEW j \in Int, NEW a \in Int,
         NEW one \in Nat \ {0}
  PROVE  RowOff(g, r, j, a, one) \in -2..2
<1> DEFINE sq == one * one
           d == 720 * sq
           gr == g * r
           k == 720 * one
           k60 == 60 * sq
           t == g * 720 * (one + r) + (j * 60 + a) * one * one
           p == HalfUp(g, one)
           q == HalfUp(gr, sq)
           s == HalfUp(j, 12)
           u == HalfUp(a, 720)
           w == HalfUp(t, d)
<1>1. sq \in Nat \ {0} /\ d \in Nat \ {0} /\ k \in Nat \ {0} /\ k60 \in Nat \ {0}
      /\ gr \in Int /\ t \in Int
  OBVIOUS
<1>2. k * one = d /\ k60 * 12 = d /\ sq * 720 = d /\ 1 * d = d
  <2>1. sq \in Int /\ (720 * one) * one = 720 * (one * one)
    OBVIOUS
  <2>2. (60 * sq) * 12 = 720 * sq /\ sq * 720 = 720 * sq /\ 1 * (720 * sq) = 720 * sq
    <3> HIDE DEF sq
    <3> QED BY <1>1
  <2> QED BY <2>1, <2>2
<1>3. k * g + 720 * gr + k60 * j + sq * a = t
  <2>1. g * 720 * (one + r) = (720 * one) * g + 720 * (g * r)
    OBVIOUS
  <2>2. (j * 60 + a) * one * one = (60 * (one * one)) * j + (one * one) * a
    OBVIOUS
  <2> QED BY <2>1, <2>2
<1>4. 720 * one * one = d
  OBVIOUS
<1> HIDE DEF sq, d, gr, k, k60, t
<1>5. p \in Int /\ q \in Int /\ s \in Int /\ u \in Int /\ w \in Int
  <2>1. 12 \in Nat \ {0} /\ 720 \in Nat \ {0}
    OBVIOUS
  <2>2. p \in Int
    BY HalfUpWhole
  <2>3. q \in Int
    BY <1>1, HalfUpWhole
  <2>4. s \in Int
    BY <2>1, HalfUpWhole
  <2>5. u \in Int
    BY <2>1, HalfUpWhole
  <2>6. w \in Int
    BY <1>1, HalfUpWhole
  <2> QED BY <2>2, <2>3, <2>4, <2>5, <2>6, Zenon
<1> DEFINE dp == d * p
           dq == d * q
           ds == d * s
           du == d * u
           dw == d * w
           x == p + q + s + u - w
<1>6. 2 * dp - 2 * (k * g) <= d /\ -d <= 2 * dp - 2 * (k * g)
  <2>1. /\ 2 * ((k * one) * p) - 2 * (k * g) <= k * one
        /\ -(k * one) <= 2 * ((k * one) * p) - 2 * (k * g)
    BY <1>1, ScaledNear
  <2>2. (k * one) * p = dp
    BY <1>2
  <2> HIDE DEF p, dp
  <2> QED BY <1>2, <2>1, <2>2
<1>7. 2 * dq - 2 * (720 * gr) <= d /\ -d <= 2 * dq - 2 * (720 * gr)
  BY <1>1, ScaledNear DEF d
<1>8. 2 * ds - 2 * (k60 * j) <= d /\ -d <= 2 * ds - 2 * (k60 * j)
  <2>1. 12 \in Nat \ {0}
    OBVIOUS
  <2>2. /\ 2 * ((k60 * 12) * s) - 2 * (k60 * j) <= k60 * 12
        /\ -(k60 * 12) <= 2 * ((k60 * 12) * s) - 2 * (k60 * j)
    BY <1>1, <2>1, ScaledNear
  <2>3. (k60 * 12) * s = ds
    BY <1>2
  <2> HIDE DEF s, ds
  <2> QED BY <1>2, <2>2, <2>3
<1>9. 2 * du - 2 * (sq * a) <= d /\ -d <= 2 * du - 2 * (sq * a)
  <2>1. 720 \in Nat \ {0}
    OBVIOUS
  <2>2. /\ 2 * ((sq * 720) * u) - 2 * (sq * a) <= sq * 720
        /\ -(sq * 720) <= 2 * ((sq * 720) * u) - 2 * (sq * a)
    BY <1>1, <2>1, ScaledNear
  <2>3. (sq * 720) * u = du
    BY <1>2
  <2> HIDE DEF u, du
  <2> QED BY <1>2, <2>2, <2>3
<1>10. 2 * dw - 2 * t <= d /\ -d <= 2 * dw - 2 * t
  BY <1>1, HalfUpNear
<1>11. dp \in Int /\ dq \in Int /\ ds \in Int /\ du \in Int /\ dw \in Int
       /\ d * x = dp + dq + ds + du - dw /\ x \in Int
  <2> HIDE DEF p, q, s, u, w
  <2> QED BY <1>1, <1>5
<1>12. k * g \in Int /\ 720 * gr \in Int /\ k60 * j \in Int /\ sq * a \in Int
  BY <1>1
<1> DEFINE kg == k * g
           kj == k60 * j
           ka == sq * a
<1> HIDE DEF dp, dq, ds, du, dw, x, kg, kj, ka
<1>13. 2 * (d * x) <= 5 * d /\ -(5 * d) <= 2 * (d * x)
  BY <1>1, <1>3, <1>6, <1>7, <1>8, <1>9, <1>10, <1>11, <1>12 DEF kg, kj, ka
<1>14. ASSUME x >= 3  PROVE FALSE
  <2>1. d * x >= d * 3
    BY <1>1, <1>11, <1>14
  <2> QED BY <1>1, <1>11, <1>13, <2>1
<1>15. ASSUME x <= -3  PROVE FALSE
  <2>1. d * x <= d * (-3)
    BY <1>1, <1>11, <1>15
  <2> QED BY <1>1, <1>11, <1>13, <2>1
<1>16. x \in -2..2
  BY <1>11, <1>14, <1>15
<1> QED BY <1>4, <1>16 DEF x, gr, sq, t, RowOff

\* A month of an employee, in parts of One.
LEMMA PayTyped ==
  ASSUME BudgetTypes, NEW e, Employee(e), NEW m \in Months
  PROVE  /\ Gross(e, m) \in Int /\ Raise(e, m) \in Int /\ HsaOf(e, m) \in Int
         /\ Accrual(e, m) \in Int /\ GosiRate(e) \in Int /\ AjeerOf(e) \in Int
<1>1. One \in Nat \ {0} /\ m \in Int /\ Gosi \in Int
  BY AmountsAssumption, RatesAssumption DEF Months
<1>2. /\ e.salary \in Int /\ e.housing \in Int /\ e.transport \in Int /\ e.premium \in Int
      /\ e.augmentation \in Int /\ e.hired.month \in Int /\ e.hired.day \in Int
  BY DEF Employee
<1>3. /\ terms.ajeer \in Int /\ terms.first \in Int /\ terms.additional \in Int
      /\ terms.target \in Int
  BY DEF BudgetTypes, Term
<1> HIDE DEF BudgetTypes, Employee
<1>4. AwardBase(e) \in Int /\ Raise(e, m) \in Int
  BY <1>1, <1>2 DEF AwardBase, Raise
<1>5. HsaOf(e, m) \in Int
  <2> DEFINE hours == terms.first * One + AtLeast(terms.target - One, 0) * terms.additional
  <2>1. AtLeast(terms.target - One, 0) \in Int
    BY <1>1, <1>3 DEF AtLeast
  <2>2. hours \in Int
    BY <1>1, <1>3, <2>1
  <2> HIDE DEF hours
  <2>3. HalfUp(hours, One) \in Int
    BY <1>1, <2>2, HalfUpWhole
  <2>4. HsaPerMonth * One \in Int
    BY <1>1, <2>3 DEF HsaPerMonth, Stored, hours
  <2> HIDE DEF HsaPerMonth
  <2> QED BY <2>4 DEF HsaOf
<1>6. \A k \in Int : AwardAt(e, k) \in Int
  <2> TAKE k \in Int
  <2>1. Served(k, e.hired) \in Int
    BY <1>2 DEF Served, LastDay
  <2> DEFINE base == AwardBase(e)
             days == Served(k, e.hired)
  <2>2. base \in Int /\ days \in Int
    BY <1>4, <2>1
  <2> HIDE DEF base, days
  <2>3. Award(base, days) \in Int
    BY <2>2 DEF Award
  <2> QED BY <2>3 DEF AwardAt, base, days
<1>7. Accrual(e, m) \in Int
  <2>1. AwardAt(e, m) \in Int /\ AwardAt(e, m - 1) \in Int
    BY <1>1, <1>6
  <2> HIDE DEF AwardAt
  <2> QED BY <2>1 DEF Accrual, AtLeast
<1>8. Gross(e, m) \in Int
  <2> DEFINE a == AwardBase(e)
             b == Raise(e, m)
             h == HsaOf(e, m)
  <2>1. a \in Int /\ b \in Int /\ h \in Int
    BY <1>4, <1>5
  <2> HIDE DEF a, b, h
  <2>2. a * b + h \in Int
    BY <2>1
  <2> QED BY <2>2 DEF Gross, a, b, h
<1>9. GosiRate(e) \in Int /\ AjeerOf(e) \in Int
  BY <1>1, <1>3 DEF GosiRate, AjeerOf
<1> QED BY <1>4, <1>5, <1>7, <1>8, <1>9

\* The row of a month of an employee.
LEMMA CostTyped ==
  ASSUME BudgetTypes, NEW e, Employee(e), NEW m \in Months
  PROVE  PayRow(CostOf(e, m))
<1> DEFINE r == CostOf(e, m)
           g == Gross(e, m)
           up == Raise(e, m)
           rate == GosiRate(e)
           j == AjeerOf(e)
           a == Accrual(e, m)
           h == HsaOf(e, m)
<1>1. One \in Nat \ {0}
  BY AmountsAssumption
<1>2. /\ g \in Int /\ up \in Int /\ rate \in Int /\ j \in Int /\ a \in Int /\ h \in Int
      /\ e.housing \in Int /\ e.transport \in Int /\ e.premium \in Int
  BY PayTyped DEF Employee
<1>3. CASE ~Paid(e, m)
  <2>1. r = NothingPaid
    BY <1>3 DEF CostOf
  <2> QED BY <2>1 DEF NothingPaid, PayRow
<1>4. CASE Paid(e, m)
  <2> DEFINE t == g * 720 * (One + rate) + (j * 60 + a) * One * One
  <2>1. /\ r.gross = HalfUp(g, One) /\ r.housing = HalfUp(e.housing * up, One)
        /\ r.transport = HalfUp(e.transport * up, One)
        /\ r.premium = HalfUp(e.premium * up, One)
        /\ r.hsa = HalfUp(h, One) /\ r.gosi = HalfUp(g * rate, One * One)
        /\ r.ajeer = HalfUp(j, 12) /\ r.award = HalfUp(a, 720)
        /\ r.total = HalfUp(t, 720 * One * One)
    BY <1>4 DEF CostOf, Stored
  <2> HIDE DEF r, g, up, rate, j, a, h
  <2>2. /\ g * rate \in Int /\ t \in Int /\ One * One \in Nat \ {0}
        /\ 720 * One * One \in Nat \ {0} /\ 12 \in Nat \ {0} /\ 720 \in Nat \ {0}
    BY <1>1, <1>2
  <2>3. e.housing * up \in Int /\ e.transport * up \in Int /\ e.premium * up \in Int
    BY <1>2
  <2>4. r.gross + r.gosi + r.ajeer + r.award - r.total \in -2..2
    <3>1. RowOff(g, rate, j, a, One) \in -2..2
      BY <1>1, <1>2, PartsMakeTotal
    <3> QED BY <2>1, <3>1 DEF RowOff
  <2> HIDE DEF t
  <2>5. r.gross \in Int /\ r.hsa \in Int
    <3>1. HalfUp(g, One) \in Int
      BY <1>1, <1>2, HalfUpWhole
    <3>2. HalfUp(h, One) \in Int
      BY <1>1, <1>2, HalfUpWhole
    <3> QED BY <2>1, <3>1, <3>2
  <2>6. r.housing \in Int /\ r.transport \in Int /\ r.premium \in Int
    <3> DEFINE x == e.housing * up
               y == e.transport * up
               z == e.premium * up
    <3>1. x \in Int /\ y \in Int /\ z \in Int
      BY <2>3
    <3> HIDE DEF x, y, z
    <3>2. HalfUp(x, One) \in Int /\ HalfUp(y, One) \in Int /\ HalfUp(z, One) \in Int
      BY <1>1, <3>1, HalfUpWhole
    <3> QED BY <2>1, <3>2 DEF x, y, z
  <2>7. r.gosi \in Int /\ r.total \in Int
    <3> DEFINE x == g * rate
               sq == One * One
               d == 720 * One * One
    <3>1. x \in Int /\ sq \in Nat \ {0} /\ d \in Nat \ {0} /\ t \in Int
      BY <2>2
    <3> HIDE DEF x, sq, d
    <3>2. HalfUp(x, sq) \in Int /\ HalfUp(t, d) \in Int
      BY <3>1, HalfUpWhole
    <3> QED BY <2>1, <3>2 DEF x, sq, d
  <2>8. r.ajeer \in Int /\ r.award \in Int
    <3>1. HalfUp(j, 12) \in Int
      BY <1>2, <2>2, HalfUpWhole
    <3>2. HalfUp(a, 720) \in Int
      BY <1>2, <2>2, HalfUpWhole
    <3> QED BY <2>1, <3>1, <3>2
  <2>9. PayRow(r)
    BY <2>4, <2>5, <2>6, <2>7, <2>8 DEF PayRow
  <2> QED BY <2>9, Zenon DEF r
<1> QED BY <1>3, <1>4, Zenon

\* What a rule of the teaching grid calls for.
LEMMA RuleTyped ==
  ASSUME EnrollmentTypes, BudgetTypes, NEW i \in Active
  PROVE  Units(TeachingRules[i]) \in Int /\ Hours(TeachingRules[i]) \in Int
<1> DEFINE r == TeachingRules[i]
<1>1. i \in DOMAIN TeachingRules /\ r.grade \in Grades /\ r.hours \in Int
  BY RatesAssumption DEF Active
<1>2. AY2(r.grade) \in Nat
  <2>1. <<"AY2", r.grade>> \in Years \X Grades
    BY <1>1 DEF Years
  <2>2. AY2(r.grade) \in Nat \cup {None}
    BY <2>1 DEF AY2, EnrollmentTypes
  <2>3. AY2(r.grade) # None
    BY DEF Active, Called, Or
  <2> QED BY <2>2, <2>3
<1>3. room[r.grade] \in Nat \ {0}
  BY <1>1 DEF EnrollmentTypes
<1>4. Group(r) \in DOMAIN groups =>
        groups[Group(r)].count \in Int /\ groups[Group(r)].hours \in Int
  BY DEF BudgetTypes, GroupList
<1> HIDE DEF r, BudgetTypes
<1>5. Units(r) \in Int
  <2> DEFINE x == AY2(r.grade) + room[r.grade] - 1
             y == room[r.grade]
  <2>1. x \in Int /\ y \in Nat \ {0}
    BY <1>2, <1>3
  <2> HIDE DEF x, y
  <2>2. x \div y \in Int
    BY <2>1
  <2>3. Sections(AY2(r.grade), room[r.grade]) \in Int
    BY <2>2 DEF Sections, CeilDiv, x, y
  <2> QED BY <1>4, <2>3 DEF Units
<1>6. Hours(r) \in Int
  <2> HIDE DEF Units
  <2>1. Units(r) * r.hours \in Int
    BY <1>1, <1>5
  <2>2. Group(r) \in DOMAIN groups => Units(r) * groups[Group(r)].hours \in Int
    BY <1>4, <1>5
  <2> QED BY <2>1, <2>2 DEF Hours
<1> QED BY <1>5, <1>6 DEF r

\* What a line of the grid calls for is a whole number of parts of One;
LEMMA PlaceTyped ==
  ASSUME EnrollmentTypes, BudgetTypes, NEW p \in PlacesCalled
  PROVE  RequiredFte(p) \in Int
<1> DEFINE at == AtPlace(p)
           units == [i \in at |-> Units(TeachingRules[i])]
           hours == [i \in at |-> Hours(TeachingRules[i])]
           week == profiles[Leading(p).profile].weeklyHours
<1>1. at \subseteq Active /\ at # {} /\ at \subseteq DOMAIN TeachingRules
  BY DEF AtPlace, PlacesCalled, Active
<1>2. IsFiniteSet(at) /\ at \subseteq Nat
  BY <1>1, RatesAssumption, FS_Subset
<1>3. \A i \in at : units[i] \in Int /\ hours[i] \in Int
  BY <1>1, RuleTyped
<1>4. Min(at) \in at
  BY <1>1, <1>2, LeastYear
<1>5. Leading(p).driver # "SECTION" => week \in Nat \ {0}
  <2>1. Min(at) \in DOMAIN TeachingRules /\ Leading(p) = TeachingRules[Min(at)]
    BY <1>1, <1>4 DEF Leading
  <2>2. ProfileList(profiles)
    BY DEF BudgetTypes
  <2> QED BY <2>1, <2>2 DEF ProfileList
<1>6. One \in Nat \ {0}
  BY AmountsAssumption
<1> HIDE DEF at, units, hours, week
<1>7. SumOver(units, at) \in Int /\ SumOver(hours, at) \in Int
  BY <1>2, <1>3, SumWhole
<1>8. One * SumOver(units, at) \in Int /\ One * SumOver(hours, at) \in Int
  BY <1>6, <1>7
<1>9. CASE Leading(p).driver = "SECTION"
  <2>1. RequiredFte(p) = One * SumOver(units, at)
    BY <1>9 DEF RequiredFte, units, at
  <2> QED BY <1>8, <2>1
<1>10. CASE Leading(p).driver # "SECTION"
  <2> DEFINE x == One * SumOver(hours, at)
  <2>1. x \in Int /\ week \in Nat \ {0}
    BY <1>5, <1>8, <1>10
  <2>2. RequiredFte(p) = HalfUp(x, week)
    BY <1>10 DEF RequiredFte, hours, at, week
  <2> HIDE DEF x
  <2>3. HalfUp(x, week) \in Int
    BY <2>1, HalfUpWhole
  <2> QED BY <2>2, <2>3
<1> QED BY <1>9, <1>10

\* so is what all of them call for.
LEMMA FteTyped ==
  ASSUME EnrollmentTypes, BudgetTypes
  PROVE  TotalFte \in Int
<1> DEFINE of == [i \in Active |-> Place(TeachingRules[i])]
           f == [p \in PlacesCalled |-> RequiredFte(p)]
<1>1. IsFiniteSet(Active)
  BY RatesAssumption, FS_Subset DEF Active
<1>2. IsFiniteSet(PlacesCalled)
  <2>1. PlacesCalled = {of[i] : i \in Active}
    BY DEF PlacesCalled
  <2> HIDE DEF of
  <2> QED BY <1>1, <2>1, FiniteImage
<1>3. \A p \in PlacesCalled : f[p] \in Int
  BY PlaceTyped
<1> HIDE DEF f
<1>4. SumOver(f, PlacesCalled) \in Int
  BY <1>2, <1>3, SumWhole
<1> QED BY <1>4 DEF TotalFte, f

\* A month of a cost that goes by category.
LEMMA CategoryTyped ==
  ASSUME EnrollmentTypes, BudgetTypes, NEW c \in categories, NEW m \in Months
  PROVE  CategoryCost(c, m) \in Int
<1>1. c.value \in Int /\ One \in Nat \ {0} /\ Parts(c) \in Nat \ {0}
  BY AmountsAssumption DEF BudgetTypes, CostList, Parts
<1>2. PayrollOf(m) \in Int
  <2> DEFINE paid == {e \in Employed : Paid(e, m)}
             f == [e \in paid |-> Gross(e, m)]
  <2>1. paid \subseteq staff
    BY DEF Employed
  <2>2. IsFiniteSet(paid)
    BY <2>1, FS_Subset DEF BudgetTypes
  <2>3. \A e \in paid : f[e] \in Int
    BY <2>1, PayTyped DEF BudgetTypes
  <2> HIDE DEF paid, f
  <2>4. SumOver(f, paid) \in Int
    BY <2>2, <2>3, SumWhole
  <2> QED BY <2>4 DEF PayrollOf, f, paid
<1>3. TotalFte \in Int
  BY FteTyped
<1> DEFINE x == PayrollOf(m) * c.value
           y == c.value * TotalFte
           sq == One * One
           d == One * Parts(c)
<1>4. x \in Int /\ y \in Int /\ sq \in Nat \ {0} /\ d \in Nat \ {0}
  BY <1>1, <1>2, <1>3
<1> HIDE DEF x, y, sq, d
<1>5. HalfUp(c.value, Parts(c)) \in Int /\ HalfUp(x, sq) \in Int /\ HalfUp(y, d) \in Int
  <2>1. HalfUp(c.value, Parts(c)) \in Int
    BY <1>1, HalfUpWhole
  <2>2. HalfUp(x, sq) \in Int
    BY <1>4, HalfUpWhole
  <2>3. HalfUp(y, d) \in Int
    BY <1>4, HalfUpWhole
  <2> QED BY <2>1, <2>2, <2>3, Zenon
<1> QED BY <1>5 DEF CategoryCost, Stored, x, y, sq, d

\* What staff costs as it is calculated.
LEMMA StaffTyped ==
  ASSUME EnrollmentTypes, BudgetTypes
  PROVE  PayrollRows(StaffCost)
<1> DEFINE cats == {d.category : d \in categories}
           chosen(c) == CHOOSE x \in categories : x.category = c
           name == [d \in categories |-> d.category]
<1>1. /\ DOMAIN StaffCost.pay = OnTheBooks
      /\ \A e \in OnTheBooks, m \in Months : StaffCost.pay[e][m] = CostOf(e, m)
  BY DEF StaffCost
<1>2. DOMAIN StaffCost.byCategory = cats
  BY DEF StaffCost
<1>3. \A c \in cats, m \in Months : StaffCost.byCategory[c][m] = CategoryCost(chosen(c), m)
  BY DEF StaffCost
<1>4. \A c \in cats : chosen(c) \in categories
  OBVIOUS
<1>5. IsFiniteSet(cats)
  <2>1. cats = {name[d] : d \in categories} /\ IsFiniteSet(categories)
    BY DEF BudgetTypes, CostList
  <2> HIDE DEF name, cats
  <2> QED BY <2>1, FiniteImage
<1>6. OnTheBooks \subseteq staff /\ IsFiniteSet(OnTheBooks)
  <2>1. OnTheBooks \subseteq staff
    BY DEF OnTheBooks, Employed
  <2> QED BY <2>1, FS_Subset DEF BudgetTypes
<1> HIDE DEF cats, chosen
<1>7. \A e \in OnTheBooks, m \in Months : PayRow(StaffCost.pay[e][m])
  BY <1>1, <1>6, CostTyped DEF BudgetTypes
<1>8. \A c \in cats, m \in Months : StaffCost.byCategory[c][m] \in Int
  BY <1>3, <1>4, CategoryTyped
<1> QED BY <1>1, <1>2, <1>5, <1>6, <1>7, <1>8 DEF PayrollRows

-----------------------------------------------------------------------------
(* What the calculations read.                                             *)

\* The tables revenue is calculated from.
sources == <<heads, cohort, detail, fees, items, settings>>

\* Revenue is a function of what it is calculated from.
LEMMA SameRevenue ==
  ASSUME UNCHANGED sources
  PROVE  Revenue' = Revenue /\ (Derivable' <=> Derivable)
<1>1. /\ heads' = heads /\ cohort' = cohort /\ detail' = detail
      /\ fees' = fees /\ items' = items /\ settings' = settings
  BY DEF sources
<1>2. \A y, g : DetailHeads(y, g)' = DetailHeads(y, g)
  BY <1>1 DEF DetailHeads
<1>3. \A g : Stayers(g)' = Stayers(g)
  BY <1>1, <1>2 DEF Stayers
<1>4. \A g : StayersOf(g)' = StayersOf(g)
  BY <1>2, <1>3 DEF StayersOf
<1>5. \A g : NewPupils(g)' = NewPupils(g)
  BY <1>2, <1>4 DEF NewPupils
<1>6. \A g, n : DaiFees(g, n)' = DaiFees(g, n)
  BY <1>1 DEF DaiFees
<1>7. (DaiAgrees' <=> DaiAgrees) /\ (DaiKnown' <=> DaiKnown)
  BY <1>1, <1>6 DEF DaiAgrees, DaiKnown
<1>8. \A g : Calculated(g)' <=> Calculated(g)
  BY <1>1 DEF Calculated
<1>9. Derivable' <=> Derivable
  BY <1>2, <1>3, <1>7, <1>8 DEF Derivable
<1>10. \A n : DaiOf(n)' = DaiOf(n)
  BY <1>1 DEF DaiOf
<1>11. \A n : NewOf(n)' = NewOf(n)
  BY <1>5 DEF NewOf
<1>12. \A band : NewIn(band)' = NewIn(band)
  BY <1>5 DEF NewIn
<1>13. \A g : AY1(g)' = AY1(g)
  BY <1>1 DEF AY1
<1>14. DerivedItems' = DerivedItems
  BY <1>1, <1>10, <1>11, <1>12, <1>13 DEF DerivedItems
<1>15. \A c : Discount(c)' = Discount(c)
  BY <1>1 DEF Discount
<1>16. \A c : Tuition(c)' = Tuition(c)
  BY <1>1, <1>15 DEF Tuition
<1>17. Billed' = Billed
  BY <1>1 DEF Billed
<1>18. Revenue' = Revenue
  BY <1>1, <1>14, <1>16, <1>17 DEF Revenue
<1> QED BY <1>9, <1>18

\* What staff costs is a function of the staff and its settings, of the
\* pupils and of the size of a class.
LEMMA SameStaff ==
  ASSUME UNCHANGED <<heads, room, staffing>>
  PROVE  StaffCost' = StaffCost
<1>1. /\ heads' = heads /\ room' = room /\ staff' = staff /\ categories' = categories
      /\ terms' = terms /\ groups' = groups /\ profiles' = profiles
  BY DEF staffing
<1>2. HsaPerMonth' = HsaPerMonth
  BY <1>1 DEF HsaPerMonth
<1>3. \A e, m : HsaOf(e, m)' = HsaOf(e, m)
  BY <1>1, <1>2 DEF HsaOf
<1>4. \A e, m : Gross(e, m)' = Gross(e, m)
  BY <1>3 DEF Gross
<1>5. \A e : AjeerOf(e)' = AjeerOf(e)
  BY <1>1 DEF AjeerOf
<1>6. \A e, m : CostOf(e, m)' = CostOf(e, m)
  BY <1>3, <1>4, <1>5 DEF CostOf
<1>7. Employed' = Employed
  BY <1>1 DEF Employed
<1>8. OnTheBooks' = OnTheBooks
  BY <1>7 DEF OnTheBooks
<1>9. \A m : PayrollOf(m)' = PayrollOf(m)
  BY <1>4, <1>7 DEF PayrollOf
<1>10. \A r : (Called(r)' <=> Called(r)) /\ Units(r)' = Units(r)
  BY <1>1 DEF Called, Units, AY2
<1>11. \A r : Hours(r)' = Hours(r)
  BY <1>1, <1>10 DEF Hours
<1>12. Active' = Active
  BY <1>10 DEF Active
<1>13. PlacesCalled' = PlacesCalled /\ \A p : AtPlace(p)' = AtPlace(p)
  BY <1>12 DEF PlacesCalled, AtPlace
<1>14. \A p : Leading(p)' = Leading(p)
  BY <1>13 DEF Leading
<1>15. \A p : RequiredFte(p)' = RequiredFte(p)
  BY <1>1, <1>10, <1>11, <1>13, <1>14 DEF RequiredFte
<1>16. TotalFte' = TotalFte
  BY <1>13, <1>15 DEF TotalFte
<1>17. \A c, m : CategoryCost(c, m)' = CategoryCost(c, m)
  BY <1>9, <1>16 DEF CategoryCost
<1> QED BY <1>1, <1>6, <1>8, <1>17 DEF StaffCost

\* The account is a function of the tables it is made from.
LEMMA SameAccount ==
  ASSUME UNCHANGED <<booked, payroll, monthly>>, (DOMAIN lines)' = DOMAIN lines
  PROVE  Pnl' = Pnl
<1>1. booked' = booked /\ payroll' = payroll /\ monthly' = monthly
      /\ DOMAIN (lines') = DOMAIN lines
  OBVIOUS
<1>2. TuitionCells' = TuitionCells
  BY <1>1 DEF TuitionCells
<1>3. \A cells, m : NetTuition(cells, m)' = NetTuition(cells, m)
  BY <1>1 DEF NetTuition, NetIn
<1>4. Existing' = Existing /\ New' = New
  BY <1>1 DEF Existing, New
<1>5. Rent' = Rent /\ \A x : Shown(x)' = Shown(x)
  BY <1>1 DEF Rent, Shown
<1>6. OperatingLines' = OperatingLines /\ \A x : LinesOf(x)' = LinesOf(x)
  BY <1>1 DEF OperatingLines, LinesOf
<1>7. \A l, m : StoredAmount(l, m)' = StoredAmount(l, m)
  BY <1>1 DEF StoredAmount
<1>8. \A l : HasRows(l)' <=> HasRows(l)
  BY <1>1 DEF HasRows
<1>9. \A set, m : SpentOn(set, m)' = SpentOn(set, m)
  BY <1>1, <1>7 DEF SpentOn
<1>10. \A m : TuitionLines(m)' = TuitionLines(m)
  BY <1>2, <1>3 DEF TuitionLines
<1>11. \A m : OtherLines(m)' = OtherLines(m)
  BY <1>5 DEF OtherLines
<1>12. \A m : StaffLines(m)' = StaffLines(m)
  BY <1>1, <1>4 DEF StaffLines, PayIn
<1>13. /\ \A m, x : OpExLines(x, LinesOf(x), m)' = OpExLines(x, LinesOf(x), m)
       /\ \A m : OpExLines("OTHER_OPEX", OperatingLines, m)'
                 = OpExLines("OTHER_OPEX", OperatingLines, m)
  BY <1>6, <1>7, <1>8 DEF OpExLines
<1>14. \A m : ExpenseLines(m)' = ExpenseLines(m)
  BY <1>13 DEF ExpenseLines
<1>15. \A m : LinesIn(m)' = LinesIn(m)
  BY <1>10, <1>11, <1>12, <1>14 DEF LinesIn
<1>16. \A m : TotalRevenue(m)' = TotalRevenue(m)
  BY <1>2, <1>3, <1>5 DEF TotalRevenue
<1>17. \A m : StaffTotal(m)' = StaffTotal(m)
  BY <1>12 DEF StaffTotal
<1>18. \A m : FinanceNet(m)' = FinanceNet(m)
  BY <1>1, <1>6, <1>7 DEF FinanceNet, SpentOn
<1>19. \A m : OperatingProfit(m)' = OperatingProfit(m)
  BY <1>1, <1>6, <1>7, <1>16, <1>17 DEF OperatingProfit, SpentOn
<1>20. \A m : BeforeZakat(m)' = BeforeZakat(m)
  BY <1>18, <1>19 DEF BeforeZakat
<1>21. \A m : Summary(m)' = Summary(m)
  BY <1>1, <1>6, <1>7, <1>16, <1>17, <1>18, <1>19, <1>20 DEF Summary, SpentOn
<1> QED BY <1>15, <1>21 DEF Pnl

-----------------------------------------------------------------------------
(* Steps keep the figures.                                                 *)

\* What revenue brings in a month.
LEMMA MonthlyTyped ==
  ASSUME BookedRows(booked)
  PROVE  /\ IsFiniteSet(TuitionCells)
         /\ \A m \in Months : \A c \in TuitionCells : NetIn(m)[c] \in Int
         /\ \A m \in Months : MonthlyRevenue[m] \in Int
<1>1. IsFiniteSet(TuitionCells)
  BY CellsFinite, FS_Subset DEF BookedRows, TuitionCells
<1>2. \A m \in Months : \A c \in TuitionCells : NetIn(m)[c] \in Int
  <2> TAKE m \in Months
  <2> TAKE c \in TuitionCells
  <2>1. NetIn(m)[c] = AmountIn(booked.tuition[c].net, m)
    BY DEF NetIn, TuitionCells
  <2>2. m \in DOMAIN booked.tuition[c].net => booked.tuition[c].net[m] \in Int
    BY DEF BookedRows, TuitionCells
  <2> QED BY <2>1, <2>2 DEF AmountIn
<1>3. ASSUME NEW m \in Months
      PROVE  NetTuition(TuitionCells, m) \in Int /\ AmountOf(InMonth(booked.other, m)) \in Int
  <2>1. SumOver(NetIn(m), TuitionCells) \in Int
    BY <1>1, <1>2, SumWhole
  <2>2. AmountOf(InMonth(booked.other, m)) \in Int
    <3> DEFINE S == booked.other
               T == InMonth(booked.other, m)
    <3>1. IsFiniteSet(S) /\ (\A r \in S : r.amount \in Int) /\ T \subseteq S
      BY DEF BookedRows, InMonth
    <3> HIDE DEF S, T
    <3>2. AmountOf(T) \in Int
      BY <3>1, AmountsAgree
    <3> QED BY <3>2 DEF T
  <2> QED BY <2>1, <2>2 DEF NetTuition
<1>4. \A m \in Months : MonthlyRevenue[m] \in Int
  BY <1>3 DEF MonthlyRevenue
<1> QED BY <1>1, <1>2, <1>4

\* A form keeps the table of expenses one of lines and amounts.
LEMMA ExpensesKept ==
  ASSUME ExpenseTable(lines, monthly), EditOpEx \/ PatchUnmarked
  PROVE  ExpenseTable(lines, monthly)'
<1>1. /\ IsFiniteSet(DOMAIN lines) /\ DOMAIN lines \subseteq LineNames
      /\ lines \in [DOMAIN lines -> ExpenseLine] /\ monthly \in [DOMAIN lines -> [Months -> Cell]]
  BY DEF ExpenseTable
<1>2. Defaults \in ExpenseLine /\ NoRows \in [Months -> Cell]
  BY DEF Defaults, ExpenseLine, Modes, Cell, NoRows
<1>3. ASSUME NEW l \in LineNames, NEW form \in ExpenseLine, WithLine(l, form)
      PROVE  ExpenseTable(lines', monthly')
  <2>1. /\ lines' = [k \in DOMAIN lines \cup {l} |-> IF k = l THEN form ELSE lines[k]]
        /\ monthly' = [k \in DOMAIN lines \cup {l} |->
                         IF k \in DOMAIN lines THEN monthly[k] ELSE NoRows]
    BY <1>3 DEF WithLine
  <2>2. DOMAIN (lines') = DOMAIN lines \cup {l}
    BY <2>1
  <2>3. IsFiniteSet(DOMAIN lines \cup {l})
    BY <1>1, FS_AddElement
  <2>4. lines' \in [DOMAIN lines \cup {l} -> ExpenseLine]
    BY <1>1, <2>1
  <2>5. monthly' \in [DOMAIN lines \cup {l} -> [Months -> Cell]]
    BY <1>1, <1>2, <2>1
  <2> QED BY <1>1, <2>2, <2>3, <2>4, <2>5 DEF ExpenseTable
<1>4. ASSUME NEW l \in DOMAIN lines, NEW line \in ExpenseLine,
             lines' = [lines EXCEPT ![l] = line], monthly' = monthly
      PROVE  ExpenseTable(lines', monthly')
  <2>1. DOMAIN (lines') = DOMAIN lines /\ lines' \in [DOMAIN lines -> ExpenseLine]
    BY <1>1, <1>4
  <2> QED BY <1>1, <1>4, <2>1 DEF ExpenseTable
<1>5. CASE PutLine
  BY <1>3, <1>5, FormsAssumption DEF PutLine
<1>6. CASE SaveComment
  BY <1>1, <1>2, <1>3, <1>6 DEF SaveComment
<1>7. CASE PutMonth
  <2>1. PICK l \in DOMAIN lines, m \in FormMonths, a \in OpExAmounts :
          monthly' = [monthly EXCEPT ![l][m] = a]
    BY <1>7 DEF PutMonth
  <2>2. a \in Cell /\ lines' = lines
    BY <1>7, FormsAssumption DEF PutMonth
  <2>3. monthly' \in [DOMAIN lines -> [Months -> Cell]]
    BY <1>1, <2>1, <2>2
  <2> QED BY <1>1, <2>2, <2>3 DEF ExpenseTable
<1>8. CASE PatchLine
  <2>1. monthly' = monthly
    BY <1>8 DEF PatchLine
  <2>2. PICK l \in DOMAIN lines :
          \/ \E mode \in Modes : lines' = [lines EXCEPT ![l].mode = mode]
          \/ \E set \in ActiveForms : lines' = [lines EXCEPT ![l].active = set]
          \/ \E a \in OpExAmounts :
               \/ lines' = [lines EXCEPT ![l].flat = a]
               \/ lines' = [lines EXCEPT ![l].annual = a]
    BY <1>8 DEF PatchLine
  <2>3. lines[l] \in ExpenseLine
    BY <1>1
  <2>4. \E line \in ExpenseLine : lines' = [lines EXCEPT ![l] = line]
    <3>1. ASSUME NEW mode \in Modes, lines' = [lines EXCEPT ![l].mode = mode]
          PROVE  \E line \in ExpenseLine : lines' = [lines EXCEPT ![l] = line]
      <4>1. [lines[l] EXCEPT !.mode = mode] \in ExpenseLine
        BY <2>3 DEF ExpenseLine
      <4> QED BY <3>1, <4>1
    <3>2. ASSUME NEW set \in ActiveForms, lines' = [lines EXCEPT ![l].active = set]
          PROVE  \E line \in ExpenseLine : lines' = [lines EXCEPT ![l] = line]
      <4>1. [lines[l] EXCEPT !.active = set] \in ExpenseLine
        BY <2>3, FormsAssumption DEF ExpenseLine
      <4> QED BY <3>2, <4>1
    <3>3. ASSUME NEW a \in OpExAmounts,
                 lines' = [lines EXCEPT ![l].flat = a] \/ lines' = [lines EXCEPT ![l].annual = a]
          PROVE  \E line \in ExpenseLine : lines' = [lines EXCEPT ![l] = line]
      <4>1. a \in Cell
        BY FormsAssumption
      <4>2. /\ [lines[l] EXCEPT !.flat = a] \in ExpenseLine
            /\ [lines[l] EXCEPT !.annual = a] \in ExpenseLine
        BY <2>3, <4>1 DEF ExpenseLine
      <4> QED BY <3>3, <4>2
    <3> QED BY <2>2, <3>1, <3>2, <3>3
  <2> QED BY <1>4, <2>1, <2>4
<1>9. CASE PatchUnmarked
  <2>1. monthly' = monthly
    BY <1>9 DEF PatchUnmarked
  <2>2. PICK l \in DOMAIN lines :
          \/ \E rate \in OpExRates : lines' = [lines EXCEPT ![l].rate = rate]
          \/ \E set \in SUBSET FormMonths : lines' = [lines EXCEPT ![l].custom = set]
    BY <1>9 DEF PatchUnmarked
  <2>3. lines[l] \in ExpenseLine
    BY <1>1
  <2>4. \E line \in ExpenseLine : lines' = [lines EXCEPT ![l] = line]
    <3>1. ASSUME NEW rate \in OpExRates, lines' = [lines EXCEPT ![l].rate = rate]
          PROVE  \E line \in ExpenseLine : lines' = [lines EXCEPT ![l] = line]
      <4>1. [lines[l] EXCEPT !.rate = rate] \in ExpenseLine
        BY <2>3, FormsAssumption DEF ExpenseLine
      <4> QED BY <3>1, <4>1
    <3>2. ASSUME NEW set \in SUBSET FormMonths, lines' = [lines EXCEPT ![l].custom = set]
          PROVE  \E line \in ExpenseLine : lines' = [lines EXCEPT ![l] = line]
      <4>1. [lines[l] EXCEPT !.custom = set] \in ExpenseLine
        BY <2>3, FormsAssumption DEF ExpenseLine
      <4> QED BY <3>2, <4>1
    <3> QED BY <2>2, <3>1, <3>2
  <2> QED BY <1>4, <2>1, <2>4
<1>10. CASE DeleteLine
  <2>1. PICK l \in DOMAIN lines :
          /\ lines' = [k \in DOMAIN lines \ {l} |-> lines[k]]
          /\ monthly' = [k \in DOMAIN lines \ {l} |-> monthly[k]]
    BY <1>10 DEF DeleteLine
  <2>2. DOMAIN (lines') = DOMAIN lines \ {l} /\ IsFiniteSet(DOMAIN lines \ {l})
    BY <1>1, <2>1, FS_RemoveElement
  <2>3. lines' \in [DOMAIN lines \ {l} -> ExpenseLine]
    BY <1>1, <2>1
  <2>4. monthly' \in [DOMAIN lines \ {l} -> [Months -> Cell]]
    BY <1>1, <2>1
  <2> QED BY <1>1, <2>2, <2>3, <2>4 DEF ExpenseTable
<1> QED BY <1>5, <1>6, <1>7, <1>8, <1>9, <1>10 DEF EditOpEx

\* The calculation replaces amounts by shares of whole amounts.
LEMMA SharesKept ==
  ASSUME ExpenseTable(lines, monthly), BookedRows(booked), ComputeOpEx(MonthlyRevenue)
  PROVE  ExpenseTable(lines, monthly)'
<1> DEFINE rev == MonthlyRevenue
<1>1. lines' = lines /\ monthly' = [l \in DOMAIN lines |->
        IF l \in FromRevenue THEN [m \in Months |-> Resolved(l, m, rev)] ELSE monthly[l]]
  BY DEF ComputeOpEx
<1>2. \A m \in Months : rev[m] \in Int
  BY MonthlyTyped
<1> HIDE DEF rev
<1>3. ASSUME NEW l \in FromRevenue, NEW m \in Months
      PROVE  Resolved(l, m, rev) \in Int
  <2>1. l \in DOMAIN lines /\ lines[l].mode = "PERCENT_OF_REVENUE" /\ lines[l].rate # Unset
    BY DEF FromRevenue
  <2>2. lines[l].rate \in Int
    BY <2>1 DEF ExpenseTable, ExpenseLine, Cell
  <2> DEFINE x == rev[m] * ValueOr(lines[l].rate, 0)
  <2>3. x \in Int /\ One \in Nat \ {0}
    BY <1>2, <2>2, AmountsAssumption DEF ValueOr
  <2>4. Resolved(l, m, rev) = HalfUp(x, One)
    BY <2>1 DEF Resolved
  <2> HIDE DEF x
  <2>5. HalfUp(x, One) \in Int
    BY <2>3, HalfUpWhole
  <2> QED BY <2>4, <2>5
<1>4. monthly' \in [DOMAIN lines -> [Months -> Cell]]
  <2>1. \A l \in FromRevenue : [m \in Months |-> Resolved(l, m, rev)] \in [Months -> Cell]
    BY <1>3 DEF Cell
  <2> QED BY <1>1, <2>1 DEF ExpenseTable
<1> QED BY <1>1, <1>4 DEF ExpenseTable

\* Which figures are those of the tables, by the marks.
Marks ==
  /\ "ENROLLMENT" \in stale => "REVENUE" \in stale
  /\ "REVENUE" \in stale => "PNL" \in stale
RevenueShown == "REVENUE" \notin stale => booked = Revenue /\ Derivable
StaffShown == "STAFFING" \notin stale => PayrollRows(payroll)
AccountShown == Clean({"STAFFING", "PNL"}) => pnl = Pnl
StaffCurrent == Clean({"REVENUE", "STAFFING"}) => payroll = StaffCost
SharesAreCurrent ==
  "OPEX" \notin stale =>
    \A l \in FromRevenue, m \in Months : monthly[l][m] = Resolved(l, m, MonthlyRevenue)

\* What always holds of the figures of a budget.
BudgetInv ==
  FiguresInv /\ BudgetTypes /\ Marks /\ RevenueShown /\ StaffShown /\ AccountShown

\* Types of prices and of staff.
PriceTypes == FeeGrid(fees) /\ ItemList(items) /\ NamesDiffer(items) /\ Setting(settings)
StaffTypes ==
  /\ IsFiniteSet(staff) /\ \A e \in staff : Employee(e)
  /\ CostList(categories) /\ Term(terms) /\ GroupList(groups) /\ ProfileList(profiles)

\* Types of the tables, by who changes them.
LEMMA TypesSplit ==
  BudgetTypes <=> PriceTypes /\ StaffTypes /\ ExpenseTable(lines, monthly)
  BY Zenon DEF BudgetTypes, PriceTypes, StaffTypes

\* Forms of prices send what the tables may hold.
LEMMA PricesKept ==
  ASSUME PriceTypes, PutFees \/ PutItems \/ EditSettings
  PROVE  PriceTypes'
<1>1. CASE PutFees
  <2>1. PICK f \in FeeForms :
          fees' = [c \in DOMAIN fees \cup DOMAIN f |-> IF c \in DOMAIN f THEN f[c] ELSE fees[c]]
    BY <1>1 DEF PutFees
  <2>2. FeeGrid(f) /\ FeeGrid(fees)
    BY FormsAssumption DEF PriceTypes
  <2>3. FeeGrid(fees')
    BY <2>1, <2>2 DEF FeeGrid
  <2>4. items' = items /\ settings' = settings
    BY <1>1 DEF PutFees
  <2> QED BY <2>3, <2>4 DEF PriceTypes
<1>2. CASE PutItems
  <2>1. PICK f \in ItemForms :
          NamesDiffer(f) /\ items' = {i \in items : \A j \in f : i.name # j.name} \cup f
    BY <1>2 DEF PutItems
  <2> DEFINE kept == {i \in items : \A j \in f : i.name # j.name}
  <2>2. ItemList(f) /\ ItemList(items) /\ NamesDiffer(items)
    BY FormsAssumption DEF PriceTypes
  <2>3. IsFiniteSet(kept \cup f)
    <3>1. IsFiniteSet(kept) /\ IsFiniteSet(f)
      BY <2>2, FS_Subset DEF ItemList
    <3> HIDE DEF kept
    <3> QED BY <3>1, FS_Union
  <2>4. ItemList(items')
    BY <2>1, <2>2, <2>3 DEF ItemList
  <2>5. NamesDiffer(items')
    BY <2>1, <2>2 DEF NamesDiffer
  <2>6. fees' = fees /\ settings' = settings
    BY <1>2 DEF PutItems
  <2> QED BY <2>4, <2>5, <2>6 DEF PriceTypes
<1>3. CASE EditSettings
  <2>1. Setting(settings') /\ fees' = fees /\ items' = items
    BY <1>3, FormsAssumption DEF EditSettings
  <2> QED BY <2>1 DEF PriceTypes
<1> QED BY <1>1, <1>2, <1>3

\* So do forms of staff.
LEMMA StaffKept ==
  ASSUME StaffTypes,
         \/ CreateEmployee \/ UpdateEmployee \/ DeleteEmployee
         \/ PutCategories \/ PutTerms \/ PutGroups \/ PutProfiles
  PROVE  StaffTypes'
<1>1. IsFiniteSet(staff) /\ \A e \in staff : Employee(e)
  BY DEF StaffTypes
<1>2. CASE CreateEmployee
  <2>1. PICK p \in People : staff' = staff \cup {p}
    BY <1>2 DEF CreateEmployee
  <2>2. IsFiniteSet(staff') /\ \A e \in staff' : Employee(e)
    BY <1>1, <2>1, FormsAssumption, FS_AddElement
  <2>3. UNCHANGED <<categories, terms, groups, profiles>>
    BY <1>2 DEF CreateEmployee
  <2> QED BY <2>2, <2>3 DEF StaffTypes
<1>3. CASE UpdateEmployee
  <2>1. PICK e \in staff, p \in People : staff' = (staff \ {e}) \cup {p}
    BY <1>3 DEF UpdateEmployee
  <2>2. IsFiniteSet(staff \ {e})
    BY <1>1, FS_Subset
  <2>3. IsFiniteSet(staff') /\ \A x \in staff' : Employee(x)
    BY <1>1, <2>1, <2>2, FormsAssumption, FS_AddElement
  <2>4. UNCHANGED <<categories, terms, groups, profiles>>
    BY <1>3 DEF UpdateEmployee
  <2> QED BY <2>3, <2>4 DEF StaffTypes
<1>4. CASE DeleteEmployee
  <2>1. PICK e \in staff : staff' = staff \ {e}
    BY <1>4 DEF DeleteEmployee
  <2>2. IsFiniteSet(staff') /\ \A x \in staff' : Employee(x)
    BY <1>1, <2>1, FS_Subset
  <2>3. UNCHANGED <<categories, terms, groups, profiles>>
    BY <1>4 DEF DeleteEmployee
  <2> QED BY <2>2, <2>3 DEF StaffTypes
<1>5. CASE PutCategories
  <2>1. CostList(categories') /\ UNCHANGED <<staff, terms, groups, profiles>>
    BY <1>5, FormsAssumption DEF PutCategories, SettingSent
  <2> QED BY <2>1 DEF StaffTypes
<1>6. CASE PutTerms
  <2>1. Term(terms') /\ UNCHANGED <<staff, categories, groups, profiles>>
    BY <1>6, FormsAssumption DEF PutTerms, SettingSent
  <2> QED BY <2>1 DEF StaffTypes
<1>7. CASE PutGroups
  <2>1. GroupList(groups') /\ UNCHANGED <<staff, categories, terms, profiles>>
    BY <1>7, FormsAssumption DEF PutGroups, SettingSent
  <2> QED BY <2>1 DEF StaffTypes
<1>8. CASE PutProfiles
  <2>1. ProfileList(profiles') /\ UNCHANGED <<staff, categories, terms, groups>>
    BY <1>8, FormsAssumption DEF PutProfiles, SettingSent
  <2> QED BY <2>1 DEF StaffTypes
<1> QED BY <1>2, <1>3, <1>4, <1>5, <1>6, <1>7, <1>8

\* What is left alone keeps its types.
LEMMA TypesUntouched ==
  /\ PriceTypes /\ UNCHANGED pricing => PriceTypes'
  /\ StaffTypes /\ UNCHANGED staffing => StaffTypes'
  /\ ExpenseTable(lines, monthly) /\ UNCHANGED opex => ExpenseTable(lines, monthly)'
<1>1. PriceTypes /\ UNCHANGED pricing => PriceTypes'
  BY DEF PriceTypes, pricing
<1>2. StaffTypes /\ UNCHANGED staffing => StaffTypes'
  BY DEF StaffTypes, staffing
<1>3. ExpenseTable(lines, monthly) /\ UNCHANGED opex => ExpenseTable(lines, monthly)'
  BY DEF opex
<1> QED BY <1>1, <1>2, <1>3

\* A step within prices, staff or expenses.
StaffForm ==
  \/ CreateEmployee \/ UpdateEmployee \/ DeleteEmployee
  \/ PutCategories \/ PutTerms \/ PutGroups \/ PutProfiles
PriceForm == PutFees \/ PutItems \/ EditSettings

\* What a form leaves alone, and the marks it leaves.
LEMMA FormsFrame ==
  /\ EditPupils => /\ UNCHANGED <<pricing, staffing, opex, statements>>
                   /\ \/ stale' = stale \cup EnrollmentMarks
                      \/ stale' = stale \cup DetailMarks
  /\ PriceForm => /\ UNCHANGED <<enrollment, staffing, opex, statements>>
                  /\ \/ stale' = stale \cup PricesMarks
                     \/ stale' = stale \cup {"REVENUE", "PNL"}
  /\ StaffForm => /\ UNCHANGED <<enrollment, pricing, opex, booked, pnl>>
                  /\ stale' = stale \cup {"STAFFING"}
<1>1. EditPupils => /\ UNCHANGED <<pricing, staffing, opex, statements>>
                    /\ \/ stale' = stale \cup EnrollmentMarks
                       \/ stale' = stale \cup DetailMarks
  <2> SUFFICES ASSUME EditPupils
               PROVE  stale' = stale \cup EnrollmentMarks \/ stale' = stale \cup DetailMarks
    BY DEF EditPupils
  <2>1. PutHeadcount => stale' = stale \cup EnrollmentMarks
    BY DEF PutHeadcount, Sent
  <2>2. PutCohort => stale' = stale \cup EnrollmentMarks
    BY DEF PutCohort, Sent
  <2>3. PutRules => stale' = stale \cup EnrollmentMarks
    BY DEF PutRules, Sent
  <2>4. PutSettings => stale' = stale \cup EnrollmentMarks
    BY DEF PutSettings, Sent
  <2>5. PutNationalities => stale' = stale \cup EnrollmentMarks
    BY DEF PutNationalities, Sent
  <2>6. ResetNationalities => stale' = stale \cup EnrollmentMarks
    BY DEF ResetNationalities, Sent
  <2>7. PutDetail => stale' = stale \cup DetailMarks
    BY DEF PutDetail, Sent
  <2> QED BY <2>1, <2>2, <2>3, <2>4, <2>5, <2>6, <2>7 DEF EditPupils, EditEnrollment
<1>2. PriceForm => /\ UNCHANGED <<enrollment, staffing, opex, statements>>
                  /\ \/ stale' = stale \cup PricesMarks
                     \/ stale' = stale \cup {"REVENUE", "PNL"}
  BY DEF PriceForm, PutFees, PutItems, EditSettings, Sent
<1>3. StaffForm => /\ UNCHANGED <<enrollment, pricing, opex, booked, pnl>>
                  /\ stale' = stale \cup {"STAFFING"}
  BY DEF StaffForm, CreateEmployee, UpdateEmployee, DeleteEmployee, PutCategories, PutTerms,
         PutGroups, PutProfiles, SettingSent, StaffSent, Sent
<1> QED BY <1>1, <1>2, <1>3

\* What a mark promises while what it is about stays as it is.
LEMMA RevenueStays ==
  ASSUME RevenueShown, UNCHANGED sources, booked' = booked,
         "REVENUE" \in stale => "REVENUE" \in stale'
  PROVE  RevenueShown'
  BY SameRevenue DEF RevenueShown

\* The same for the account,
LEMMA AccountStays ==
  ASSUME AccountShown, UNCHANGED <<booked, payroll, pnl, monthly>>,
         (DOMAIN lines)' = DOMAIN lines,
         "STAFFING" \in stale => "STAFFING" \in stale', "PNL" \in stale => "PNL" \in stale'
  PROVE  AccountShown'
<1>1. Pnl' = Pnl
  BY SameAccount
<1>2. Clean({"STAFFING", "PNL"})' => Clean({"STAFFING", "PNL"})
  BY DEF Clean
<1> QED BY <1>1, <1>2 DEF AccountShown

\* and for what staff costs.
LEMMA StaffStays ==
  ASSUME StaffShown, payroll' = payroll, "STAFFING" \in stale => "STAFFING" \in stale'
  PROVE  StaffShown'
  BY DEF StaffShown

\* Where there is a mark nothing is promised.
LEMMA MarkedShown ==
  /\ "REVENUE" \in stale' => RevenueShown'
  /\ "STAFFING" \in stale' => StaffShown' /\ AccountShown'
  /\ "PNL" \in stale' => AccountShown'
<1>1. "REVENUE" \in stale' => RevenueShown'
  BY DEF RevenueShown
<1>2. "STAFFING" \in stale' => StaffShown'
  BY DEF StaffShown
<1>3. "STAFFING" \in stale' \/ "PNL" \in stale' => AccountShown'
  BY DEF AccountShown, Clean
<1> QED BY <1>1, <1>2, <1>3

\* Every step keeps what holds of the figures.
LEMMA BudgetSteps ==
  ASSUME BudgetInv, [Next]_budget
  PROVE  BudgetInv'
<1>0. /\ EnrollmentTypes /\ PriceTypes /\ StaffTypes /\ ExpenseTable(lines, monthly)
      /\ BudgetTypes /\ Marks /\ RevenueShown /\ StaffShown /\ AccountShown
  BY TypesSplit DEF BudgetInv, FiguresInv
<1>1. FiguresInv'
  BY StepsKeepFigures DEF BudgetInv
<1> SUFFICES /\ PriceTypes' /\ StaffTypes' /\ ExpenseTable(lines, monthly)'
             /\ Marks' /\ RevenueShown' /\ StaffShown' /\ AccountShown'
  <2>1. BudgetTypes' <=> PriceTypes' /\ StaffTypes' /\ ExpenseTable(lines, monthly)'
    BY Zenon DEF BudgetTypes, PriceTypes, StaffTypes
  <2> QED BY <1>1, <2>1 DEF BudgetInv
<1>2. CASE EditPupils
  <2>1. /\ UNCHANGED pricing /\ UNCHANGED staffing /\ UNCHANGED opex
        /\ "REVENUE" \in stale' /\ "STAFFING" \in stale' /\ "PNL" \in stale'
    BY <1>2, FormsFrame DEF EnrollmentMarks, DetailMarks
  <2>2. Marks'
    BY <2>1 DEF Marks
  <2> QED BY <1>0, <2>1, <2>2, TypesUntouched, MarkedShown
<1>3. CASE PriceForm
  <2>1. /\ UNCHANGED staffing /\ UNCHANGED opex /\ payroll' = payroll
        /\ "REVENUE" \in stale' /\ "PNL" \in stale'
        /\ "STAFFING" \in stale => "STAFFING" \in stale'
    BY <1>3, FormsFrame DEF PricesMarks, statements
  <2>2. Marks'
    BY <2>1 DEF Marks
  <2>3. PriceTypes'
    BY <1>0, <1>3, PricesKept DEF PriceForm
  <2> QED BY <1>0, <2>1, <2>2, <2>3, TypesUntouched, MarkedShown, StaffStays
<1>4. CASE StaffForm
  <2>1. /\ UNCHANGED <<enrollment, pricing, opex, booked>> /\ stale' = stale \cup {"STAFFING"}
    BY <1>4, FormsFrame
  <2>2. UNCHANGED sources
    BY <2>1 DEF sources, enrollment, pricing
  <2>3. Marks'
    BY <1>0, <2>1 DEF Marks
  <2>4. StaffTypes'
    BY <1>0, <1>4, StaffKept DEF StaffForm
  <2>5. RevenueShown'
    BY <1>0, <2>1, <2>2, RevenueStays
  <2> QED BY <1>0, <2>1, <2>3, <2>4, <2>5, TypesUntouched, MarkedShown
<1>5. CASE EditExpenses
  <2>1. /\ UNCHANGED <<enrollment, pricing, staffing, statements>>
        /\ stale' = stale \cup {"OPEX", "PNL"} /\ EditOpEx
    BY <1>5 DEF EditExpenses, Sent
  <2>2. UNCHANGED sources /\ booked' = booked /\ payroll' = payroll
    BY <2>1 DEF sources, enrollment, pricing, statements
  <2>3. /\ Marks' /\ "PNL" \in stale'
        /\ "STAFFING" \in stale => "STAFFING" \in stale'
    BY <1>0, <2>1 DEF Marks
  <2>4. ExpenseTable(lines, monthly)'
    BY <1>0, <2>1, ExpensesKept
  <2>5. RevenueShown'
    BY <1>0, <2>1, <2>2, RevenueStays
  <2> QED BY <1>0, <2>1, <2>2, <2>3, <2>4, <2>5, TypesUntouched, MarkedShown, StaffStays
<1>6. CASE EditExpensesUnmarked
  <2>1. /\ UNCHANGED <<enrollment, pricing, staffing, statements>> /\ stale' = stale
        /\ PatchUnmarked
    BY <1>6 DEF EditExpensesUnmarked, Sent
  <2>2. UNCHANGED sources /\ booked' = booked /\ payroll' = payroll /\ pnl' = pnl
    BY <2>1 DEF sources, enrollment, pricing, statements
  <2>3. Marks'
    BY <1>0, <2>1 DEF Marks
  <2>4. ExpenseTable(lines, monthly)'
    BY <1>0, <2>1, ExpensesKept
  <2>5. RevenueShown'
    BY <1>0, <2>1, <2>2, RevenueStays
  <2>6. monthly' = monthly /\ (DOMAIN lines)' = DOMAIN lines
    <3>1. \/ \E l \in DOMAIN lines, rate \in OpExRates : lines' = [lines EXCEPT ![l].rate = rate]
          \/ \E l \in DOMAIN lines, set \in SUBSET FormMonths :
               lines' = [lines EXCEPT ![l].custom = set]
      BY <2>1 DEF PatchUnmarked
    <3>2. DOMAIN (lines') = DOMAIN lines
      BY <3>1
    <3> QED BY <2>1, <3>2 DEF PatchUnmarked
  <2>7. AccountShown'
    BY <1>0, <2>1, <2>2, <2>6, AccountStays
  <2> QED BY <1>0, <2>1, <2>2, <2>3, <2>4, <2>5, <2>7, TypesUntouched, StaffStays
<1>7. CASE Pupils
  <2>1. /\ UNCHANGED <<pricing, staffing, opex, statements>> /\ stale' = stale \ {"ENROLLMENT"}
        /\ CalculateEnrollment
    BY <1>7 DEF Pupils, CalculateEnrollment
  <2>2. Marks'
    BY <1>0, <2>1 DEF Marks
  <2>3. RevenueShown'
    <3>1. CASE "REVENUE" \in stale
      BY <2>1, <3>1, MarkedShown
    <3>2. CASE "REVENUE" \notin stale
      <4>1. "ENROLLMENT" \notin stale
        BY <1>0, <3>2 DEF Marks
      <4>2. heads = Computed.heads /\ cohort = Computed.cohort
        BY <4>1 DEF BudgetInv, FiguresInv, EnrollmentIsStable
      <4>3. heads' = heads /\ cohort' = cohort /\ detail' = detail
        BY <2>1, <4>2 DEF CalculateEnrollment
      <4>4. UNCHANGED sources /\ booked' = booked
        BY <2>1, <4>3 DEF sources, pricing, statements
      <4> QED BY <1>0, <2>1, <4>4, RevenueStays
    <3> QED BY <3>1, <3>2
  <2>4. UNCHANGED <<booked, payroll, pnl, monthly>> /\ (DOMAIN lines)' = DOMAIN lines
    BY <2>1 DEF statements, opex
  <2>5. AccountShown' /\ StaffShown'
    BY <1>0, <2>1, <2>4, AccountStays, StaffStays
  <2> QED BY <1>0, <2>1, <2>2, <2>3, <2>5, TypesUntouched
<1>8. CASE CalculateRevenue
  <2>1. /\ UNCHANGED <<enrollment, pricing, staffing, opex>> /\ booked' = Revenue /\ Derivable
        /\ stale' = (stale \ {"REVENUE"}) \cup {"STAFFING", "OPEX", "PNL"} /\ Clean({"ENROLLMENT"})
    BY <1>8 DEF CalculateRevenue
  <2>2. Marks'
    BY <2>1 DEF Marks, Clean
  <2>3. UNCHANGED sources
    BY <2>1 DEF sources, enrollment, pricing
  <2>4. RevenueShown'
    BY <2>1, <2>3, SameRevenue DEF RevenueShown
  <2> QED BY <1>0, <2>1, <2>2, <2>4, TypesUntouched, MarkedShown
<1>9. CASE CalculateStaffing
  <2>1. /\ UNCHANGED <<enrollment, pricing, staffing, opex, booked>> /\ payroll' = StaffCost
        /\ stale' = (stale \ {"STAFFING"}) \cup {"PNL"}
    BY <1>9 DEF CalculateStaffing
  <2>2. Marks'
    BY <1>0, <2>1 DEF Marks
  <2>3. UNCHANGED sources
    BY <2>1 DEF sources, enrollment, pricing
  <2>4. RevenueShown'
    BY <1>0, <2>1, <2>3, RevenueStays
  <2>5. StaffShown'
    BY <1>0, <2>1, StaffTyped DEF StaffShown
  <2> QED BY <1>0, <2>1, <2>2, <2>4, <2>5, TypesUntouched, MarkedShown
<1>10. CASE CalculateOpEx
  <2>1. /\ UNCHANGED <<enrollment, pricing, staffing, statements>>
        /\ stale' = (stale \ {"OPEX"}) \cup {"PNL"} /\ ComputeOpEx(MonthlyRevenue)
        /\ Clean({"REVENUE"})
    BY <1>10 DEF CalculateOpEx
  <2>2. UNCHANGED sources /\ booked' = booked /\ payroll' = payroll
    BY <2>1 DEF sources, enrollment, pricing, statements
  <2>3. /\ Marks' /\ "PNL" \in stale'
        /\ "STAFFING" \in stale => "STAFFING" \in stale'
    BY <1>0, <2>1 DEF Marks
  <2>4. BookedRows(booked)
    <3>1. booked = Revenue /\ Derivable
      BY <1>0, <2>1 DEF Clean, RevenueShown
    <3>2. BookedRows(Revenue)
      BY <1>0, <3>1, RevenueTyped
    <3> QED BY <3>1, <3>2
  <2>5. ExpenseTable(lines, monthly)'
    BY <1>0, <2>1, <2>4, SharesKept
  <2>6. RevenueShown'
    BY <1>0, <2>1, <2>2, RevenueStays
  <2> QED BY <1>0, <2>1, <2>2, <2>3, <2>5, <2>6, TypesUntouched, MarkedShown, StaffStays
<1>11. CASE CalculatePnl
  <2>1. /\ UNCHANGED <<enrollment, pricing, staffing, opex, booked, payroll>>
        /\ stale' = stale \ {"PNL"} /\ pnl' = Pnl /\ Clean({"REVENUE", "STAFFING", "OPEX"})
    BY <1>11 DEF CalculatePnl
  <2>2. Marks'
    BY <1>0, <2>1 DEF Marks, Clean
  <2>3. UNCHANGED sources
    BY <2>1 DEF sources, enrollment, pricing
  <2>4. RevenueShown'
    BY <1>0, <2>1, <2>3, RevenueStays
  <2>5. UNCHANGED <<booked, payroll, monthly>> /\ (DOMAIN lines)' = DOMAIN lines
    BY <2>1 DEF opex
  <2>6. AccountShown'
    BY <2>1, <2>5, SameAccount DEF AccountShown
  <2>7. StaffShown'
    BY <1>0, <2>1, StaffStays
  <2> QED BY <1>0, <2>1, <2>2, <2>4, <2>6, <2>7, TypesUntouched
<1>12. CASE UNCHANGED budget
  <2>1. /\ UNCHANGED pricing /\ UNCHANGED staffing /\ UNCHANGED opex /\ stale' = stale
        /\ UNCHANGED <<booked, payroll, pnl>>
    BY <1>12 DEF budget, enrollmentVars, statements
  <2>2. UNCHANGED sources /\ monthly' = monthly /\ (DOMAIN lines)' = DOMAIN lines
    BY <1>12, <2>1 DEF budget, enrollmentVars, enrollment, sources, pricing, opex
  <2>3. Marks'
    BY <1>0, <2>1 DEF Marks
  <2>4. RevenueShown' /\ StaffShown' /\ AccountShown'
    BY <1>0, <2>1, <2>2, RevenueStays, StaffStays, AccountStays
  <2> QED BY <1>0, <2>1, <2>3, <2>4, TypesUntouched
<1> QED
  BY <1>2, <1>3, <1>4, <1>5, <1>6, <1>7, <1>8, <1>9, <1>10, <1>11, <1>12
     DEF Next, PriceForm, StaffForm

\* It holds at the start.
LEMMA BudgetInitially ==
  ASSUME Init
  PROVE  BudgetInv
<1>1. FiguresInv
  BY FiguresInitially
<1>2. BudgetTypes
  <2>1. PICK s \in Starts :
          /\ fees = s.fees /\ items = s.items /\ settings = s.settings
          /\ staff = s.staff /\ categories = s.categories
          /\ terms = s.terms /\ groups = s.groups /\ profiles = s.profiles
          /\ lines = s.lines /\ monthly = s.monthly
    BY DEF Init
  <2> QED BY <2>1, FormsAssumption DEF BudgetTypes
<1>3. stale = Modules
  BY DEF Init
<1> QED
  BY <1>1, <1>2, <1>3
     DEF BudgetInv, Modules, Marks, RevenueShown, StaffShown, AccountShown, Clean

\* So it always holds.
LEMMA BudgetHolds == Spec => []BudgetInv
<1>1. Init => BudgetInv
  BY BudgetInitially
<1>2. BudgetInv /\ [Next]_budget => BudgetInv'
  BY BudgetSteps
<1> QED BY <1>1, <1>2, PTL DEF Spec

\* What staff costs stays that of the tables: whatever changes the pupils
\* leaves the mark of revenue or finds it, and revenue, before it takes its
\* own mark away, leaves that of staffing.
LEMMA StaffCurrentKept ==
  ASSUME BudgetInv, StaffCurrent, [Next]_budget
  PROVE  StaffCurrent'
<1>0. Marks
  BY DEF BudgetInv
<1>1. ASSUME "REVENUE" \in stale' \/ "STAFFING" \in stale'  PROVE StaffCurrent'
  BY <1>1 DEF StaffCurrent, Clean
<1>2. ASSUME UNCHANGED <<heads, room, staffing>>, payroll' = payroll,
             "REVENUE" \in stale => "REVENUE" \in stale',
             "STAFFING" \in stale => "STAFFING" \in stale'
      PROVE  StaffCurrent'
  BY <1>2, SameStaff DEF StaffCurrent, Clean
<1>3. CASE EditPupils
  BY <1>1, <1>3, FormsFrame DEF EnrollmentMarks, DetailMarks
<1>4. CASE PriceForm
  BY <1>1, <1>4, FormsFrame DEF PricesMarks
<1>5. CASE StaffForm
  BY <1>1, <1>5, FormsFrame
<1>6. CASE EditExpenses \/ EditExpensesUnmarked
  <2>1. /\ UNCHANGED <<enrollment, staffing, statements>>
        /\ stale \subseteq stale'
    BY <1>6 DEF EditExpenses, EditExpensesUnmarked, Sent
  <2> QED BY <1>2, <2>1 DEF enrollment, statements
<1>7. CASE Pupils
  <2>1. /\ UNCHANGED <<staffing, statements, room>> /\ stale' = stale \ {"ENROLLMENT"}
        /\ heads' = Computed.heads
    BY <1>7 DEF Pupils, CalculateEnrollment
  <2>2. CASE "REVENUE" \in stale
    BY <1>1, <2>1, <2>2
  <2>3. CASE "REVENUE" \notin stale
    <3>1. heads = Computed.heads
      BY <1>0, <2>3 DEF Marks, BudgetInv, FiguresInv, EnrollmentIsStable
    <3> QED BY <1>2, <2>1, <3>1 DEF statements
  <2> QED BY <2>2, <2>3
<1>8. CASE CalculateRevenue
  BY <1>1, <1>8 DEF CalculateRevenue
<1>9. CASE CalculateStaffing
  <2>1. payroll' = StaffCost /\ UNCHANGED <<heads, room, staffing>>
    BY <1>9 DEF CalculateStaffing, enrollment
  <2> QED BY <2>1, SameStaff DEF StaffCurrent
<1>10. CASE CalculateOpEx \/ CalculatePnl
  <2>1. UNCHANGED <<enrollment, staffing, payroll>>
    BY <1>10 DEF CalculateOpEx, CalculatePnl, statements
  <2>2. /\ "REVENUE" \in stale => "REVENUE" \in stale'
        /\ "STAFFING" \in stale => "STAFFING" \in stale'
    BY <1>10 DEF CalculateOpEx, CalculatePnl
  <2> QED BY <1>2, <2>1, <2>2 DEF enrollment
<1>11. CASE UNCHANGED budget
  <2>1. UNCHANGED <<enrollment, staffing, statements, stale>>
    BY <1>11 DEF budget, enrollmentVars
  <2> QED BY <1>2, <2>1 DEF enrollment, statements
<1> QED
  BY <1>3, <1>4, <1>5, <1>6, <1>7, <1>8, <1>9, <1>10, <1>11 DEF Next, PriceForm, StaffForm

\* The shares of revenue among the expenses stay those of the revenue booked,
\* unless a rate is changed by the form that leaves no mark.
LEMMA SharesCurrentKept ==
  ASSUME BudgetInv, SharesAreCurrent, [Next]_budget, [~EditExpensesUnmarked]_budget
  PROVE  SharesAreCurrent'
<1> DEFINE Share(l, m) == HalfUp(MonthlyRevenue[m] * ValueOr(lines[l].rate, 0), One)
<1>1. ASSUME "OPEX" \in stale'  PROVE SharesAreCurrent'
  BY <1>1 DEF SharesAreCurrent
<1>2. /\ \A l \in FromRevenue, m \in Months : Resolved(l, m, MonthlyRevenue) = Share(l, m)
      /\ \A l \in FromRevenue', m \in Months : Resolved(l, m, MonthlyRevenue)' = Share(l, m)'
  BY DEF Resolved, FromRevenue
<1>3. ASSUME UNCHANGED <<booked, lines>>
      PROVE  FromRevenue' = FromRevenue /\ \A l, m : Share(l, m)' = Share(l, m)
  <2>1. TuitionCells' = TuitionCells
    BY <1>3 DEF TuitionCells
  <2>2. \A cells, m : NetTuition(cells, m)' = NetTuition(cells, m)
    BY <1>3 DEF NetTuition, NetIn
  <2>3. MonthlyRevenue' = MonthlyRevenue
    BY <1>3, <2>1, <2>2 DEF MonthlyRevenue
  <2> QED BY <1>3, <2>3 DEF FromRevenue
<1> HIDE DEF Share
<1>4. ASSUME UNCHANGED <<booked, lines, monthly>>, "OPEX" \in stale => "OPEX" \in stale'
      PROVE  SharesAreCurrent'
  BY <1>2, <1>3, <1>4 DEF SharesAreCurrent
<1>5. CASE EditPupils \/ PriceForm \/ StaffForm
  <2>1. UNCHANGED <<opex, booked>> /\ stale \subseteq stale'
    BY <1>5, FormsFrame DEF statements
  <2> QED BY <1>4, <2>1 DEF opex
<1>6. CASE EditExpenses
  BY <1>1, <1>6 DEF EditExpenses, Sent
<1>7. CASE Pupils
  <2>1. UNCHANGED <<opex, statements>> /\ stale' = stale \ {"ENROLLMENT"}
    BY <1>7 DEF Pupils, CalculateEnrollment
  <2> QED BY <1>4, <2>1 DEF opex, statements
<1>8. CASE CalculateRevenue
  BY <1>1, <1>8 DEF CalculateRevenue
<1>9. CASE CalculateStaffing
  BY <1>4, <1>9 DEF CalculateStaffing, opex
<1>10. CASE CalculateOpEx
  <2>1. UNCHANGED <<booked, lines>>
    BY <1>10 DEF CalculateOpEx, ComputeOpEx, statements
  <2>2. \A l \in FromRevenue, m \in Months : monthly'[l][m] = Resolved(l, m, MonthlyRevenue)
    <3>1. monthly' = [l \in DOMAIN lines |->
            IF l \in FromRevenue THEN [m \in Months |-> Resolved(l, m, MonthlyRevenue)]
            ELSE monthly[l]]
      BY <1>10 DEF CalculateOpEx, ComputeOpEx
    <3> QED BY <3>1 DEF FromRevenue
  <2> QED BY <1>2, <1>3, <2>1, <2>2 DEF SharesAreCurrent
<1>11. CASE CalculatePnl
  BY <1>4, <1>11 DEF CalculatePnl, opex
<1>12. CASE UNCHANGED budget
  BY <1>4, <1>12 DEF budget, enrollmentVars, opex, statements
<1> QED
  BY <1>5, <1>6, <1>7, <1>8, <1>9, <1>10, <1>11, <1>12 DEF Next, PriceForm, StaffForm

-----------------------------------------------------------------------------
(* Lines of the account.                                                   *)

\* A finite set of rows with whole amounts.
Rows(R) == IsFiniteSet(R) /\ \A r \in R : r.amount \in Int

LEMMA AmountUnion ==
  ASSUME NEW R, NEW T, Rows(R), Rows(T), R \cap T = {}
  PROVE  Rows(R \cup T) /\ AmountOf(R \cup T) = AmountOf(R) + AmountOf(T)
<1> DEFINE S == R \cup T
           f == [r \in S |-> r.amount]
<1>1. IsFiniteSet(S) /\ (\A r \in S : r.amount \in Int) /\ R \subseteq S /\ T \subseteq S
  BY FS_Union DEF Rows
<1>2. \A r \in S : f[r] \in Int
  BY <1>1
<1>3. AmountOf(R) = SumOver(f, R) /\ AmountOf(T) = SumOver(f, T) /\ AmountOf(S) = SumOver(f, S)
  <2> HIDE DEF S
  <2>1. AmountOf(R) = SumOver(f, R)
    BY <1>1, AmountsAgree
  <2>2. AmountOf(T) = SumOver(f, T)
    BY <1>1, AmountsAgree
  <2>3. AmountOf(S) = SumOver(f, S)
    BY <1>1, AmountsAgree
  <2> QED BY <2>1, <2>2, <2>3, Zenon
<1> HIDE DEF f
<1>4. SumOver(f, R \cup T) = SumOver(f, R) + SumOver(f, T)
  BY <1>2, SumUnion DEF Rows
<1> QED BY <1>1, <1>3, <1>4 DEF Rows

\* Lines of a section and category, one for every key in K, with names and
\* amounts of their own.
IsLines(R, section, category, name, f, K) ==
  /\ IsFiniteSet(K) /\ \A k \in K : f[k] \in Int
  /\ \A k, l \in K : name[k] = name[l] => k = l
  /\ \A k \in K : Line(section, category, name[k], f[k]) \in R
  /\ \A r \in R : \E k \in K : r = Line(section, category, name[k], f[k])

LEMMA LinesAddUp ==
  ASSUME NEW R, NEW section, NEW category, NEW name, NEW f, NEW K,
         IsLines(R, section, category, name, f, K)
  PROVE  /\ Rows(R) /\ AmountOf(R) = SumOver(f, K)
         /\ \A r \in R : r.section = section /\ r.category = category
<1> DEFINE row == [k \in K |-> Line(section, category, name[k], f[k])]
           g == [r \in R |-> r.amount]
<1>0. /\ IsFiniteSet(K) /\ \A k \in K : f[k] \in Int
      /\ \A k, l \in K : name[k] = name[l] => k = l
  BY DEF IsLines
<1>1. \A k \in K : /\ row[k] \in R /\ row[k].amount = f[k] /\ row[k].name = name[k]
                   /\ row[k].section = section /\ row[k].category = category
  BY DEF Line, IsLines
<1>2. \A r \in R : \E k \in K : row[k] = r
  BY DEF IsLines
<1> HIDE DEF row
<1>3. \A r \in R : r.amount \in Int /\ r.section = section /\ r.category = category
  BY <1>0, <1>1, <1>2
<1>4. \A k \in K : f[k] \in Int /\ row[k] \in R /\ g[row[k]] = f[k]
  BY <1>0, <1>1
<1>5. \A k, l \in K : row[k] = row[l] => k = l
  BY <1>0, <1>1
<1> HIDE DEF g
<1>6. SumOver(f, K) = SumOver(g, R)
  BY <1>0, <1>2, <1>4, <1>5, SumRenamed
<1>7. IsFiniteSet(R)
  <2>1. IsFiniteSet({row[k] : k \in K}) /\ R = {row[k] : k \in K}
    BY <1>0, <1>1, <1>2, FiniteImage
  <2> QED BY <2>1
<1> QED BY <1>3, <1>6, <1>7 DEF Rows, AmountOf, g

\* Lines by the names of rows.
LEMMA NamedAddsUp ==
  ASSUME NEW rows, Rows(rows), NEW sec, NEW cat, NEW m
  PROVE  LET R == Named(sec, cat, rows, m) IN
         /\ Rows(R) /\ AmountOf(R) = AmountOf(InMonth(rows, m))
         /\ \A r \in R : r.section = sec /\ r.category = cat
<1> DEFINE S == InMonth(rows, m)
           key == [r \in rows |-> r.name]
           K == {key[r] : r \in rows}
           of == [n \in K |-> {r \in rows : r.month = m /\ r.name = n}]
           a == [r \in rows |-> r.amount]
           f == [n \in K |-> AmountOf(of[n])]
           R == Named(sec, cat, rows, m)
           same == [n \in K |-> n]
<1>1. IsFiniteSet(rows) /\ (\A r \in rows : r.amount \in Int) /\ S \subseteq rows
  BY DEF Rows, InMonth
<1>2. IsFiniteSet(S) /\ AmountOf(S) = SumOver(a, S)
  <2> HIDE DEF S
  <2> QED BY <1>1, AmountsAgree
<1>3. IsFiniteSet(K)
  <2> HIDE DEF key
  <2> QED BY <1>1, FiniteImage
<1>4. \A n \in K : \A r : r \in of[n] <=> r \in S /\ key[r] = n
  BY DEF InMonth
<1>5. ASSUME NEW n \in K
      PROVE  f[n] = SumOver(a, of[n]) /\ f[n] \in Int
  <2> DEFINE T == of[n]
  <2>1. T \subseteq rows
    OBVIOUS
  <2> HIDE DEF T
  <2>2. AmountOf(T) = SumOver(a, T) /\ AmountOf(T) \in Int
    BY <1>1, <2>1, AmountsAgree
  <2> QED BY <2>2 DEF T
<1>6. \A r \in S : a[r] \in Int /\ key[r] \in K
  BY <1>1
<1>7. /\ \A n \in K : Line(sec, cat, same[n], f[n]) \in R
      /\ \A r \in R : \E n \in K : r = Line(sec, cat, same[n], f[n])
      /\ \A n, o \in K : same[n] = same[o] => n = o
  <2>1. \A n \in K : Line(sec, cat, same[n], f[n]) \in R
    <3>1. \A n \in K : Line(sec, cat, n, AmountOf({r \in rows : r.month = m /\ r.name = n})) \in R
      BY DEF Named
    <3>2. \A n \in K : same[n] = n /\ f[n] = AmountOf({r \in rows : r.month = m /\ r.name = n})
      OBVIOUS
    <3> HIDE DEF f, same, R, K
    <3> QED BY <3>1, <3>2
  <2>2. \A r \in R : \E n \in K : r = Line(sec, cat, same[n], f[n])
    BY DEF Named
  <2> QED BY <2>1, <2>2
<1> HIDE DEF S, of, key, K, a, f, R, same
<1>8. SumOver(f, K) = SumOver(a, S)
  <2>1. \A n \in K : f[n] = SumOver(a, of[n])
    BY <1>5
  <2>2. \A r \in S : a[r] \in Int
    BY <1>6
  <2>3. \A r \in S : key[r] \in K
    BY <1>6
  <2> QED BY <1>2, <1>3, <1>4, <2>1, <2>2, <2>3, SumByKey
<1>9. \A n \in K : f[n] \in Int
  BY <1>5
<1>10. Rows(R) /\ AmountOf(R) = SumOver(f, K)
       /\ \A r \in R : r.section = sec /\ r.category = cat
  <2>1. IsLines(R, sec, cat, same, f, K)
    BY <1>3, <1>7, <1>9 DEF IsLines
  <2> QED BY <2>1, LinesAddUp
<1> QED BY <1>2, <1>8, <1>10, Zenon DEF R, S

\* Lines of tuition by grade.
LEMMA TuitionLinesAddUp ==
  ASSUME BookedRows(booked), NEW m \in Months
  PROVE  /\ Rows(TuitionLines(m)) /\ AmountOf(TuitionLines(m)) = NetTuition(TuitionCells, m)
         /\ NetTuition(TuitionCells, m) \in Int
         /\ \A r \in TuitionLines(m) :
              r.section = "REVENUE_CONTRACTS" /\ r.category = "TUITION_FEES"
<1> DEFINE S == TuitionCells
           a == NetIn(m)
           key == [c \in S |-> c[2]]
           K == {key[c] : c \in S}
           of == [g \in K |-> {c \in S : c[2] = g}]
           f == [g \in K |-> SumOver(a, of[g])]
           R == TuitionLines(m)
           name == [g \in K |-> <<"Tuition", g>>]
<1>1. IsFiniteSet(S) /\ \A c \in S : a[c] \in Int
  BY MonthlyTyped
<1>2. \A c \in S : a[c] \in Int /\ key[c] \in K
  BY <1>1
<1>3. \A g \in K : \A c : c \in of[g] <=> c \in S /\ key[c] = g
  OBVIOUS
<1>4. /\ \A g \in K : Line("REVENUE_CONTRACTS", "TUITION_FEES", name[g], f[g]) \in R
      /\ \A r \in R : \E g \in K : r = Line("REVENUE_CONTRACTS", "TUITION_FEES", name[g], f[g])
  BY DEF TuitionLines, NetTuition
<1>5. \A g, h \in K : name[g] = name[h] => g = h
  OBVIOUS
<1>6. \A g \in K : f[g] = SumOver(a, of[g]) /\ of[g] \subseteq S
  OBVIOUS
<1> HIDE DEF S, a, of, f, R, name
<1>7. IsFiniteSet(K)
  <2> HIDE DEF key
  <2> QED BY <1>1, FiniteImage
<1> HIDE DEF key, K
<1>8. \A g \in K : f[g] \in Int
  <2> TAKE g \in K
  <2>1. IsFiniteSet(of[g]) /\ \A c \in of[g] : a[c] \in Int
    BY <1>1, <1>2, <1>6, FS_Subset
  <2> QED BY <1>6, <2>1, SumWhole
<1>9. SumOver(f, K) = SumOver(a, S)
  <2>1. \A g \in K : f[g] = SumOver(a, of[g])
    BY <1>6
  <2> QED BY <1>1, <1>2, <1>3, <1>7, <2>1, SumByKey
<1>10. Rows(R) /\ AmountOf(R) = SumOver(f, K)
       /\ \A r \in R : r.section = "REVENUE_CONTRACTS" /\ r.category = "TUITION_FEES"
  <2>1. IsLines(R, "REVENUE_CONTRACTS", "TUITION_FEES", name, f, K)
    BY <1>4, <1>5, <1>7, <1>8 DEF IsLines
  <2> QED BY <2>1, LinesAddUp
<1>11. SumOver(a, S) \in Int
  BY <1>1, SumWhole
<1> QED BY <1>9, <1>10, <1>11 DEF R, a, S, NetTuition

\* Rows come in parts, one for every key in K.
Parted(S, key, K, part) ==
  /\ Rows(S) /\ IsFiniteSet(K) /\ \A r \in S : key[r] \in K
  /\ \A k \in K : \A r : r \in part[k] <=> r \in S /\ key[r] = k

LEMMA PartsAddUp ==
  ASSUME NEW S, NEW key, NEW K, NEW part, Parted(S, key, K, part),
         NEW g, \A k \in K : g[k] = AmountOf(part[k])
  PROVE  SumOver(g, K) = AmountOf(S)
<1> DEFINE f == [r \in S |-> r.amount]
<1>1. IsFiniteSet(S) /\ \A r \in S : r.amount \in Int
  BY DEF Parted, Rows
<1>2. /\ IsFiniteSet(K) /\ \A r \in S : key[r] \in K
      /\ \A k \in K : \A r : r \in part[k] <=> r \in S /\ key[r] = k
  BY DEF Parted
<1>3. \A k \in K : g[k] = SumOver(f, part[k])
  <2> TAKE k \in K
  <2> DEFINE T == part[k]
  <2>1. T \subseteq S
    BY <1>2
  <2> HIDE DEF T
  <2>2. AmountOf(T) = SumOver(f, T)
    BY <1>1, <2>1, AmountsAgree
  <2> QED BY <2>2 DEF T
<1>4. \A r \in S : f[r] \in Int
  BY <1>1
<1>5. AmountOf(S) = SumOver(f, S)
  BY DEF AmountOf
<1> HIDE DEF f
<1>6. SumOver(g, K) = SumOver(f, S)
  BY <1>1, <1>2, <1>3, <1>4, SumByKey
<1> QED BY <1>5, <1>6

\* The categories shown are finitely many.
LEMMA ShownFinite == IsFiniteSet(ShownCategories)
<1>1. IsFiniteSet({"REGISTRATION_FEES"})
  BY FS_Singleton
<1>2. IsFiniteSet({"REGISTRATION_FEES"} \cup {"ACTIVITIES_SERVICES"})
  BY <1>1, FS_AddElement
<1>3. IsFiniteSet(({"REGISTRATION_FEES"} \cup {"ACTIVITIES_SERVICES"}) \cup {"EXAMINATION_FEES"})
  BY <1>2, FS_AddElement
<1>4. ({"REGISTRATION_FEES"} \cup {"ACTIVITIES_SERVICES"}) \cup {"EXAMINATION_FEES"}
        = ShownCategories
  BY DEF ShownCategories
<1> QED BY <1>3, <1>4

\* What the categories shown bring in a month.
ShownIn(m) == [x \in ShownCategories |-> AmountOf(InMonth(Shown(x), m))]

\* Lines of other revenue hold the rows of the categories shown, and so does
\* the subtotal.
LEMMA OtherLinesAddUp ==
  ASSUME BookedRows(booked), NEW m \in Months
  PROVE  /\ Rows(OtherLines(m))
         /\ AmountOf(OtherLines(m)) = SumOver(ShownIn(m), ShownCategories)
         /\ \A r \in OtherLines(m) :
              r.section = "REVENUE_CONTRACTS" /\ r.category \in ShownCategories
         /\ SumOver(ShownIn(m), ShownCategories)
              = AmountOf({r \in InMonth(booked.other, m) : r.executive # None})
         /\ SumOver(ShownIn(m), ShownCategories) \in Int
         /\ AmountOf(InMonth(Rent, m)) = 0
<1> DEFINE L == [x \in ShownCategories |-> Named("REVENUE_CONTRACTS", x, Shown(x), m)]
           R == OtherLines(m)
           g == ShownIn(m)
           K == ShownCategories
           S == {r \in InMonth(booked.other, m) : r.executive # None}
           executive == [r \in S |-> r.executive]
           inMonth == [x \in K |-> InMonth(Shown(x), m)]
           category == [r \in R |-> r.category]
<1>1. /\ Rows(booked.other) /\ Rent = {}
      /\ \A r \in booked.other : r.executive \in K \cup {None}
  BY DEF BookedRows, Rows, Rent
<1>2. \A x \in K : Rows(Shown(x))
  BY <1>1, FS_Subset DEF Rows, Shown
<1>3. Rows(S)
  BY <1>1, FS_Subset DEF Rows, InMonth
<1>4. Named("RENTAL_INCOME", "RENTAL_INCOME", Rent, m) = {} /\ InMonth(Rent, m) = {}
  BY <1>1 DEF Named, InMonth
<1>5. \A l : l \in R <=> \E x \in K : l \in L[x]
  BY <1>4 DEF OtherLines
<1>6. ASSUME NEW x \in K
      PROVE  /\ Rows(L[x]) /\ AmountOf(L[x]) = g[x]
             /\ \A r \in L[x] : r.section = "REVENUE_CONTRACTS" /\ r.category = x
  <2> DEFINE T == Named("REVENUE_CONTRACTS", x, Shown(x), m)
  <2>1. /\ Rows(T) /\ AmountOf(T) = AmountOf(InMonth(Shown(x), m))
        /\ \A r \in T : r.section = "REVENUE_CONTRACTS" /\ r.category = x
    <3> HIDE DEF K
    <3> QED BY <1>2, NamedAddsUp
  <2>2. L[x] = T /\ g[x] = AmountOf(InMonth(Shown(x), m))
    BY DEF ShownIn
  <2> HIDE DEF T, L, g
  <2> QED BY <2>1, <2>2
<1>7. \A r \in S : executive[r] \in K
  <2>1. \A r \in S : r \in booked.other /\ r.executive # None
    BY DEF InMonth
  <2> QED BY <1>1, <2>1
<1>8. \A x \in K : \A r : r \in inMonth[x] <=> r \in S /\ executive[r] = x
  <2>1. \A x \in K : x # None
    BY RatesAssumption
  <2>2. ASSUME NEW x \in K, NEW r
        PROVE  r \in inMonth[x] <=> r \in S /\ executive[r] = x
    <3>1. r \in inMonth[x] <=> r \in booked.other /\ r.executive = x /\ r.month = m
      BY DEF InMonth, Shown
    <3>2. r \in S <=> r \in booked.other /\ r.month = m /\ r.executive # None
      BY DEF InMonth
    <3>3. r \in S => executive[r] = r.executive
      OBVIOUS
    <3> HIDE DEF S, executive, inMonth, K
    <3> QED BY <2>1, <2>2, <3>1, <3>2, <3>3
  <2> QED BY <2>2
<1>9. IsFiniteSet(K)
  BY ShownFinite
<1>10. \A x \in K : g[x] = AmountOf(inMonth[x])
  BY DEF ShownIn
<1>11. AmountOf({}) = 0
  <2> DEFINE none == [r \in {} |-> r.amount]
  <2>1. SumOver(none, {}) = 0
    <3> HIDE DEF none
    <3> QED BY SumOfNothing
  <2> QED BY <2>1 DEF AmountOf
<1> HIDE DEF L, R, g, K, S, executive, inMonth
<1>12. Rows(R)
  <2> DEFINE sets == {L[x] : x \in K}
  <2>1. IsFiniteSet(sets)
    BY <1>9, FiniteImage
  <2>2. R = UNION sets
    BY <1>5
  <2>3. \A T \in sets : IsFiniteSet(T) /\ \A r \in T : r.amount \in Int
    BY <1>6 DEF Rows
  <2>4. \A r \in R : r.amount \in Int
    BY <2>2, <2>3
  <2>5. \A T \in sets : IsFiniteSet(T)
    BY <2>3
  <2> HIDE DEF sets
  <2> QED BY <2>1, <2>2, <2>4, <2>5, FS_UNION DEF Rows
<1>13. \A r \in R : r.section = "REVENUE_CONTRACTS" /\ r.category \in K
  BY <1>5, <1>6
<1>14. AmountOf(R) = SumOver(g, K)
  <2>1. \A x \in K : \A r : r \in L[x] <=> r \in R /\ category[r] = x
    BY <1>5, <1>6
  <2>2. \A r \in R : category[r] \in K
    BY <1>13
  <2> HIDE DEF category
  <2>3. Parted(R, category, K, L)
    BY <1>9, <1>12, <2>1, <2>2 DEF Parted
  <2>4. \A x \in K : g[x] = AmountOf(L[x])
    BY <1>6
  <2> QED BY <2>3, <2>4, PartsAddUp
<1>15. SumOver(g, K) = AmountOf(S)
  <2>1. Parted(S, executive, K, inMonth)
    BY <1>3, <1>7, <1>8, <1>9 DEF Parted
  <2> QED BY <1>10, <2>1, PartsAddUp
<1>16. AmountOf(S) \in Int
  BY <1>3, AmountsAgree DEF Rows
<1> QED BY <1>4, <1>11, <1>12, <1>13, <1>14, <1>15, <1>16, Zenon DEF R, g, K, S

\* One more line.
LEMMA LineAdded ==
  ASSUME NEW R, Rows(R), NEW x, x \notin R, x.amount \in Int
  PROVE  Rows(R \cup {x}) /\ AmountOf(R \cup {x}) = AmountOf(R) + x.amount
<1> DEFINE f == [r \in {x} |-> r.amount]
<1>1. Rows({x}) /\ R \cap {x} = {}
  BY FS_Singleton DEF Rows
<1>2. AmountOf({x}) = x.amount
  <2>1. AmountOf({x}) = SumOver(f, {x}) /\ f[x] = x.amount
    BY DEF AmountOf
  <2> HIDE DEF f
  <2> QED BY <2>1, SumOfOne
<1>3. Rows(R \cup {x}) /\ AmountOf(R \cup {x}) = AmountOf(R) + AmountOf({x})
  BY <1>1, AmountUnion
<1> QED BY <1>2, <1>3

\* No lines, no amount.
LEMMA NoLines == Rows({}) /\ AmountOf({}) = 0
<1> DEFINE none == [r \in {} |-> r.amount]
<1>1. SumOver(none, {}) = 0
  <2> HIDE DEF none
  <2> QED BY SumOfNothing
<1> QED BY <1>1, FS_EmptySet DEF AmountOf, Rows

\* Ten lines that differ.
TenRows(a, b, c, d, e, f, g, h, i, j) ==
  /\ \A x \in {a, b, c, d, e, f, g, h, i, j} : x.amount \in Int
  /\ b \notin {a} /\ c \notin {a, b} /\ d \notin {a, b, c} /\ e \notin {a, b, c, d}
  /\ f \notin {a, b, c, d, e} /\ g \notin {a, b, c, d, e, f}
  /\ h \notin {a, b, c, d, e, f, g} /\ i \notin {a, b, c, d, e, f, g, h}
  /\ j \notin {a, b, c, d, e, f, g, h, i}

LEMMA TenLines ==
  ASSUME NEW a, NEW b, NEW c, NEW d, NEW e, NEW f, NEW g, NEW h, NEW i, NEW j,
         TenRows(a, b, c, d, e, f, g, h, i, j)
  PROVE  /\ Rows({a, b, c, d, e, f, g, h, i, j})
         /\ AmountOf({a, b, c, d, e, f, g, h, i, j})
              = a.amount + b.amount + c.amount + d.amount + e.amount
                + f.amount + g.amount + h.amount + i.amount + j.amount
<1>0. /\ \A x \in {a, b, c, d, e, f, g, h, i, j} : x.amount \in Int
      /\ b \notin {a} /\ c \notin {a, b} /\ d \notin {a, b, c} /\ e \notin {a, b, c, d}
      /\ f \notin {a, b, c, d, e} /\ g \notin {a, b, c, d, e, f}
      /\ h \notin {a, b, c, d, e, f, g} /\ i \notin {a, b, c, d, e, f, g, h}
      /\ j \notin {a, b, c, d, e, f, g, h, i}
  BY DEF TenRows
<1>1. Rows({a}) /\ AmountOf({a}) = a.amount
  <2>1. Rows({} \cup {a}) /\ AmountOf({} \cup {a}) = 0 + a.amount
    BY <1>0, NoLines, LineAdded
  <2>2. {} \cup {a} = {a} /\ a.amount \in Int
    BY <1>0
  <2> QED BY <2>1, <2>2
<1>2. Rows({a, b}) /\ AmountOf({a, b}) = a.amount + b.amount
  <2>1. Rows({a} \cup {b}) /\ AmountOf({a} \cup {b}) = AmountOf({a}) + b.amount
    BY <1>0, <1>1, LineAdded
  <2>2. {a} \cup {b} = {a, b}
    OBVIOUS
  <2> QED BY <1>1, <2>1, <2>2
<1>3. Rows({a, b, c}) /\ AmountOf({a, b, c}) = a.amount + b.amount + c.amount
  <2>1. Rows({a, b} \cup {c}) /\ AmountOf({a, b} \cup {c}) = AmountOf({a, b}) + c.amount
    BY <1>0, <1>2, LineAdded
  <2>2. {a, b} \cup {c} = {a, b, c}
    OBVIOUS
  <2> QED BY <1>2, <2>1, <2>2
<1>4. Rows({a, b, c, d}) /\ AmountOf({a, b, c, d}) = a.amount + b.amount + c.amount + d.amount
  <2> DEFINE R == {a, b, c}
  <2>1. Rows(R \cup {d}) /\ AmountOf(R \cup {d}) = AmountOf(R) + d.amount
    BY <1>0, <1>3, LineAdded
  <2>2. R \cup {d} = {a, b, c, d}
    OBVIOUS
  <2> QED BY <1>3, <2>1, <2>2
<1>5. /\ Rows({a, b, c, d, e})
      /\ AmountOf({a, b, c, d, e}) = a.amount + b.amount + c.amount + d.amount + e.amount
  <2> DEFINE R == {a, b, c, d}
  <2>1. Rows(R \cup {e}) /\ AmountOf(R \cup {e}) = AmountOf(R) + e.amount
    BY <1>0, <1>4, LineAdded
  <2>2. R \cup {e} = {a, b, c, d, e}
    OBVIOUS
  <2> QED BY <1>4, <2>1, <2>2
<1>6. /\ Rows({a, b, c, d, e, f})
      /\ AmountOf({a, b, c, d, e, f})
           = a.amount + b.amount + c.amount + d.amount + e.amount + f.amount
  <2> DEFINE R == {a, b, c, d, e}
  <2>1. Rows(R \cup {f}) /\ AmountOf(R \cup {f}) = AmountOf(R) + f.amount
    BY <1>0, <1>5, LineAdded
  <2>2. R \cup {f} = {a, b, c, d, e, f}
    OBVIOUS
  <2> QED BY <1>5, <2>1, <2>2
<1>7. /\ Rows({a, b, c, d, e, f, g})
      /\ AmountOf({a, b, c, d, e, f, g})
           = a.amount + b.amount + c.amount + d.amount + e.amount + f.amount + g.amount
  <2> DEFINE R == {a, b, c, d, e, f}
  <2>1. Rows(R \cup {g}) /\ AmountOf(R \cup {g}) = AmountOf(R) + g.amount
    BY <1>0, <1>6, LineAdded
  <2>2. R \cup {g} = {a, b, c, d, e, f, g}
    OBVIOUS
  <2> QED BY <1>6, <2>1, <2>2
<1>8. /\ Rows({a, b, c, d, e, f, g, h})
      /\ AmountOf({a, b, c, d, e, f, g, h})
           = a.amount + b.amount + c.amount + d.amount + e.amount + f.amount + g.amount
             + h.amount
  <2> DEFINE R == {a, b, c, d, e, f, g}
  <2>1. Rows(R \cup {h}) /\ AmountOf(R \cup {h}) = AmountOf(R) + h.amount
    BY <1>0, <1>7, LineAdded
  <2>2. R \cup {h} = {a, b, c, d, e, f, g, h}
    OBVIOUS
  <2> QED BY <1>7, <2>1, <2>2
<1>9. /\ Rows({a, b, c, d, e, f, g, h, i})
      /\ AmountOf({a, b, c, d, e, f, g, h, i})
           = a.amount + b.amount + c.amount + d.amount + e.amount + f.amount + g.amount
             + h.amount + i.amount
  <2> DEFINE R == {a, b, c, d, e, f, g, h}
  <2>1. Rows(R \cup {i}) /\ AmountOf(R \cup {i}) = AmountOf(R) + i.amount
    BY <1>0, <1>8, LineAdded
  <2>2. R \cup {i} = {a, b, c, d, e, f, g, h, i}
    OBVIOUS
  <2> QED BY <1>8, <2>1, <2>2
<1> DEFINE R == {a, b, c, d, e, f, g, h, i}
<1>10. Rows(R \cup {j}) /\ AmountOf(R \cup {j}) = AmountOf(R) + j.amount
  BY <1>0, <1>9, LineAdded
<1>11. R \cup {j} = {a, b, c, d, e, f, g, h, i, j}
  OBVIOUS
<1> QED BY <1>0, <1>9, <1>10, <1>11

\* What is paid in a month, column by column: the lines show pay of those who
\* were there by its parts, that of new staff whole, and charges of all.
LEMMA PayAddsUp ==
  ASSUME PayrollRows(payroll), NEW m \in Months
  PROVE  LET shown ==
               PayIn(Existing, m, BasePay) + PayIn(Existing, m, LAMBDA r : r.housing)
               + PayIn(Existing, m, LAMBDA r : r.transport)
               + PayIn(Existing, m, LAMBDA r : r.premium)
               + PayIn(Existing, m, LAMBDA r : r.hsa) + PayIn(New, m, NewPay)
               + PayIn(Existing \cup New, m, LAMBDA r : r.gosi)
               + PayIn(Existing \cup New, m, LAMBDA r : r.award)
               + PayIn(Existing, m, LAMBDA r : r.ajeer) + PayIn(New, m, LAMBDA r : r.ajeer)
             off == shown - PayIn(DOMAIN payroll.pay, m, LAMBDA r : r.total)
             slack == 2 * Cardinality(DOMAIN payroll.pay)
         IN /\ PayIn(Existing, m, BasePay) \in Int /\ PayIn(Existing, m, LAMBDA r : r.housing) \in Int
            /\ PayIn(Existing, m, LAMBDA r : r.transport) \in Int
            /\ PayIn(Existing, m, LAMBDA r : r.premium) \in Int
            /\ PayIn(Existing, m, LAMBDA r : r.hsa) \in Int /\ PayIn(New, m, NewPay) \in Int
            /\ PayIn(Existing \cup New, m, LAMBDA r : r.gosi) \in Int
            /\ PayIn(Existing \cup New, m, LAMBDA r : r.award) \in Int
            /\ PayIn(Existing, m, LAMBDA r : r.ajeer) \in Int
            /\ PayIn(New, m, LAMBDA r : r.ajeer) \in Int
            /\ PayIn(DOMAIN payroll.pay, m, LAMBDA r : r.total) \in Int
            /\ -slack <= off /\ off <= slack
<1> DEFINE P == DOMAIN payroll.pay
           E == Existing
           N == New
           A == Existing \cup New
           row == [e \in P |-> payroll.pay[e][m]]
           base == [e \in E |-> BasePay(payroll.pay[e][m])]
           housing == [e \in E |-> payroll.pay[e][m].housing]
           transport == [e \in E |-> payroll.pay[e][m].transport]
           premium == [e \in E |-> payroll.pay[e][m].premium]
           hsa == [e \in E |-> payroll.pay[e][m].hsa]
           new == [e \in N |-> NewPay(payroll.pay[e][m])]
           gosi == [e \in A |-> payroll.pay[e][m].gosi]
           award == [e \in A |-> payroll.pay[e][m].award]
           ajeerE == [e \in E |-> payroll.pay[e][m].ajeer]
           ajeerN == [e \in N |-> payroll.pay[e][m].ajeer]
           total == [e \in P |-> payroll.pay[e][m].total]
           gross == [e \in P |-> row[e].gross]
           ajeer == [e \in P |-> row[e].ajeer]
           b1 == [e \in P |-> row[e].gross - row[e].transport - row[e].premium - row[e].hsa]
           b2 == [e \in P |-> row[e].gross - row[e].premium - row[e].hsa]
           b3 == [e \in P |-> row[e].gross - row[e].hsa]
           c1 == [e \in P |-> row[e].gross + row[e].gosi]
           c2 == [e \in P |-> row[e].gross + row[e].gosi + row[e].award]
           c3 == [e \in P |-> row[e].gross + row[e].gosi + row[e].award + row[e].ajeer]
           off == [e \in P |-> c3[e] - total[e]]
<1>1. IsFiniteSet(P) /\ \A e \in P : PayRow(row[e])
  BY DEF PayrollRows
<1>2. E \subseteq P /\ N \subseteq P /\ A = P /\ E \cup N = P /\ E \cap N = {}
  BY DEF Existing, New
<1>3. IsFiniteSet(E) /\ IsFiniteSet(N)
  BY <1>1, <1>2, FS_Subset
<1>4. /\ PayIn(E, m, BasePay) = SumOver(base, E)
      /\ PayIn(E, m, LAMBDA r : r.housing) = SumOver(housing, E)
      /\ PayIn(E, m, LAMBDA r : r.transport) = SumOver(transport, E)
      /\ PayIn(E, m, LAMBDA r : r.premium) = SumOver(premium, E)
      /\ PayIn(E, m, LAMBDA r : r.hsa) = SumOver(hsa, E)
      /\ PayIn(N, m, NewPay) = SumOver(new, N)
      /\ PayIn(A, m, LAMBDA r : r.gosi) = SumOver(gosi, A)
      /\ PayIn(A, m, LAMBDA r : r.award) = SumOver(award, A)
      /\ PayIn(E, m, LAMBDA r : r.ajeer) = SumOver(ajeerE, E)
      /\ PayIn(N, m, LAMBDA r : r.ajeer) = SumOver(ajeerN, N)
      /\ PayIn(P, m, LAMBDA r : r.total) = SumOver(total, P)
  BY DEF PayIn
<1>5. \A e \in P :
        /\ row[e].gross \in Int /\ row[e].housing \in Int /\ row[e].transport \in Int
        /\ row[e].premium \in Int /\ row[e].hsa \in Int /\ row[e].gosi \in Int
        /\ row[e].ajeer \in Int /\ row[e].award \in Int /\ row[e].total \in Int
        /\ row[e].gross + row[e].gosi + row[e].ajeer + row[e].award - row[e].total \in -2..2
  BY <1>1 DEF PayRow
<1>6. \A e \in E : /\ base[e] = row[e].gross - row[e].housing - row[e].transport
                               - row[e].premium - row[e].hsa
                   /\ housing[e] = row[e].housing /\ transport[e] = row[e].transport
                   /\ premium[e] = row[e].premium /\ hsa[e] = row[e].hsa
                   /\ ajeerE[e] = row[e].ajeer
  BY <1>2 DEF BasePay
<1>7. \A e \in N : new[e] = row[e].gross /\ ajeerN[e] = row[e].ajeer
  BY <1>2 DEF NewPay
<1>8. \A e \in P : gosi[e] = row[e].gosi /\ award[e] = row[e].award /\ total[e] = row[e].total
  BY <1>2
<1>9. \A e \in P :
        /\ gross[e] = row[e].gross /\ ajeer[e] = row[e].ajeer
        /\ b1[e] = row[e].gross - row[e].transport - row[e].premium - row[e].hsa
        /\ b2[e] = row[e].gross - row[e].premium - row[e].hsa
        /\ b3[e] = row[e].gross - row[e].hsa
        /\ c1[e] = row[e].gross + row[e].gosi
        /\ c2[e] = row[e].gross + row[e].gosi + row[e].award
        /\ c3[e] = row[e].gross + row[e].gosi + row[e].award + row[e].ajeer
        /\ off[e] = c3[e] - total[e]
  OBVIOUS
<1> HIDE DEF P, E, N, A, row, base, housing, transport, premium, hsa, new, gosi, award, ajeerE,
             ajeerN, total, gross, ajeer, b1, b2, b3, c1, c2, c3, off
<1>10. /\ SumOver(base, E) \in Int /\ SumOver(housing, E) \in Int
       /\ SumOver(transport, E) \in Int /\ SumOver(premium, E) \in Int
       /\ SumOver(hsa, E) \in Int /\ SumOver(ajeerE, E) \in Int
  <2>1. \A e \in E : /\ base[e] \in Int /\ housing[e] \in Int /\ transport[e] \in Int
                     /\ premium[e] \in Int /\ hsa[e] \in Int /\ ajeerE[e] \in Int
    BY <1>2, <1>5, <1>6
  <2>2. SumOver(base, E) \in Int
    BY <1>3, <2>1, SumWhole
  <2>3. SumOver(housing, E) \in Int
    BY <1>3, <2>1, SumWhole
  <2>4. SumOver(transport, E) \in Int
    BY <1>3, <2>1, SumWhole
  <2>5. SumOver(premium, E) \in Int
    BY <1>3, <2>1, SumWhole
  <2>6. SumOver(hsa, E) \in Int
    BY <1>3, <2>1, SumWhole
  <2>7. SumOver(ajeerE, E) \in Int
    BY <1>3, <2>1, SumWhole
  <2> QED BY <2>2, <2>3, <2>4, <2>5, <2>6, <2>7
<1>11. SumOver(new, N) \in Int /\ SumOver(ajeerN, N) \in Int
  <2>1. \A e \in N : new[e] \in Int /\ ajeerN[e] \in Int
    BY <1>2, <1>5, <1>7
  <2>2. SumOver(new, N) \in Int
    BY <1>3, <2>1, SumWhole
  <2>3. SumOver(ajeerN, N) \in Int
    BY <1>3, <2>1, SumWhole
  <2> QED BY <2>2, <2>3
<1>12. SumOver(gosi, P) \in Int /\ SumOver(award, P) \in Int /\ SumOver(total, P) \in Int
  <2>1. \A e \in P : gosi[e] \in Int /\ award[e] \in Int /\ total[e] \in Int
    BY <1>5, <1>8
  <2>2. SumOver(gosi, P) \in Int
    BY <1>1, <2>1, SumWhole
  <2>3. SumOver(award, P) \in Int
    BY <1>1, <2>1, SumWhole
  <2>4. SumOver(total, P) \in Int
    BY <1>1, <2>1, SumWhole
  <2> QED BY <2>2, <2>3, <2>4
\* Pay of those who were there is its parts together.
<1>13. SumOver(gross, E) = SumOver(base, E) + SumOver(housing, E) + SumOver(transport, E)
                           + SumOver(premium, E) + SumOver(hsa, E)
  <2>1. SumOver(b1, E) = SumOver(base, E) + SumOver(housing, E)
    <3>1. \A e \in E : base[e] \in Int /\ housing[e] \in Int /\ b1[e] = base[e] + housing[e]
      BY <1>2, <1>5, <1>6, <1>9
    <3> QED BY <1>3, <3>1, SumAdds
  <2>2. SumOver(b2, E) = SumOver(b1, E) + SumOver(transport, E)
    <3>1. \A e \in E : b1[e] \in Int /\ transport[e] \in Int /\ b2[e] = b1[e] + transport[e]
      BY <1>2, <1>5, <1>6, <1>9
    <3> QED BY <1>3, <3>1, SumAdds
  <2>3. SumOver(b3, E) = SumOver(b2, E) + SumOver(premium, E)
    <3>1. \A e \in E : b2[e] \in Int /\ premium[e] \in Int /\ b3[e] = b2[e] + premium[e]
      BY <1>2, <1>5, <1>6, <1>9
    <3> QED BY <1>3, <3>1, SumAdds
  <2>4. SumOver(gross, E) = SumOver(b3, E) + SumOver(hsa, E)
    <3>1. \A e \in E : b3[e] \in Int /\ hsa[e] \in Int /\ gross[e] = b3[e] + hsa[e]
      BY <1>2, <1>5, <1>6, <1>9
    <3> QED BY <1>3, <3>1, SumAdds
  <2> QED BY <2>1, <2>2, <2>3, <2>4
<1>14. SumOver(gross, P) = SumOver(gross, E) + SumOver(new, N)
  <2>1. \A e \in E \cup N : gross[e] \in Int
    BY <1>2, <1>5, <1>9
  <2>2. SumOver(gross, E \cup N) = SumOver(gross, E) + SumOver(gross, N)
    BY <1>2, <1>3, <2>1, SumUnion
  <2>3. SumOver(gross, N) = SumOver(new, N)
    <3>1. \A e \in N : gross[e] = new[e]
      BY <1>2, <1>7, <1>9
    <3> QED BY <1>3, <3>1, SumAgrees
  <2> QED BY <1>2, <2>2, <2>3
<1>15. SumOver(ajeer, P) = SumOver(ajeerE, E) + SumOver(ajeerN, N)
  <2>1. \A e \in E \cup N : ajeer[e] \in Int
    BY <1>2, <1>5, <1>9
  <2>2. SumOver(ajeer, E \cup N) = SumOver(ajeer, E) + SumOver(ajeer, N)
    BY <1>2, <1>3, <2>1, SumUnion
  <2>3. SumOver(ajeer, E) = SumOver(ajeerE, E)
    <3>1. \A e \in E : ajeer[e] = ajeerE[e]
      BY <1>2, <1>6, <1>9
    <3> QED BY <1>3, <3>1, SumAgrees
  <2>4. SumOver(ajeer, N) = SumOver(ajeerN, N)
    <3>1. \A e \in N : ajeer[e] = ajeerN[e]
      BY <1>2, <1>7, <1>9
    <3> QED BY <1>3, <3>1, SumAgrees
  <2> QED BY <1>2, <2>2, <2>3, <2>4
\* With the charges it is the total, but for rounding.
<1>16. SumOver(c3, P) = SumOver(gross, P) + SumOver(gosi, P) + SumOver(award, P)
                        + SumOver(ajeer, P)
  <2>1. SumOver(c1, P) = SumOver(gross, P) + SumOver(gosi, P)
    <3>1. \A e \in P : gross[e] \in Int /\ gosi[e] \in Int /\ c1[e] = gross[e] + gosi[e]
      BY <1>5, <1>8, <1>9
    <3> QED BY <1>1, <3>1, SumAdds
  <2>2. SumOver(c2, P) = SumOver(c1, P) + SumOver(award, P)
    <3>1. \A e \in P : c1[e] \in Int /\ award[e] \in Int /\ c2[e] = c1[e] + award[e]
      BY <1>5, <1>8, <1>9
    <3> QED BY <1>1, <3>1, SumAdds
  <2>3. SumOver(c3, P) = SumOver(c2, P) + SumOver(ajeer, P)
    <3>1. \A e \in P : c2[e] \in Int /\ ajeer[e] \in Int /\ c3[e] = c2[e] + ajeer[e]
      BY <1>5, <1>8, <1>9
    <3> QED BY <1>1, <3>1, SumAdds
  <2> QED BY <2>1, <2>2, <2>3
<1>17. SumOver(c3, P) = SumOver(total, P) + SumOver(off, P)
  <2>1. \A e \in P : total[e] \in Int /\ off[e] \in Int /\ c3[e] = total[e] + off[e]
    BY <1>5, <1>8, <1>9
  <2> QED BY <1>1, <2>1, SumAdds
<1>18. Cardinality(P) \in Nat
  BY <1>1, FS_CardinalityType
<1>19. SumOver(off, P) \in (-2 * Cardinality(P))..(2 * Cardinality(P))
  <2> DEFINE a == -2
             b == 2
  <2>1. \A e \in P : off[e] \in a..b
    BY <1>5, <1>8, <1>9
  <2>2. a \in Int /\ b \in Int
    OBVIOUS
  <2> HIDE DEF a, b
  <2>3. SumOver(off, P) \in (a * Cardinality(P))..(b * Cardinality(P))
    BY <1>1, <2>1, <2>2, SumBounds
  <2> QED BY <1>18, <2>3 DEF a, b
<1> DEFINE shown == SumOver(base, E) + SumOver(housing, E) + SumOver(transport, E)
                    + SumOver(premium, E) + SumOver(hsa, E) + SumOver(new, N)
                    + SumOver(gosi, P) + SumOver(award, P)
                    + SumOver(ajeerE, E) + SumOver(ajeerN, N)
           o == shown - SumOver(total, P)
           slack == 2 * Cardinality(P)
<1>20. -slack <= o /\ o <= slack
  <2>1. o = SumOver(off, P)
    BY <1>10, <1>11, <1>12, <1>13, <1>14, <1>15, <1>16, <1>17, <1>19, <1>18
  <2> HIDE DEF o
  <2> QED BY <1>19, <1>18, <2>1
<1> QED BY <1>2, <1>4, <1>10, <1>11, <1>12, <1>20 DEF P, E, N, A

\* Lines of staff add up to the subtotal, which is the cost of staff within two
\* units for every employee.
LEMMA StaffLinesAddUp ==
  ASSUME PayrollRows(payroll), NEW m \in Months
  PROVE  LET off == StaffTotal(m) - FullStaffCost(m)
             slack == 2 * Cardinality(DOMAIN payroll.pay)
         IN /\ Rows(StaffLines(m))
            /\ \A r \in StaffLines(m) : r.section = "STAFF_COSTS"
            /\ StaffTotal(m) \in Int /\ FullStaffCost(m) \in Int
            /\ -slack <= off /\ off <= slack
<1> DEFINE a == PayLine("BASE_SALARIES", PayIn(Existing, m, BasePay))
           b == PayLine("HOUSING", PayIn(Existing, m, LAMBDA r : r.housing))
           c == PayLine("TRANSPORT", PayIn(Existing, m, LAMBDA r : r.transport))
           d == PayLine("RESPONSIBILITY", PayIn(Existing, m, LAMBDA r : r.premium))
           e == PayLine("HSA", PayIn(Existing, m, LAMBDA r : r.hsa))
           f == PayLine("NEW_POSITIONS", PayIn(New, m, NewPay))
           g == ChargeLine("GOSI", PayIn(Existing \cup New, m, LAMBDA r : r.gosi))
           h == ChargeLine("EOS", PayIn(Existing \cup New, m, LAMBDA r : r.award))
           i == ChargeLine("AJEER_EXISTING", PayIn(Existing, m, LAMBDA r : r.ajeer))
           j == ChargeLine("AJEER_NEW", PayIn(New, m, LAMBDA r : r.ajeer))
           ten == {a, b, c, d, e, f, g, h, i, j}
           K == DOMAIN payroll.byCategory
           name == [k \in K |-> <<k>>]
           cost == [k \in K |-> payroll.byCategory[k][m]]
           more == {Line("STAFF_COSTS", "ADDITIONAL_COSTS", <<k>>, payroll.byCategory[k][m]) :
                      k \in DOMAIN payroll.byCategory}
           P == DOMAIN payroll.pay
           paid == PayIn(P, m, LAMBDA r : r.total)
           shown == a.amount + b.amount + c.amount + d.amount + e.amount
                    + f.amount + g.amount + h.amount + i.amount + j.amount
           slack == 2 * Cardinality(P)
<1>1. /\ a.name = <<"BASE_SALARIES">> /\ b.name = <<"HOUSING">> /\ c.name = <<"TRANSPORT">>
      /\ d.name = <<"RESPONSIBILITY">> /\ e.name = <<"HSA">> /\ f.name = <<"NEW_POSITIONS">>
      /\ g.name = <<"GOSI">> /\ h.name = <<"EOS">> /\ i.name = <<"AJEER_EXISTING">>
      /\ j.name = <<"AJEER_NEW">>
  BY DEF PayLine, ChargeLine, Line
<1>2. \A x \in ten : x.section = "STAFF_COSTS" /\ x.category # "ADDITIONAL_COSTS"
  BY DEF PayLine, ChargeLine, Line
<1>3. /\ a.amount \in Int /\ b.amount \in Int /\ c.amount \in Int /\ d.amount \in Int
      /\ e.amount \in Int /\ f.amount \in Int /\ g.amount \in Int /\ h.amount \in Int
      /\ i.amount \in Int /\ j.amount \in Int /\ paid \in Int
      /\ -slack <= shown - paid /\ shown - paid <= slack
  BY PayAddsUp DEF PayLine, ChargeLine, Line
<1>4. StaffLines(m) = ten \cup more
  BY DEF StaffLines
<1>5. FullStaffCost(m) = paid + SumOver(cost, K)
  BY DEF FullStaffCost, CategoriesIn
<1>6. /\ IsFiniteSet(K) /\ \A k \in K : cost[k] \in Int
  BY DEF PayrollRows
<1>7. IsLines(more, "STAFF_COSTS", "ADDITIONAL_COSTS", name, cost, K)
  BY <1>6 DEF IsLines
<1> HIDE DEF a, b, c, d, e, f, g, h, i, j, K, name, cost, more, P, paid
<1>8. Rows(ten) /\ AmountOf(ten) = shown
  <2>1. /\ b \notin {a} /\ c \notin {a, b} /\ d \notin {a, b, c} /\ e \notin {a, b, c, d}
        /\ f \notin {a, b, c, d, e}
    BY <1>1
  <2>2. /\ g \notin {a, b, c, d, e, f} /\ h \notin {a, b, c, d, e, f, g}
        /\ i \notin {a, b, c, d, e, f, g, h}
    BY <1>1
  <2>3. j \notin {a, b, c, d, e, f, g, h, i}
    BY <1>1
  <2>4. \A x \in {a, b, c, d, e, f, g, h, i, j} : x.amount \in Int
    BY <1>3
  <2>5. TenRows(a, b, c, d, e, f, g, h, i, j)
    BY <2>1, <2>2, <2>3, <2>4 DEF TenRows
  <2> QED BY <2>5, TenLines
<1>9. /\ Rows(more) /\ AmountOf(more) = SumOver(cost, K)
      /\ \A r \in more : r.section = "STAFF_COSTS" /\ r.category = "ADDITIONAL_COSTS"
  BY <1>7, LinesAddUp
<1>10. ten \cap more = {}
  BY <1>2, <1>9
<1> HIDE DEF ten
<1>11. Rows(ten \cup more) /\ AmountOf(ten \cup more) = AmountOf(ten) + AmountOf(more)
  BY <1>8, <1>9, <1>10, AmountUnion
<1>12. SumOver(cost, K) \in Int
  BY <1>6, SumWhole
<1> DEFINE off == StaffTotal(m) - FullStaffCost(m)
<1>13. off = shown - paid /\ StaffTotal(m) = shown + SumOver(cost, K)
  <2>1. StaffTotal(m) = shown + SumOver(cost, K)
    BY <1>4, <1>8, <1>9, <1>11 DEF StaffTotal
  <2>2. shown \in Int
    BY <1>3
  <2> HIDE DEF shown
  <2> QED BY <1>3, <1>5, <1>12, <2>1, <2>2
<1>14. StaffTotal(m) \in Int /\ FullStaffCost(m) \in Int
  BY <1>3, <1>5, <1>12, <1>13
<1>15. -slack <= off /\ off <= slack
  <2> HIDE DEF shown, slack, off
  <2> QED BY <1>3, <1>13
<1>16. \A r \in StaffLines(m) : r.section = "STAFF_COSTS"
  BY <1>2, <1>4, <1>9
<1> QED BY <1>4, <1>11, <1>14, <1>15, <1>16 DEF P

\* Amounts of expense are whole; a line without rows has none.
LEMMA StoredTyped ==
  ASSUME ExpenseTable(lines, monthly), NEW l \in DOMAIN lines, NEW m \in Months
  PROVE  StoredAmount(l, m) \in Int /\ (~HasRows(l) => StoredAmount(l, m) = 0)
<1>1. monthly[l][m] \in Int \cup {Unset}
  BY DEF ExpenseTable, Cell
<1> QED BY <1>1 DEF StoredAmount, ValueOr, HasRows

\* Lines of expense hold what is spent.
LEMMA SpentLinesAddUp ==
  ASSUME ExpenseTable(lines, monthly), NEW m \in Months,
         NEW set, set \subseteq DOMAIN lines, NEW sec
  PROVE  /\ Rows(OpExLines(sec, set, m)) /\ AmountOf(OpExLines(sec, set, m)) = SpentOn(set, m)
         /\ SpentOn(set, m) \in Int
         /\ \A r \in OpExLines(sec, set, m) : r.section = sec
<1> DEFINE R == OpExLines(sec, set, m)
           K == {k \in set : HasRows(k)}
           f == [l \in DOMAIN lines |-> StoredAmount(l, m)]
           row == [l \in K |-> Line(sec, CategoryOf[l], <<l>>, StoredAmount(l, m))]
<1>1. IsFiniteSet(DOMAIN lines)
  BY DEF ExpenseTable
<1>2. IsFiniteSet(set) /\ IsFiniteSet(K) /\ K \subseteq set
  <2>1. K \subseteq set
    OBVIOUS
  <2> HIDE DEF K
  <2> QED BY <1>1, <2>1, FS_Subset
<1>3. \A l \in set : f[l] \in Int /\ (l \notin K => f[l] = 0)
  BY StoredTyped
<1>4. \A l \in K : row[l] \in R /\ row[l].amount = f[l] /\ row[l].name = <<l>>
  BY DEF OpExLines, Line
<1>5. \A r \in R : r.section = sec /\ \E l \in K : row[l] = r
  BY DEF OpExLines, Line
<1>6. SpentOn(set, m) = SumOver(f, set)
  BY DEF SpentOn
<1> HIDE DEF R, K, f, row
<1>7. \A k, l \in K : row[k] = row[l] => k = l
  <2>1. ASSUME NEW k \in K, NEW l \in K, row[k] = row[l]
        PROVE  k = l
    <3>1. <<k>> = <<l>>
      BY <1>4, <2>1
    <3> QED BY <3>1
  <2> QED BY <2>1
<1>8. \A l \in K : f[l] \in Int
  BY <1>2, <1>3
<1>9. AmountOf(R) = SumOver(f, K) /\ IsFiniteSet(R)
  <2>1. \A l \in K : row[l] \in R /\ row[l].amount = f[l]
    BY <1>4
  <2>2. \A r \in R : \E l \in K : row[l] = r
    BY <1>5
  <2> QED BY <1>2, <1>7, <1>8, <2>1, <2>2, RowsAddUp
<1>10. SumOver(f, set) = SumOver(f, K)
  <2>1. \A l \in set : f[l] \in Int
    BY <1>3
  <2>2. \A l \in set \ K : f[l] = 0
    BY <1>3
  <2> QED BY <1>2, <2>1, <2>2, SumOfOthers
<1>11. SumOver(f, set) \in Int
  BY <1>2, <1>3, SumWhole
<1>12. \A r \in R : r.amount \in Int
  BY <1>4, <1>5, <1>8
<1> QED BY <1>5, <1>6, <1>9, <1>10, <1>11, <1>12 DEF R, Rows

\* Every line of expense is in one of the sums, finance income with its sign
\* turned, but for those whose category does not fit their section.
LEMMA ExpenseParts ==
  ASSUME ExpenseTable(lines, monthly), NEW m \in Months
  PROVE  Deducted(m)
           = SpentOn(OperatingLines, m)
             + SpentOn(LinesOf("Depreciation"), m) + SpentOn(LinesOf("Impairment"), m)
             - FinanceNet(m)
<1> DEFINE L == DOMAIN lines
           all == OperatingLines
           op == OperatingLines \ DeductedTwice
           two == DeductedTwice
           no == InNoLine
           dep == LinesOf("Depreciation")
           imp == LinesOf("Impairment")
           inc == LinesOf("Finance Income")
           cost == LinesOf("Finance Costs")
           f == [l \in L |-> StoredAmount(l, m)]
           g == [l \in L |-> IF CategoryOf[l] = "Finance Income" THEN -StoredAmount(l, m)
                             ELSE StoredAmount(l, m)]
           none == [l \in L |-> 0]
<1>0. \A l \in L : StoredAmount(l, m) \in Int
  BY StoredTyped
<1>1. IsFiniteSet(L) /\ \A l \in L : f[l] \in Int /\ g[l] \in Int
  <2>1. IsFiniteSet(L)
    BY DEF ExpenseTable
  <2>2. \A l \in L : f[l] \in Int
    BY <1>0
  <2>3. ASSUME NEW l \in L  PROVE g[l] \in Int
    <3>1. StoredAmount(l, m) \in Int /\ -StoredAmount(l, m) \in Int
      BY <1>0
    <3> QED BY <3>1
  <2> QED BY <2>1, <2>2, <2>3
<1>2. /\ op \subseteq L /\ dep \subseteq L /\ imp \subseteq L /\ inc \subseteq L /\ cost \subseteq L
      /\ two \subseteq L /\ no \subseteq L /\ op \cup two = all /\ op \cap two = {}
      /\ op \cup dep \cup imp \cup inc \cup cost \cup no = L
      /\ op \cap dep = {} /\ (op \cup dep) \cap imp = {} /\ (op \cup dep \cup imp) \cap cost = {}
      /\ (op \cup dep \cup imp \cup cost) \cap no = {}
      /\ (op \cup dep \cup imp \cup cost \cup no) \cap inc = {}
  <2>1. two \subseteq all
    BY DEF OperatingLines, DeductedTwice, Special, Finance
  <2>2. op \cup dep \cup imp \cup inc \cup cost \cup no = L
    BY DEF OperatingLines, DeductedTwice, InNoLine, LinesOf, Special, Finance
  <2>3. /\ op \cap dep = {} /\ (op \cup dep) \cap imp = {}
        /\ (op \cup dep \cup imp) \cap cost = {}
        /\ (op \cup dep \cup imp \cup cost \cup no) \cap inc = {}
    BY DEF OperatingLines, DeductedTwice, InNoLine, LinesOf, Special, Finance
  <2>4. (op \cup dep \cup imp \cup cost) \cap no = {}
    BY DEF OperatingLines, InNoLine, LinesOf, Special, Finance
  <2> QED
    BY <2>1, <2>2, <2>3, <2>4 DEF OperatingLines, DeductedTwice, InNoLine, LinesOf
<1>3. \A l \in L : IF l \in inc THEN f[l] + g[l] = 0 ELSE g[l] = f[l]
  <2> TAKE l \in L
  <2>1. StoredAmount(l, m) + (-StoredAmount(l, m)) = 0
    BY <1>0
  <2>2. l \in inc <=> CategoryOf[l] = "Finance Income"
    BY DEF LinesOf
  <2> HIDE DEF inc
  <2> QED BY <2>1, <2>2
<1>4. \A l \in inc : none[l] = 0
  BY DEF LinesOf
<1>5. /\ SpentOn(all, m) = SumOver(f, all) /\ SpentOn(dep, m) = SumOver(f, dep)
      /\ SpentOn(two, m) = SumOver(f, two) /\ SpentOn(no, m) = SumOver(f, no)
      /\ SpentOn(imp, m) = SumOver(f, imp) /\ SpentOn(inc, m) = SumOver(f, inc)
      /\ SpentOn(cost, m) = SumOver(f, cost) /\ FullExpense(m) = SumOver(g, L)
  BY DEF SpentOn, FullExpense
<1> HIDE DEF L, all, op, two, no, dep, imp, inc, cost, f, g, none
<1>6. /\ IsFiniteSet(op) /\ IsFiniteSet(dep) /\ IsFiniteSet(imp) /\ IsFiniteSet(inc)
      /\ IsFiniteSet(cost) /\ IsFiniteSet(two) /\ IsFiniteSet(no)
  <2>1. \A S : S \subseteq L => IsFiniteSet(S)
    BY <1>1, FS_Subset
  <2> QED BY <1>2, <2>1
<1>7. SumOver(f, inc) \in Int /\ SumOver(g, inc) = -SumOver(f, inc)
  <2>1. \A l \in inc : f[l] \in Int /\ g[l] \in Int /\ none[l] = f[l] + g[l]
    BY <1>1, <1>2, <1>3, <1>4
  <2>2. SumOver(none, inc) = SumOver(f, inc) + SumOver(g, inc)
    BY <1>6, <2>1, SumAdds
  <2>3. SumOver(none, inc) = 0
    BY <1>4, <1>6, SumOfZeros
  <2>4. SumOver(f, inc) \in Int
    BY <1>6, <2>1, SumWhole
  <2>5. SumOver(g, inc) \in Int
    BY <1>6, <2>1, SumWhole
  <2> QED BY <2>2, <2>3, <2>4, <2>5
<1> DEFINE rest == op \cup dep \cup imp \cup cost \cup no
<1>8. SumOver(g, rest) = SumOver(f, op) + SumOver(f, dep) + SumOver(f, imp) + SumOver(f, cost)
                         + SumOver(f, no)
  <2>1. \A l \in rest : l \notin inc /\ l \in L
    BY <1>2
  <2>2. \A l \in rest : f[l] \in Int /\ g[l] = f[l]
    BY <1>1, <1>3, <2>1
  <2>3. IsFiniteSet(op \cup dep) /\ IsFiniteSet(op \cup dep \cup imp) /\ IsFiniteSet(rest)
    <3>1. IsFiniteSet(op \cup dep)
      BY <1>6, FS_Union
    <3>2. IsFiniteSet((op \cup dep) \cup imp)
      BY <1>6, <3>1, FS_Union
    <3>3. IsFiniteSet(((op \cup dep) \cup imp) \cup cost)
      BY <1>6, <3>2, FS_Union
    <3>4. IsFiniteSet((((op \cup dep) \cup imp) \cup cost) \cup no)
      BY <1>6, <3>3, FS_Union
    <3> QED BY <3>1, <3>2, <3>4
  <2>4. SumOver(f, op \cup dep) = SumOver(f, op) + SumOver(f, dep)
    BY <1>2, <1>6, <2>2, SumUnion
  <2> DEFINE pair == op \cup dep
             three == pair \cup imp
             four == three \cup cost
  <2>5. SumOver(f, pair \cup imp) = SumOver(f, pair) + SumOver(f, imp)
    <3>1. pair \cap imp = {} /\ \A l \in pair \cup imp : f[l] \in Int
      BY <1>2, <2>2
    <3> HIDE DEF pair
    <3> QED BY <1>6, <2>3, <3>1, SumUnion DEF pair
  <2>6. SumOver(f, three \cup cost) = SumOver(f, three) + SumOver(f, cost)
    <3>1. three \cap cost = {} /\ \A l \in three \cup cost : f[l] \in Int
      BY <1>2, <2>2
    <3>2. IsFiniteSet(three)
      BY <2>3
    <3> HIDE DEF three
    <3> QED BY <1>6, <3>1, <3>2, SumUnion
  <2>6a. SumOver(f, four \cup no) = SumOver(f, four) + SumOver(f, no)
    <3>1. four \cap no = {} /\ \A l \in four \cup no : f[l] \in Int
      BY <1>2, <2>2
    <3>2. IsFiniteSet(four)
      BY <1>6, <2>3, FS_Union
    <3> HIDE DEF four
    <3> QED BY <1>6, <3>1, <3>2, SumUnion
  <2>7. SumOver(g, rest) = SumOver(f, rest)
    <3> HIDE DEF rest
    <3> QED BY <2>2, <2>3, SumAgrees
  <2> QED BY <2>4, <2>5, <2>6, <2>6a, <2>7
<1>9. SumOver(g, L) = SumOver(g, rest) + SumOver(g, inc)
  <2>1. rest \cup inc = L /\ rest \cap inc = {} /\ rest \subseteq L
    BY <1>2
  <2> HIDE DEF rest
  <2>2. IsFiniteSet(rest)
    BY <1>1, <2>1, FS_Subset
  <2> QED BY <1>1, <1>6, <2>1, <2>2, SumUnion
<1>9a. SumOver(f, all) = SumOver(f, op) + SumOver(f, two)
  <2>1. \A l \in op \cup two : f[l] \in Int
    BY <1>1, <1>2
  <2> QED BY <1>2, <1>6, <2>1, SumUnion
<1>10. FinanceNet(m) = SumOver(f, inc) - SumOver(f, cost)
  BY <1>5 DEF FinanceNet, inc, cost
<1>11. /\ SumOver(f, op) \in Int /\ SumOver(f, dep) \in Int /\ SumOver(f, imp) \in Int
       /\ SumOver(f, cost) \in Int /\ SumOver(f, two) \in Int /\ SumOver(f, no) \in Int
  <2>1. \A S : S \subseteq L => SumOver(f, S) \in Int
    <3> TAKE S
    <3> HAVE S \subseteq L
    <3>1. IsFiniteSet(S) /\ \A l \in S : f[l] \in Int
      BY <1>1, FS_Subset
    <3> QED BY <3>1, SumWhole
  <2> QED BY <1>2, <2>1
<1>12. FullExpense(m) = SumOver(f, op) + SumOver(f, dep) + SumOver(f, imp) + SumOver(f, no)
                        - (SumOver(f, inc) - SumOver(f, cost))
  <2> HIDE DEF rest
  <2> QED BY <1>5, <1>7, <1>8, <1>9, <1>11
<1>13. Deducted(m) = FullExpense(m) + SumOver(f, two) - SumOver(f, no)
  BY <1>5 DEF Deducted, two, no
<1>14. Deducted(m) = SumOver(f, all) + SumOver(f, dep) + SumOver(f, imp) - FinanceNet(m)
  BY <1>7, <1>9a, <1>10, <1>11, <1>12, <1>13
<1> QED BY <1>5, <1>14 DEF all, dep, imp

\* The tables an account is made from.
Tables ==
  BookedRows(booked) /\ PayrollRows(payroll) /\ ExpenseTable(lines, monthly)
PartOf(m, sections) == {l \in LinesIn(m) : l.section \in sections}

\* The lines of a month by section.
LEMMA SectionsAddUp ==
  ASSUME Tables, NEW m \in Months
  PROVE  /\ TotalRevenue(m) = AmountOf(PartOf(m, {"REVENUE_CONTRACTS", "RENTAL_INCOME"}))
         /\ StaffTotal(m) = AmountOf(PartOf(m, {"STAFF_COSTS"}))
         /\ SpentOn(OperatingLines, m) + SpentOn(LinesOf("Depreciation"), m)
              + SpentOn(LinesOf("Impairment"), m) = AmountOf(PartOf(m, {"OTHER_OPEX"} \cup Special))
         /\ SpentOn(LinesOf("Finance Income"), m) = AmountOf(PartOf(m, {"Finance Income"}))
         /\ SpentOn(LinesOf("Finance Costs"), m) = AmountOf(PartOf(m, {"Finance Costs"}))
         /\ TotalRevenue(m) = ShownRevenue(m) /\ TotalRevenue(m) \in Int
<1> DEFINE T == TuitionLines(m)
           O == OtherLines(m)
           S == StaffLines(m)
           E == OpExLines("OTHER_OPEX", OperatingLines, m)
           D == OpExLines("Depreciation", LinesOf("Depreciation"), m)
           I == OpExLines("Impairment", LinesOf("Impairment"), m)
           F == OpExLines("Finance Income", LinesOf("Finance Income"), m)
           C == OpExLines("Finance Costs", LinesOf("Finance Costs"), m)
           all == LinesIn(m)
<1>1. BookedRows(booked) /\ PayrollRows(payroll) /\ ExpenseTable(lines, monthly)
  BY DEF Tables
<1>2. /\ OperatingLines \subseteq DOMAIN lines
      /\ \A x : LinesOf(x) \subseteq DOMAIN lines
  BY DEF OperatingLines, LinesOf
<1>3. all = T \cup O \cup S \cup E \cup D \cup I \cup F \cup C
  BY DEF LinesIn, ExpenseLines, Special, Finance
<1>4. /\ Rows(T) /\ AmountOf(T) = NetTuition(TuitionCells, m)
      /\ NetTuition(TuitionCells, m) \in Int
      /\ \A r \in T : r.section = "REVENUE_CONTRACTS" /\ r.category = "TUITION_FEES"
  BY <1>1, TuitionLinesAddUp
<1>5. /\ Rows(O) /\ AmountOf(O) = SumOver(ShownIn(m), ShownCategories)
      /\ \A r \in O : r.section = "REVENUE_CONTRACTS" /\ r.category # "TUITION_FEES"
      /\ SumOver(ShownIn(m), ShownCategories)
           = AmountOf({r \in InMonth(booked.other, m) : r.executive # None})
      /\ SumOver(ShownIn(m), ShownCategories) \in Int
      /\ AmountOf(InMonth(Rent, m)) = 0
  <2>1. \A r \in O : r.section = "REVENUE_CONTRACTS" /\ r.category \in ShownCategories
    BY <1>1, OtherLinesAddUp
  <2>2. \A x \in ShownCategories : x # "TUITION_FEES"
    BY DEF ShownCategories
  <2>3. \A r \in O : r.section = "REVENUE_CONTRACTS" /\ r.category # "TUITION_FEES"
    BY <2>1, <2>2
  <2> HIDE DEF O
  <2>4. Rows(O) /\ AmountOf(O) = SumOver(ShownIn(m), ShownCategories)
    BY <1>1, OtherLinesAddUp DEF O
  <2>5. /\ SumOver(ShownIn(m), ShownCategories)
             = AmountOf({r \in InMonth(booked.other, m) : r.executive # None})
        /\ SumOver(ShownIn(m), ShownCategories) \in Int
        /\ AmountOf(InMonth(Rent, m)) = 0
    BY <1>1, OtherLinesAddUp
  <2> QED BY <2>3, <2>4, <2>5, Zenon
<1>6. /\ StaffTotal(m) = AmountOf(S)
      /\ \A r \in S : r.section = "STAFF_COSTS"
  <2>1. \A r \in S : r.section = "STAFF_COSTS"
    BY <1>1, StaffLinesAddUp
  <2> QED BY <2>1 DEF StaffTotal
<1>7. Rows(E) /\ AmountOf(E) = SpentOn(OperatingLines, m) /\ \A r \in E : r.section = "OTHER_OPEX"
  BY <1>1, <1>2, SpentLinesAddUp
<1>8. /\ Rows(D) /\ AmountOf(D) = SpentOn(LinesOf("Depreciation"), m)
      /\ \A r \in D : r.section = "Depreciation"
  BY <1>1, <1>2, SpentLinesAddUp
<1>9. /\ Rows(I) /\ AmountOf(I) = SpentOn(LinesOf("Impairment"), m)
      /\ \A r \in I : r.section = "Impairment"
  BY <1>1, <1>2, SpentLinesAddUp
<1>10. /\ Rows(F) /\ AmountOf(F) = SpentOn(LinesOf("Finance Income"), m)
       /\ \A r \in F : r.section = "Finance Income"
  BY <1>1, <1>2, SpentLinesAddUp
<1>11. /\ Rows(C) /\ AmountOf(C) = SpentOn(LinesOf("Finance Costs"), m)
       /\ \A r \in C : r.section = "Finance Costs"
  BY <1>1, <1>2, SpentLinesAddUp
<1>12. TotalRevenue(m) = NetTuition(TuitionCells, m) + SumOver(ShownIn(m), ShownCategories)
  <2>1. TotalRevenue(m) = NetTuition(TuitionCells, m) + AmountOf(InMonth(Rent, m))
                          + SumOver(ShownIn(m), ShownCategories)
    BY DEF TotalRevenue, ShownIn
  <2> QED BY <1>4, <1>5, <2>1
<1>13. ShownRevenue(m) = NetTuition(TuitionCells, m) + SumOver(ShownIn(m), ShownCategories)
  BY <1>5 DEF ShownRevenue
<1> HIDE DEF T, O, S, E, D, I, F, C, all
<1>14. \A sections : \A l : l \in PartOf(m, sections) <=> l \in all /\ l.section \in sections
  BY DEF PartOf, all
<1>15. ASSUME NEW l
       PROVE  /\ l \in all /\ l.section \in {"REVENUE_CONTRACTS", "RENTAL_INCOME"} <=> l \in T \cup O
              /\ l \in all /\ l.section \in {"STAFF_COSTS"} <=> l \in S
              /\ l \in all /\ l.section \in {"OTHER_OPEX"} \cup Special <=> l \in (E \cup D) \cup I
              /\ l \in all /\ l.section \in {"Finance Income"} <=> l \in F
              /\ l \in all /\ l.section \in {"Finance Costs"} <=> l \in C
  <2> DEFINE s == l.section
  <2>1. /\ l \in T \cup O => s = "REVENUE_CONTRACTS"
        /\ l \in S => s = "STAFF_COSTS"
        /\ l \in E => s = "OTHER_OPEX"
        /\ l \in D => s = "Depreciation"
        /\ l \in I => s = "Impairment"
        /\ l \in F => s = "Finance Income"
        /\ l \in C => s = "Finance Costs"
    BY <1>4, <1>5, <1>6, <1>7, <1>8, <1>9, <1>10, <1>11
  <2>2. l \in all <=> \/ l \in T \cup O \/ l \in S \/ l \in E \/ l \in D
                       \/ l \in I \/ l \in F \/ l \in C
    BY <1>3
  <2> HIDE DEF s
  <2>3. /\ l \in all /\ s \in {"REVENUE_CONTRACTS", "RENTAL_INCOME"} <=> l \in T \cup O
        /\ l \in all /\ s \in {"STAFF_COSTS"} <=> l \in S
    BY <2>1, <2>2
  <2>4. l \in all /\ s \in {"OTHER_OPEX"} \cup Special <=> l \in (E \cup D) \cup I
    BY <2>1, <2>2 DEF Special
  <2>5. /\ l \in all /\ s \in {"Finance Income"} <=> l \in F
        /\ l \in all /\ s \in {"Finance Costs"} <=> l \in C
    BY <2>1, <2>2
  <2> QED BY <2>3, <2>4, <2>5 DEF s
<1>16. /\ PartOf(m, {"REVENUE_CONTRACTS", "RENTAL_INCOME"}) = T \cup O
       /\ PartOf(m, {"STAFF_COSTS"}) = S
       /\ PartOf(m, {"Finance Income"}) = F
       /\ PartOf(m, {"Finance Costs"}) = C
  <2>1. ASSUME NEW sections, NEW set,
               \A l : l \in all /\ l.section \in sections <=> l \in set
        PROVE  PartOf(m, sections) = set
    BY <1>14, <2>1
  <2>2. PartOf(m, {"REVENUE_CONTRACTS", "RENTAL_INCOME"}) = T \cup O
    BY <1>15, <2>1
  <2>3. PartOf(m, {"STAFF_COSTS"}) = S
    BY <1>15, <2>1
  <2>4. PartOf(m, {"Finance Income"}) = F
    BY <1>15, <2>1
  <2>5. PartOf(m, {"Finance Costs"}) = C
    BY <1>15, <2>1
  <2> QED BY <2>2, <2>3, <2>4, <2>5
<1>17. PartOf(m, {"OTHER_OPEX"} \cup Special) = (E \cup D) \cup I
  BY <1>14, <1>15
<1>18. AmountOf(T \cup O) = AmountOf(T) + AmountOf(O)
  <2>1. T \cap O = {}
    BY <1>4, <1>5
  <2> QED BY <1>4, <1>5, <2>1, AmountUnion
<1>19. AmountOf((E \cup D) \cup I) = AmountOf(E) + AmountOf(D) + AmountOf(I)
  <2>1. E \cap D = {} /\ (E \cup D) \cap I = {}
    BY <1>7, <1>8, <1>9
  <2>2. Rows(E \cup D) /\ AmountOf(E \cup D) = AmountOf(E) + AmountOf(D)
    BY <1>7, <1>8, <2>1, AmountUnion
  <2> DEFINE U == E \cup D
  <2> HIDE DEF U
  <2>3. AmountOf(U \cup I) = AmountOf(U) + AmountOf(I)
    BY <1>9, <2>1, <2>2, AmountUnion DEF U
  <2> QED BY <2>2, <2>3 DEF U
<1>20. /\ TotalRevenue(m) = AmountOf(PartOf(m, {"REVENUE_CONTRACTS", "RENTAL_INCOME"}))
       /\ StaffTotal(m) = AmountOf(PartOf(m, {"STAFF_COSTS"}))
  BY <1>4, <1>5, <1>6, <1>12, <1>16, <1>18
<1>21. SpentOn(OperatingLines, m) + SpentOn(LinesOf("Depreciation"), m)
         + SpentOn(LinesOf("Impairment"), m) = AmountOf(PartOf(m, {"OTHER_OPEX"} \cup Special))
  BY <1>7, <1>8, <1>9, <1>17, <1>19
<1>22. /\ SpentOn(LinesOf("Finance Income"), m) = AmountOf(PartOf(m, {"Finance Income"}))
       /\ SpentOn(LinesOf("Finance Costs"), m) = AmountOf(PartOf(m, {"Finance Costs"}))
  BY <1>10, <1>11, <1>16
<1>23. TotalRevenue(m) = ShownRevenue(m) /\ TotalRevenue(m) \in Int
  BY <1>4, <1>5, <1>12, <1>13
<1> QED BY <1>20, <1>21, <1>22, <1>23

-----------------------------------------------------------------------------
(* The account.                                                            *)

\* An account made from the tables adds up.
LEMMA AccountSums ==
  ASSUME Tables, pnl = Pnl
  PROVE  AccountAddsUp
<1> SUFFICES ASSUME NEW m \in Months
             PROVE  LET s == pnl[m].summary
                        off == s.beforeZakat
                                 - (ShownRevenue(m) - FullStaffCost(m) - Deducted(m))
                        slack == 2 * Cardinality(DOMAIN payroll.pay)
                        taken == s.zakat + s.net - s.beforeZakat
                    IN /\ -slack <= off /\ off <= slack
                       /\ 0 <= taken /\ taken <= 1
                       /\ s.revenue = LineTotal(m, {"REVENUE_CONTRACTS", "RENTAL_INCOME"})
                       /\ s.staff = LineTotal(m, {"STAFF_COSTS"})
                       /\ s.operating
                            = s.revenue - s.staff - LineTotal(m, {"OTHER_OPEX"} \cup Special)
                       /\ s.finance
                            = LineTotal(m, {"Finance Income"}) - LineTotal(m, {"Finance Costs"})
  BY DEF AccountAddsUp
<1> DEFINE s == pnl[m].summary
           slack == 2 * Cardinality(DOMAIN payroll.pay)
           op == SpentOn(OperatingLines, m)
           dep == SpentOn(LinesOf("Depreciation"), m)
           imp == SpentOn(LinesOf("Impairment"), m)
           inc == SpentOn(LinesOf("Finance Income"), m)
           cost == SpentOn(LinesOf("Finance Costs"), m)
           before == BeforeZakat(m)
<1>1. /\ s.revenue = TotalRevenue(m) /\ s.staff = StaffTotal(m) /\ s.finance = FinanceNet(m)
      /\ s.operating = OperatingProfit(m) /\ s.beforeZakat = before
      /\ s.zakat = IF before > 0 THEN HalfUp(before, 40) ELSE 0
      /\ s.net = IF before > 0 THEN HalfUp(39 * before, 40) ELSE before
  <2>1. s = Summary(m)
    BY DEF Pnl
  <2> HIDE DEF s
  <2> QED BY <2>1 DEF Summary
<1>2. \A sections : LineTotal(m, sections) = AmountOf(PartOf(m, sections))
  <2>1. pnl[m].lines = LinesIn(m)
    BY DEF Pnl
  <2> QED BY <2>1 DEF LineTotal, PartOf
<1>3. /\ TotalRevenue(m) \in Int /\ TotalRevenue(m) = ShownRevenue(m)
      /\ TotalRevenue(m) = LineTotal(m, {"REVENUE_CONTRACTS", "RENTAL_INCOME"})
      /\ StaffTotal(m) = LineTotal(m, {"STAFF_COSTS"})
      /\ op + dep + imp = LineTotal(m, {"OTHER_OPEX"} \cup Special)
      /\ inc = LineTotal(m, {"Finance Income"}) /\ cost = LineTotal(m, {"Finance Costs"})
  BY <1>2, SectionsAddUp
<1>4. op \in Int /\ dep \in Int /\ imp \in Int /\ inc \in Int /\ cost \in Int
  <2>1. OperatingLines \subseteq DOMAIN lines /\ \A x : LinesOf(x) \subseteq DOMAIN lines
    BY DEF OperatingLines, LinesOf
  <2>2. \A set : set \subseteq DOMAIN lines => SpentOn(set, m) \in Int
    BY SpentLinesAddUp DEF Tables
  <2> QED BY <2>1, <2>2
<1> DEFINE revenue == TotalRevenue(m)
           paid == StaffTotal(m)
           full == FullStaffCost(m)
           spent == Deducted(m)
           fin == FinanceNet(m)
           profit == OperatingProfit(m)
<1>5. /\ paid \in Int /\ full \in Int
      /\ -slack <= paid - full /\ paid - full <= slack
  BY StaffLinesAddUp DEF Tables
<1>6. spent = op + dep + imp - fin
  BY ExpenseParts DEF Tables
<1>7. fin = inc - cost
  BY DEF FinanceNet
<1>8. profit = revenue - paid - op - dep - imp
  BY DEF OperatingProfit
<1>9. before = profit + fin
  BY DEF BeforeZakat
<1>10. slack \in Int
  <2>1. Cardinality(DOMAIN payroll.pay) \in Nat
    BY FS_CardinalityType DEF Tables, PayrollRows
  <2> QED BY <2>1
<1>11. revenue \in Int /\ ShownRevenue(m) = revenue
  BY <1>3
<1> DEFINE off == s.beforeZakat - (ShownRevenue(m) - full - spent)
           taken == s.zakat + s.net - s.beforeZakat
<1> HIDE DEF s, slack, op, dep, imp, inc, cost, before, revenue, paid, full, spent, fin, profit
<1>12. fin \in Int /\ profit \in Int /\ before \in Int /\ spent \in Int
  BY <1>4, <1>5, <1>6, <1>7, <1>8, <1>9, <1>11
<1>13. -slack <= off /\ off <= slack
  <2>1. ShownRevenue(m) = revenue /\ s.beforeZakat = before
    BY <1>1, <1>11
  <2>2. off = full - paid
    BY <1>4, <1>5, <1>6, <1>8, <1>9, <1>11, <1>12, <2>1
  <2> HIDE DEF off
  <2> QED BY <1>5, <1>10, <2>2
<1>14. 0 <= taken /\ taken <= 1
  <2>1. CASE before > 0
    <3>1. before \in Nat \ {0}
      BY <1>12, <2>1
    <3>2. s.zakat = HalfUp(before, 40) /\ s.net = HalfUp(39 * before, 40)
          /\ s.beforeZakat = before
      BY <1>1, <2>1
    <3> QED BY <3>1, <3>2, ZakatShares
  <2>2. CASE ~(before > 0)
    <3>1. s.zakat = 0 /\ s.net = before /\ s.beforeZakat = before
      BY <1>1, <2>2
    <3> QED BY <1>12, <3>1
  <2> QED BY <2>1, <2>2
<1>15. s.revenue = LineTotal(m, {"REVENUE_CONTRACTS", "RENTAL_INCOME"})
       /\ s.staff = LineTotal(m, {"STAFF_COSTS"})
  BY <1>1, <1>3 DEF revenue, paid
<1>16. s.operating = s.revenue - s.staff - LineTotal(m, {"OTHER_OPEX"} \cup Special)
  <2>1. revenue - paid - op - dep - imp = revenue - paid - (op + dep + imp)
    BY <1>4, <1>5, <1>11
  <2>2. s.operating = profit /\ s.revenue = revenue /\ s.staff = paid
    BY <1>1 DEF profit, revenue, paid
  <2> QED BY <1>3, <1>8, <2>1, <2>2
<1>17. s.finance = LineTotal(m, {"Finance Income"}) - LineTotal(m, {"Finance Costs"})
  <2>1. s.finance = fin
    BY <1>1 DEF fin
  <2> QED BY <1>3, <1>7, <2>1
<1> HIDE DEF off, taken
<1> QED BY <1>13, <1>14, <1>15, <1>16, <1>17 DEF s, slack, off, taken, full, spent

\* An account shown up to date was made from the tables as they are.
LEMMA TablesShown ==
  ASSUME BudgetInv, Clean({"STAFFING", "PNL"})
  PROVE  Tables /\ pnl = Pnl
<1>1. "STAFFING" \notin stale /\ "PNL" \notin stale /\ "REVENUE" \notin stale
  BY DEF Clean, BudgetInv, Marks
<1>2. booked = Revenue /\ Derivable /\ PayrollRows(payroll) /\ pnl = Pnl
  BY <1>1 DEF BudgetInv, RevenueShown, StaffShown, AccountShown
<1>3. BookedRows(booked)
  <2>1. BookedRows(Revenue)
    BY <1>2, RevenueTyped DEF BudgetInv, FiguresInv
  <2> QED BY <1>2, <2>1
<1> QED BY <1>2, <1>3 DEF Tables, BudgetInv, BudgetTypes

-----------------------------------------------------------------------------
(* What always holds.                                                      *)

\* Whatever forms and calculations did before, an enrollment shown up to
\* date is what calculating it again would leave.
THEOREM EnrollmentStays == Spec => []EnrollmentIsStable
<1>1. FiguresInv => EnrollmentIsStable
  BY DEF FiguresInv
<1> QED BY <1>1, FiguresHold, PTL

\* Nationalities of a grade shown up to date add up to its headcount.
THEOREM NationalitiesAddUp == Spec => []SplitsAddUp
<1>1. FiguresInv => SplitsAddUp
  BY DEF FiguresInv
<1> QED BY <1>1, FiguresHold, PTL

\* Whatever was typed into the detail and however shares are rounded and
\* capped, the pupils who are not new are shared out exactly.
THEOREM NewPupilsAreShared == Spec => []NewPupilsAddUp
<1>1. FiguresInv => NewPupilsAddUp
  BY NewPupilsShared DEF FiguresInv
<1> QED BY <1>1, FiguresHold, PTL

\* Whatever is sent and calculated in whatever order, revenue shown up to
\* date has lost or gained nothing by being spread and rounded.
THEOREM RevenueAlwaysAddsUp == Spec => []RevenueAddsUp
<1>1. BudgetInv => RevenueAddsUp
  BY RevenueSums DEF BudgetInv, FiguresInv, RevenueShown
<1> QED BY <1>1, BudgetHolds, PTL

\* Whatever is sent and calculated in whatever order, an account shown up to
\* date counts every amount of the tables once, lines of misfit categories
\* excepted, which it counts twice or not at all; its lines add up to its
\* subtotals and zakat and net profit to its profit.
THEOREM AccountAlwaysAddsUp == Spec => []AccountAddsUp
<1>1. BudgetInv => AccountAddsUp
  <2>1. Clean({"STAFFING", "PNL"}) /\ BudgetInv => AccountAddsUp
    BY TablesShown, AccountSums
  <2>2. ~Clean({"STAFFING", "PNL"}) => AccountAddsUp
    BY DEF AccountAddsUp
  <2> QED BY <2>1, <2>2
<1> QED BY <1>1, BudgetHolds, PTL

\* An enrollment, revenue, staff costs and an account shown up to date are
\* what calculating them from the tables would give, whatever the forms
\* sent and in whatever order the calculations were asked for.
THEOREM BudgetIsCurrent == Spec => []CleanBudgetIsCurrent
<1>1. Init => StaffCurrent
  BY DEF Init, Modules, StaffCurrent, Clean
<1>2. BudgetInv /\ StaffCurrent /\ [Next]_budget => StaffCurrent'
  BY StaffCurrentKept
<1>3. BudgetInv /\ StaffCurrent => CleanBudgetIsCurrent
  BY DEF BudgetInv, FiguresInv, RevenueShown, AccountShown, StaffCurrent, CleanBudgetIsCurrent
<1> QED BY <1>1, <1>2, <1>3, BudgetHolds, PTL DEF Spec

\* So are the shares of revenue among the expenses, in a version whose rates
\* and months of a line's own were never changed by the form that marks
\* nothing.
THEOREM SharesStayCurrent ==
  Spec /\ [][~EditExpensesUnmarked]_budget => []SharesAreCurrent
<1>1. Init => SharesAreCurrent
  BY DEF Init, Modules, SharesAreCurrent
<1>2. BudgetInv /\ SharesAreCurrent /\ [Next]_budget /\ [~EditExpensesUnmarked]_budget
        => SharesAreCurrent'
  BY SharesCurrentKept
<1> QED BY <1>1, <1>2, BudgetHolds, PTL DEF Spec
=============================================================================
