-------------------------- MODULE StatisticsProofs --------------------------
(***************************************************************************)
(* Theorems about the judgement of a set of readings, for any number of    *)
(* readings, any set of floating-point numbers and any tolerances.         *)
(***************************************************************************)
EXTENDS Statistics, FiniteSetTheorems, WellFoundedInduction, TLAPS

-----------------------------------------------------------------------------
(* Arithmetic. *)

\* One more value, and a bound lowered or raised to it: what many times the bound
\* said of the sum it still says.
LEMMA OneMore ==
  ASSUME NEW n \in Nat, NEW s \in Int, NEW v \in Int, NEW a \in Int, NEW b \in Int
  PROVE  /\ n * a <= s /\ b <= a /\ b <= v => (n + 1) * b <= s + v
         /\ s <= n * a /\ a <= b /\ v <= b => s + v <= (n + 1) * b
<1>1. (n + 1) * b = n * b + b
  OBVIOUS
<1>2. b <= a => n * b <= n * a
  OBVIOUS
<1>3. a <= b => n * a <= n * b
  OBVIOUS
<1>4. n * a \in Int /\ n * b \in Int
  OBVIOUS
<1>5. QED
  BY <1>1, <1>2, <1>3, <1>4

\* A common positive factor can be dropped.
LEMMA DropFactor ==
  ASSUME NEW n \in Nat \ {0}, NEW a \in Int, NEW b \in Int, n * a <= n * b
  PROVE  a <= b
<1>1. SUFFICES ASSUME b < a PROVE FALSE
  OBVIOUS
<1>2. b + 1 <= a /\ n * (b + 1) = n * b + n
  BY <1>1
<1>3. n * (b + 1) <= n * a
  BY <1>2
<1>4. QED
  BY <1>2, <1>3

\* What is true of two numbers is true of many times both.
LEMMA TakeFactor ==
  ASSUME NEW n \in Nat, NEW a \in Int, NEW b \in Int
  PROVE  /\ a <= b => n * a <= n * b
         /\ n > 0 /\ a < b => n * a < n * b
         /\ n * a \in Int /\ n * (a - b) = n * a - n * b
<1>1. b - a \in Int /\ n * b = n * a + n * (b - a)
  OBVIOUS
<1>2. a <= b => n * (b - a) >= 0
  BY <1>1
<1>3. n > 0 /\ a < b => n * (b - a) > 0
  BY <1>1
<1>4. n * (a - b) = n * a - n * b
  OBVIOUS
<1>5. n * a \in Int /\ n * b \in Int /\ n * (b - a) \in Int
  OBVIOUS
<1>6. QED
  BY <1>1, <1>2, <1>3, <1>4, <1>5

\* A set of numbers has a least one.
LEMMA LeastNumber ==
  ASSUME NEW T \in SUBSET Nat, T # {}
  PROVE  \E n \in T : \A m \in T : n <= m
<1>1. PICK n \in T : \A m \in T : ~ (<<m, n>> \in OpToRel(<, Nat))
  BY NatLessThanWellFounded, WFMin
<1>2. \A m \in T : ~ (m < n)
  BY <1>1 DEF OpToRel
<1>3. QED
  BY <1>2

\* So does a set of integers that is bounded from below.
LEMMA LeastInteger ==
  ASSUME NEW T \in SUBSET Int, T # {}, NEW b \in Int, \A t \in T : b <= t
  PROVE  Min(T) \in T /\ \A m \in T : Min(T) <= m
<1> DEFINE N == {t - b : t \in T}
<1>1. \A t \in T : t \in Int /\ t - b \in Nat
  OBVIOUS
<1>2. N \in SUBSET Nat /\ N # {}
  BY <1>1
<1>3. PICK n \in N : \A m \in N : n <= m
  BY <1>2, LeastNumber
<1>4. PICK t \in T : n = t - b
  BY <1>3
<1>5. ASSUME NEW m \in T PROVE t <= m
  <2>1. t - b <= m - b
    BY <1>3, <1>4
  <2>2. QED
    BY <1>1, <2>1
<1>6. QED
  BY <1>5 DEF Min

\* Bounded from above it has a greatest one.
LEMMA GreatestInteger ==
  ASSUME NEW T \in SUBSET Int, T # {}, NEW b \in Int, \A t \in T : t <= b
  PROVE  Max(T) \in T /\ \A m \in T : m <= Max(T)
<1> DEFINE N == {b - t : t \in T}
<1>1. \A t \in T : t \in Int /\ b - t \in Nat
  OBVIOUS
<1>2. N \in SUBSET Nat /\ N # {}
  BY <1>1
<1>3. PICK n \in N : \A m \in N : n <= m
  BY <1>2, LeastNumber
<1>4. PICK t \in T : n = b - t
  BY <1>3
<1>5. ASSUME NEW m \in T PROVE t >= m
  <2>1. b - t <= b - m
    BY <1>3, <1>4
  <2>2. QED
    BY <1>1, <2>1
<1>6. Max(T) \in T /\ \A m \in T : Max(T) >= m
  BY <1>5 DEF Max
<1>7. QED
  BY <1>1, <1>6

-----------------------------------------------------------------------------
(* Rounding. *)

\* The types of the constants.
LEMMA ConstantsType ==
  /\ Floats \in SUBSET Int /\ 0 \in Floats
  /\ Infinite \in Nat /\ \A f \in Floats : -f \in Floats /\ f < Infinite /\ -Infinite < f
  /\ Numbers \in SUBSET Int /\ Numbers # {} /\ Floats \in SUBSET Numbers
  /\ SensorRange \in SUBSET Floats /\ SensorRange \in SUBSET Int
  /\ Repetitions \in Nat /\ Repetitions >= 2
  /\ One \in Nat /\ One > 0
  /\ AbsoluteTolerance \in Floats /\ RelativeTolerance \in Floats /\ RelativeTolerance >= 0
  /\ RepeatabilityLimit \in Floats
<1>1. /\ Floats \in SUBSET Int /\ 0 \in Floats /\ Infinite \in Int
      /\ \A f \in Floats : -f \in Floats /\ f < Infinite
  BY FloatAssumption
<1>2. \A f \in Floats : -f < Infinite /\ f \in Int
  BY <1>1
<1>3. Infinite \in Nat /\ \A f \in Floats : -Infinite < f
  BY <1>1, <1>2
<1>4. Numbers \in SUBSET Int /\ Numbers # {} /\ Floats \in SUBSET Numbers
  BY <1>1 DEF Numbers
<1>5. QED
  BY <1>1, <1>3, <1>4, FloatAssumption, ReadingAssumption, ToleranceAssumption

\* A distance is a number, the same from either side.
LEMMA DistanceIs ==
  ASSUME NEW a \in Int, NEW b \in Int
  PROVE  /\ Distance(a, b) \in Nat
         /\ a - b <= Distance(a, b) /\ b - a <= Distance(a, b)
         /\ Distance(a, b) = a - b \/ Distance(a, b) = b - a
BY DEF Distance

\* There is a nearest number.
LEMMA NearestIs ==
  ASSUME NEW a \in Int, NEW n \in Int
  PROVE  /\ Nearest(a, n) \in Numbers
         /\ \A g \in Numbers : Distance(n * Nearest(a, n), a) <= Distance(n * g, a)
<1> DEFINE D == {Distance(n * f, a) : f \in Numbers}
<1>1. \A f \in Numbers : n * f \in Int
  BY ConstantsType
<1>2. \A f \in Numbers : Distance(n * f, a) \in Nat
  BY <1>1, DistanceIs
<1>3. D \in SUBSET Nat /\ D # {}
  BY <1>2, ConstantsType
<1>4. PICK d \in D : \A e \in D : d <= e
  BY <1>3, LeastNumber
<1>5. PICK f \in Numbers : d = Distance(n * f, a)
  BY <1>4
<1>6. \A g \in Numbers : Distance(n * f, a) <= Distance(n * g, a)
  BY <1>4, <1>5
<1>7. QED
  BY <1>6 DEF Nearest

\* Rounding does not pass a number.
LEMMA NearestBounds ==
  ASSUME NEW a \in Int, NEW n \in Nat \ {0}, NEW f \in Numbers
  PROVE  /\ n * f <= a => f <= Nearest(a, n)
         /\ a <= n * f => Nearest(a, n) <= f
         /\ Nearest(a, n) > f => a > n * f
<1> DEFINE r == Nearest(a, n)
<1>1. r \in Numbers /\ Distance(n * r, a) <= Distance(n * f, a)
  BY NearestIs
<1>2. r \in Int /\ f \in Int
  BY <1>1, ConstantsType
<1> HIDE DEF r
<1>3. /\ n * r \in Int /\ n * f \in Int
      /\ r < f => n * r < n * f
      /\ f < r => n * f < n * r
  BY <1>2, TakeFactor
<1>4. n * f <= a => f <= r
  BY <1>1, <1>2, <1>3 DEF Distance
<1>5. a <= n * f => r <= f
  BY <1>1, <1>2, <1>3 DEF Distance
<1>6. QED
  BY <1>2, <1>3, <1>4, <1>5 DEF r

\* Of two numbers the nearer one is within half their distance of what lies between.
LEMMA NearestHalf ==
  ASSUME NEW a \in Int, NEW n \in Nat \ {0}, NEW f \in Numbers, NEW h \in Numbers,
         n * f <= a, a <= n * h, NEW g \in Int, h - f <= g
  PROVE  2 * Distance(n * Nearest(a, n), a) <= n * g
<1> DEFINE d == Distance(n * Nearest(a, n), a)
<1>1. /\ f \in Int /\ h \in Int /\ Nearest(a, n) \in Int
      /\ d <= Distance(n * f, a) /\ d <= Distance(n * h, a)
  <2>1. Nearest(a, n) \in Numbers /\ \A e \in Numbers : d <= Distance(n * e, a)
    BY NearestIs
  <2>2. QED
    BY <2>1, ConstantsType
<1>2. n * f \in Int /\ n * h \in Int /\ n * Nearest(a, n) \in Int /\ n * g \in Int
  BY <1>1
<1>3. n * (h - f) <= n * g /\ n * (h - f) = n * h - n * f
  BY <1>1, TakeFactor
<1>4. d \in Nat
  BY <1>2, DistanceIs
<1> HIDE DEF d
<1>5. Distance(n * f, a) = a - n * f /\ Distance(n * h, a) = n * h - a
  BY <1>2 DEF Distance
<1>6. 2 * d <= n * g
  BY <1>1, <1>2, <1>3, <1>4, <1>5
<1>7. QED
  BY <1>6 DEF d

\* What a scale is: neighbouring numbers up to its last multiple are at most its gap
\* apart.
LEMMA ScaleIs ==
  ASSUME NEW scale \in Scales
  PROVE  /\ scale.size \in Floats /\ scale.size \in Nat /\ scale.size > 0
         /\ \A k \in 1 .. Repetitions : k * scale.size \in Floats
         /\ scale.gap \in Nat
         /\ \A f \in Floats :
              -(Repetitions * scale.size) <= f /\ f < Repetitions * scale.size =>
                /\ Successor(f) \in Floats /\ f < Successor(f)
                /\ \A h \in Floats : f < h => Successor(f) <= h
                /\ Successor(f) - f <= scale.gap
<1>1. PICK q \in Sizes : scale = [size |-> q, gap |-> Gap(q)]
  BY DEF Scales
<1>2. /\ scale.size = q /\ scale.gap = Gap(q)
      /\ q \in Floats /\ q \in Nat /\ q > 0 /\ \A k \in 1 .. Repetitions : k * q \in Floats
  BY <1>1, ConstantsType DEF Sizes
<1> DEFINE top == Repetitions * q
           below == {f \in Floats : -top <= f /\ f < top}
           Steps == {Successor(f) - f : f \in below}
<1>3. top \in Floats /\ -top \in Floats /\ top \in Nat /\ top > 0
  <2>1. Repetitions \in 1 .. Repetitions
    BY ConstantsType
  <2>2. top > 0
    BY <1>2, ConstantsType
  <2>3. QED
    BY <1>2, <2>1, <2>2, ConstantsType
<1>4. Gap(q) = Max(Steps)
  BY DEF Gap
<1> HIDE DEF top
<1>5. ASSUME NEW f \in below
      PROVE  /\ Successor(f) \in Floats /\ f < Successor(f) /\ Successor(f) <= top
             /\ \A h \in Floats : f < h => Successor(f) <= h
  <2> DEFINE T == {h \in Floats : f < h}
  <2>1. f \in Int /\ T \in SUBSET Int /\ top \in T /\ \A t \in T : f <= t
    <3>1. f \in Floats /\ f < top
      OBVIOUS
    <3>2. \A h \in Floats : h \in Int
      BY ConstantsType
    <3>3. top \in T
      BY <1>3, <3>1
    <3>4. \A t \in T : t \in Int /\ f <= t
      BY <3>1, <3>2
    <3>5. QED
      BY <3>1, <3>2, <3>3, <3>4
  <2>2. Min(T) \in T /\ \A h \in T : Min(T) <= h
    BY <2>1, LeastInteger
  <2>3. Successor(f) = Min(T)
    BY DEF Successor
  <2> HIDE DEF T
  <2>4. Successor(f) \in T /\ \A h \in T : Successor(f) <= h
    BY <2>2, <2>3
  <2>5. QED
    BY <2>1, <2>4 DEF T
<1>6. Steps \in SUBSET Int /\ \A d \in Steps : 0 <= d /\ d <= top + top
  <2>1. ASSUME NEW f \in below
        PROVE  Successor(f) - f \in 0 .. top + top
    <3>1. f \in Int /\ Successor(f) \in Int /\ -top <= f
      BY <1>5, ConstantsType
    <3>2. QED
      BY <1>3, <1>5, <3>1
  <2>2. QED
    BY <1>3, <2>1
<1>7. Steps # {}
  <2>1. -top \in below
    BY <1>3
  <2>2. QED
    BY <2>1
<1>8. Max(Steps) \in Steps /\ \A d \in Steps : d <= Max(Steps)
  <2> HIDE DEF Steps
  <2>1. top + top \in Int
    BY <1>3
  <2>2. QED
    BY <1>6, <1>7, <2>1, GreatestInteger
<1>9. Gap(q) \in Nat
  <2>1. Max(Steps) \in Int /\ 0 <= Max(Steps)
    <3> HIDE DEF Steps
    <3>1. QED
      BY <1>6, <1>8
  <2>2. QED
    BY <1>4, <2>1
<1>10. ASSUME NEW f \in Floats, -top <= f, f < top
       PROVE  /\ Successor(f) \in Floats /\ f < Successor(f)
              /\ \A h \in Floats : f < h => Successor(f) <= h
              /\ Successor(f) - f <= Gap(q)
  <2>1. f \in below
    BY <1>10
  <2>2. Successor(f) - f \in Steps
    BY <2>1
  <2>3. QED
    BY <1>4, <1>5, <1>8, <2>1, <2>2
<1>11. QED
  BY <1>2, <1>9, <1>10 DEF top

\* Within a scale rounding moves a result by half a gap at most.
LEMMA NearestWithin ==
  ASSUME NEW scale \in Scales, NEW n \in Nat \ {0}, NEW a \in Int,
         n * (-(Repetitions * scale.size)) <= a, a <= n * (Repetitions * scale.size)
  PROVE  2 * Distance(n * Nearest(a, n), a) <= n * scale.gap
<1> DEFINE top == Repetitions * scale.size
           L == {f \in Floats : -top <= f /\ f <= top /\ n * f <= a}
           lo == Max(L)
<1>1. top \in Floats /\ -top \in Floats /\ top \in Nat
  BY ScaleIs, ConstantsType
<1>2. scale.gap \in Nat
  BY ScaleIs
<1>3. /\ n * (-top) <= a /\ a <= n * top
      /\ \A f \in Floats : -top <= f /\ f < top =>
           /\ Successor(f) \in Floats /\ f < Successor(f)
           /\ \A h \in Floats : f < h => Successor(f) <= h
           /\ Successor(f) - f <= scale.gap
  BY ScaleIs
<1> HIDE DEF top
<1>4. L \in SUBSET Int /\ L # {} /\ \A f \in L : f <= top
  <2>1. -top \in L
    BY <1>1, <1>3
  <2>2. QED
    BY <2>1, ConstantsType
<1>5. lo \in L /\ \A f \in L : f <= lo
  <2> HIDE DEF L
  <2>1. QED
    BY <1>1, <1>4, GreatestInteger
<1> HIDE DEF lo
<1>6. lo \in Floats /\ lo \in Int /\ lo \in Numbers /\ top \in Numbers
  BY <1>1, <1>5, ConstantsType
<1>7. CASE lo = top
  <2>1. n * lo <= a /\ a <= n * lo /\ lo - lo <= scale.gap /\ scale.gap \in Int
    BY <1>2, <1>3, <1>5, <1>6, <1>7
  <2>2. QED
    BY <1>6, <2>1, NearestHalf
<1>8. CASE lo # top
  <2> DEFINE hi == Successor(lo)
  <2>1. lo < top /\ -top <= lo
    BY <1>1, <1>5, <1>6, <1>8
  <2>2. hi \in Floats /\ lo < hi /\ hi <= top /\ hi - lo <= scale.gap
    BY <1>1, <1>3, <1>6, <2>1
  <2> HIDE DEF hi
  <2>3. hi \in Int /\ hi \in Numbers
    BY <2>2, ConstantsType
  <2>4. hi \notin L
    BY <1>5, <1>6, <2>2, <2>3
  <2>5. ~ (n * hi <= a)
    BY <1>1, <1>6, <2>1, <2>2, <2>3, <2>4
  <2>6. n * hi \in Int
    BY <2>3
  <2>7. a <= n * hi
    BY <2>5, <2>6
  <2>8. QED
    <3>1. n * lo <= a /\ scale.gap \in Int
      BY <1>2, <1>5
    <3>2. QED
      BY <1>6, <2>2, <2>3, <2>7, <3>1, NearestHalf
<1>9. QED
  BY <1>7, <1>8

-----------------------------------------------------------------------------
(* The total of the readings.  A fold takes the members of a set in the order in  *)
(* which CHOOSE gives them; the loop takes the readings in turn.                   *)

Chosen(s) == CHOOSE i \in s : TRUE

\* The sum of r over a set of its indices, as the fold computes it: an index is
\* taken out of the set, whichever CHOOSE gives.
Unfolded(r, g, s) == IF s = {} THEN 0 ELSE r[Chosen(s)] + g[s \ {Chosen(s)}]

SumOver(r) == CHOOSE g : g = [s \in SUBSET DOMAIN r |-> Unfolded(r, g, s)]

\* Total is the sum over all indices.
LEMMA TotalIsSum == Total = SumOver(readings)[DOMAIN readings]
BY DEF Total, FoldFunction, FoldFunctionOnSet, MapThenFoldSet, SumOver, Unfolded, Chosen

\* A set of subsets of a finite set is the set of them all when it holds every one
\* whose smaller fellows it holds: a least one left out would not be left out.
LEMMA AllSubsets ==
  ASSUME NEW D, IsFiniteSet(D), NEW B \in SUBSET SUBSET D,
         \A s \in SUBSET D :
           (\A t \in SUBSET D : Cardinality(t) < Cardinality(s) => t \in B) => s \in B
  PROVE  B = SUBSET D
<1>1. SUFFICES ASSUME NEW s0 \in SUBSET D, s0 \notin B PROVE FALSE
  OBVIOUS
<1>2. \A s \in SUBSET D : Cardinality(s) \in Nat
  BY FS_Subset, FS_CardinalityType
<1> DEFINE Counts == {Cardinality(s) : s \in (SUBSET D) \ B}
<1>3. Counts \in SUBSET Nat /\ Counts # {}
  BY <1>1, <1>2
<1>4. PICK n \in Counts : \A m \in Counts : n <= m
  BY <1>3, LeastNumber
<1>5. PICK s \in (SUBSET D) \ B : n = Cardinality(s)
  BY <1>4
<1>6. ASSUME NEW t \in SUBSET D, Cardinality(t) < Cardinality(s) PROVE t \in B
  <2>1. SUFFICES ASSUME t \notin B PROVE FALSE
    OBVIOUS
  <2>2. Cardinality(t) \in Counts
    BY <2>1
  <2>3. n <= Cardinality(t)
    BY <1>4, <2>2
  <2>4. Cardinality(t) \in Nat /\ Cardinality(s) \in Nat
    BY <1>2
  <2>5. QED
    BY <1>5, <1>6, <2>3, <2>4
<1>7. QED
  BY <1>5, <1>6

\* A member taken out of a subset of a finite set leaves a smaller one.
LEMMA SmallerSet ==
  ASSUME NEW D, IsFiniteSet(D), NEW s \in SUBSET D, NEW x \in s
  PROVE  /\ s \ {x} \in SUBSET D
         /\ Cardinality(s) \in Nat \ {0}
         /\ Cardinality(s \ {x}) = Cardinality(s) - 1
BY FS_Subset, FS_RemoveElement, FS_CardinalityType, FS_EmptySet

\* What is chosen from a set is in it.
LEMMA ChosenIn == \A s : s # {} => Chosen(s) \in s
BY DEF Chosen

\* There is a function that sums up as the fold does: one that does so for sets of up
\* to any size exists, or there were a least size for which none does.
LEMMA SumExists ==
  ASSUME NEW D, IsFiniteSet(D), NEW r \in [D -> Int]
  PROVE  \E g \in [SUBSET D -> Int] : \A s \in SUBSET D : g[s] = Unfolded(r, g, s)
<1> DEFINE Good(g, n) == \A s \in SUBSET D : Cardinality(s) <= n => g[s] = Unfolded(r, g, s)
           Bad == {n \in Nat : ~ \E g \in [SUBSET D -> Int] : Good(g, n)}
<1>0. \A s \in SUBSET D : IsFiniteSet(s) /\ Cardinality(s) \in Nat /\ Cardinality(s) <= Cardinality(D)
  BY FS_Subset, FS_CardinalityType
<1>1. 0 \notin Bad
  <2> DEFINE g == [s \in SUBSET D |-> 0]
  <2>1. g \in [SUBSET D -> Int]
    OBVIOUS
  <2>2. ASSUME NEW s \in SUBSET D, Cardinality(s) <= 0
        PROVE  g[s] = Unfolded(r, g, s)
    BY <1>0, <2>2, FS_EmptySet DEF Unfolded
  <2>3. QED
    BY <2>1, <2>2
<1>2. ASSUME NEW n \in Nat, n \notin Bad
      PROVE  n + 1 \notin Bad
  <2>1. PICK g \in [SUBSET D -> Int] : Good(g, n)
    BY <1>2
  <2> DEFINE h == [s \in SUBSET D |-> IF Cardinality(s) <= n THEN g[s] ELSE Unfolded(r, g, s)]
  <2>2. ASSUME NEW s \in SUBSET D
        PROVE  /\ Unfolded(r, g, s) \in Int
               /\ Cardinality(s) <= n + 1 => Unfolded(r, h, s) = Unfolded(r, g, s)
    <3>1. CASE s = {}
      BY <3>1 DEF Unfolded
    <3>2. CASE s # {}
      <4> DEFINE t == s \ {Chosen(s)}
      <4>1. /\ t \in SUBSET D /\ Chosen(s) \in D /\ Cardinality(t) = Cardinality(s) - 1
            /\ Cardinality(s) \in Nat
        BY <1>0, <3>2, ChosenIn, SmallerSet
      <4>2. r[Chosen(s)] \in Int /\ g[t] \in Int
        BY <4>1
      <4>3. Cardinality(s) <= n + 1 => h[t] = g[t]
        BY <4>1
      <4> HIDE DEF h, t
      <4>4. QED
        BY <3>2, <4>2, <4>3 DEF Unfolded, t
    <3>3. QED
      BY <3>1, <3>2
  <2>3. h \in [SUBSET D -> Int]
    BY <2>2
  <2>4. ASSUME NEW s \in SUBSET D, Cardinality(s) <= n + 1
        PROVE  h[s] = Unfolded(r, h, s)
    <3>1. h[s] = Unfolded(r, g, s)
      BY <2>1
    <3>2. QED
      BY <2>2, <2>4, <3>1
  <2>5. Good(h, n + 1)
    BY <2>4
  <2> HIDE DEF h, Good
  <2>6. QED
    BY <2>3, <2>5
<1>3. Bad = {}
  <2>1. SUFFICES ASSUME Bad # {} PROVE FALSE
    OBVIOUS
  <2> HIDE DEF Bad
  <2>2. Bad \in SUBSET Nat
    BY DEF Bad
  <2>3. PICK n \in Bad : \A m \in Bad : n <= m
    BY <2>1, <2>2, LeastNumber
  <2>4. n \in Nat /\ n # 0
    BY <1>1, <2>2, <2>3
  <2>5. n - 1 \in Nat /\ n - 1 \notin Bad
    BY <2>2, <2>3, <2>4
  <2>6. n - 1 + 1 \notin Bad
    BY <1>2, <2>5
  <2>7. QED
    BY <2>3, <2>4, <2>6
<1>4. Cardinality(D) \in Nat /\ Cardinality(D) \notin Bad
  BY <1>0, <1>3
<1>5. PICK g \in [SUBSET D -> Int] : Good(g, Cardinality(D))
  BY <1>4
<1>6. QED
  BY <1>0, <1>5

\* So the fold computes a sum.
LEMMA SumUnfolds ==
  ASSUME NEW D, IsFiniteSet(D), NEW r \in [D -> Int]
  PROVE  /\ SumOver(r) \in [SUBSET D -> Int]
         /\ \A s \in SUBSET D : SumOver(r)[s] = Unfolded(r, SumOver(r), s)
<1> DEFINE Is(g) == g = [s \in SUBSET DOMAIN r |-> Unfolded(r, g, s)]
<1>1. PICK g \in [SUBSET D -> Int] : \A s \in SUBSET D : g[s] = Unfolded(r, g, s)
  BY SumExists
<1>2. DOMAIN r = D
  OBVIOUS
<1>3. Is(g)
  BY <1>1, <1>2
<1>4. SumOver(r) = CHOOSE h : Is(h)
  BY DEF SumOver
<1>5. Is(SumOver(r))
  BY <1>3, <1>4
<1>6. \A s \in SUBSET D : SumOver(r)[s] = Unfolded(r, SumOver(r), s)
  BY <1>2, <1>5
<1>7. SumOver(r) = [s \in SUBSET D |-> Unfolded(r, SumOver(r), s)]
  BY <1>2, <1>5
<1> DEFINE B == {s \in SUBSET D : SumOver(r)[s] \in Int}
<1>8. ASSUME NEW s \in SUBSET D,
             \A t \in SUBSET D : Cardinality(t) < Cardinality(s) => t \in B
      PROVE  s \in B
  <2>1. CASE s = {}
    <3>1. SumOver(r)[s] = 0
      BY <1>6, <2>1 DEF Unfolded
    <3>2. QED
      BY <3>1
  <2>2. CASE s # {}
    <3>1. Chosen(s) \in s
      BY <2>2, ChosenIn
    <3>2. /\ s \ {Chosen(s)} \in SUBSET D
          /\ Cardinality(s \ {Chosen(s)}) < Cardinality(s)
      BY <3>1, SmallerSet
    <3>3. SumOver(r)[s \ {Chosen(s)}] \in Int /\ r[Chosen(s)] \in Int
      BY <1>8, <3>1, <3>2
    <3>4. SumOver(r)[s] = r[Chosen(s)] + SumOver(r)[s \ {Chosen(s)}]
      BY <1>6, <2>2 DEF Unfolded
    <3>5. QED
      BY <3>3, <3>4
  <2>3. QED
    BY <2>1, <2>2
<1>9. B = SUBSET D
  <2> HIDE DEF B
  <2>1. B \in SUBSET SUBSET D
    BY DEF B
  <2>2. QED
    BY <1>8, <2>1, AllSubsets
<1>10. QED
  BY <1>6, <1>7, <1>9

\* Any index may be taken out first: the sum does not depend on the order.
LEMMA SumTakesAny ==
  ASSUME NEW D, IsFiniteSet(D), NEW r \in [D -> Int]
  PROVE  \A s \in SUBSET D : \A x \in s : SumOver(r)[s] = SumOver(r)[s \ {x}] + r[x]
<1> DEFINE f == SumOver(r)
           B == {s \in SUBSET D : \A x \in s : f[s] = f[s \ {x}] + r[x]}
<1>1. /\ f \in [SUBSET D -> Int]
      /\ \A s \in SUBSET D : f[s] = Unfolded(r, f, s)
  BY SumUnfolds
<1> HIDE DEF f
<1>2. ASSUME NEW s \in SUBSET D, NEW x \in s,
             \A t \in SUBSET D : Cardinality(t) < Cardinality(s) => t \in B
      PROVE  f[s] = f[s \ {x}] + r[x]
  <2> DEFINE c == Chosen(s)
  <2>1. c \in s
    BY ChosenIn
  <2>2. f[s] = r[c] + f[s \ {c}]
    BY <1>1 DEF Unfolded
  <2> HIDE DEF c
  <2>3. /\ s \ {c} \in SUBSET D /\ Cardinality(s \ {c}) < Cardinality(s)
        /\ s \ {x} \in SUBSET D /\ Cardinality(s \ {x}) < Cardinality(s)
    BY <2>1, SmallerSet
  <2>4. /\ r[c] \in Int /\ r[x] \in Int
        /\ f[s \ {c}] \in Int /\ f[s \ {x}] \in Int
    BY <1>1, <2>1, <2>3
  <2>5. CASE x = c
    BY <2>2, <2>4, <2>5
  <2>6. CASE x # c
    <3> DEFINE both == (s \ {c}) \ {x}
    <3>1. both = (s \ {x}) \ {c} /\ both \in SUBSET D
      OBVIOUS
    <3>2. f[s \ {c}] = f[both] + r[x]
      BY <1>2, <2>3, <2>6
    <3>3. f[s \ {x}] = f[both] + r[c]
      BY <1>2, <2>1, <2>3, <2>6, <3>1
    <3>4. f[both] \in Int
      BY <1>1, <3>1
    <3> HIDE DEF both
    <3>5. QED
      BY <2>2, <2>4, <3>2, <3>3, <3>4
  <2>7. QED
    BY <2>5, <2>6
<1>3. \A s \in SUBSET D :
        (\A t \in SUBSET D : Cardinality(t) < Cardinality(s) => t \in B) => s \in B
  BY <1>2
<1>4. B = SUBSET D
  <2>1. B \in SUBSET SUBSET D
    OBVIOUS
  <2> HIDE DEF B
  <2>2. QED
    BY <1>3, <2>1, AllSubsets
<1>5. QED
  BY <1>4 DEF f

\* The sum of the readings is a number, that of none is 0, and one more reading adds
\* its value.
LEMMA ReadingsSum ==
  ASSUME readings \in [1 .. Repetitions -> SensorRange]
  PROVE  /\ SumOver(readings) \in [SUBSET (1 .. Repetitions) -> Int]
         /\ SumOver(readings)[{}] = 0
         /\ \A n \in 1 .. Repetitions :
              SumOver(readings)[1 .. n] = SumOver(readings)[1 .. n - 1] + readings[n]
<1> DEFINE D == 1 .. Repetitions
           f == SumOver(readings)
<1>1. Repetitions \in Nat /\ SensorRange \in SUBSET Int
  BY ConstantsType
<1>2. IsFiniteSet(D)
  BY <1>1, FS_Interval
<1>3. readings \in [D -> Int]
  BY <1>1
<1> HIDE DEF D
<1>4. /\ f \in [SUBSET D -> Int]
      /\ \A s \in SUBSET D : f[s] = Unfolded(readings, f, s)
  BY <1>2, <1>3, SumUnfolds
<1>5. f[{}] = 0
  BY <1>4 DEF Unfolded
<1>6. \A s \in SUBSET D : \A x \in s : f[s] = f[s \ {x}] + readings[x]
  BY <1>2, <1>3, SumTakesAny
<1>7. ASSUME NEW n \in D PROVE f[1 .. n] = f[1 .. n - 1] + readings[n]
  <2>1. 1 .. n \in SUBSET D /\ n \in 1 .. n /\ (1 .. n) \ {n} = 1 .. n - 1
    BY <1>1 DEF D
  <2>2. QED
    BY <1>6, <2>1
<1>8. QED
  BY <1>4, <1>5, <1>7 DEF D

-----------------------------------------------------------------------------
(* The loop. *)

\* The exact sum of the first k readings.
Part(k) == SumOver(readings)[1 .. k]

\* It grows by one reading at a time, up to the total.
LEMMA PartIs ==
  ASSUME readings \in [1 .. Repetitions -> SensorRange]
  PROVE  /\ Part(0) = 0 /\ \A k \in 0 .. Repetitions : Part(k) \in Int
         /\ \A k \in 1 .. Repetitions : Part(k) = Part(k - 1) + readings[k]
         /\ Total = Part(Repetitions)
<1>1. Repetitions \in Nat
  BY ConstantsType
<1>2. 1 .. 0 = {} /\ \A k \in 0 .. Repetitions : 1 .. k \in SUBSET (1 .. Repetitions)
  BY <1>1
<1>3. DOMAIN readings = 1 .. Repetitions
  OBVIOUS
<1>4. QED
  BY <1>2, <1>3, ReadingsSum, TotalIsSum DEF Part

Result ==
  [mean |-> Mean, absoluteError |-> AbsoluteError(Mean),
   relativeError |-> RelativeError(AbsoluteError(Mean)), spread |-> Spread]

\* Inductive.  The readings looked at lie between the least and the greatest of them,
\* and so does their exact sum, counted as often; what is returned is computed from them.
LoopInv ==
  /\ reference \in SensorRange
  /\ readings \in [1 .. Repetitions -> SensorRange]
  /\ next \in 1 .. Repetitions + 1
  /\ sum \in Numbers /\ min \in Floats /\ max \in Floats
  /\ \A i \in 1 .. next - 1 : min <= readings[i] /\ readings[i] <= max
  /\ \E i \in 1 .. Repetitions : readings[i] = min
  /\ \E i \in 1 .. Repetitions : readings[i] = max
  /\ (next - 1) * min <= Part(next - 1) /\ Part(next - 1) <= (next - 1) * max
  /\ returned \in BOOLEAN
  /\ returned => next = Repetitions + 1 /\ statistics = Result

\* Nothing has been looked at.
LEMMA LoopInit == Init => LoopInv
<1> SUFFICES ASSUME Init PROVE LoopInv
  OBVIOUS
<1>1. Repetitions \in Nat /\ Repetitions >= 2 /\ 1 \in 1 .. Repetitions
  BY ConstantsType
<1>2. readings[1] \in SensorRange /\ readings[1] \in Floats /\ readings[1] \in Int
  BY <1>1, ConstantsType DEF Init
<1>3. 0 * min = 0 /\ 0 * max = 0
  BY <1>2 DEF Init, Start
<1>4. Part(0) = 0
  BY PartIs DEF Init
<1>5. sum \in Numbers
  BY ConstantsType DEF Init, Start
<1>6. next - 1 = 0
  BY DEF Init
<1>7. /\ \E i \in 1 .. Repetitions : readings[i] = min
      /\ \E i \in 1 .. Repetitions : readings[i] = max
  BY <1>1 DEF Init, Start
<1>8. (next - 1) * min <= Part(next - 1) /\ Part(next - 1) <= (next - 1) * max
  BY <1>3, <1>4, <1>6
<1>9. next \in 1 .. Repetitions + 1 /\ 1 .. next - 1 = {}
  BY <1>1 DEF Init
<1>10. QED
  BY <1>2, <1>5, <1>7, <1>8, <1>9 DEF Init, Start, LoopInv

\* What one more reading does, whatever the sum: a fact of each step of the loop.
LEMMA LookFacts ==
  ASSUME LoopInv, Look
  PROVE  /\ next \in 1 .. Repetitions /\ next' = next + 1 /\ next - 1 \in Nat
         /\ readings[next] \in Floats /\ readings[next] \in Int
         /\ Part(next) = Part(next - 1) + readings[next]
         /\ Part(next - 1) \in Int /\ (Part(next - 1))' = Part(next)
         /\ sum' = Plus(sum, readings[next])
         /\ UNCHANGED <<reference, readings>>
<1>1. /\ next \in 1 .. Repetitions /\ next' = next + 1
      /\ UNCHANGED <<reference, readings>> /\ sum' = Plus(sum, readings[next])
  BY ConstantsType DEF LoopInv, Look
<1>2. readings[next] \in Floats /\ readings[next] \in Int
  BY <1>1, ConstantsType DEF LoopInv
<1>3. next - 1 \in Nat /\ next - 1 \in 0 .. Repetitions /\ next' - 1 = next
  BY <1>1, ConstantsType
<1>4. Part(next) = Part(next - 1) + readings[next] /\ Part(next - 1) \in Int
  BY <1>1, <1>3, PartIs DEF LoopInv
<1>5. (Part(next - 1))' = Part(next)
  BY <1>1, <1>3 DEF Part
<1>6. QED
  BY <1>1, <1>2, <1>3, <1>4, <1>5

\* The loop keeps the readings and their sum between the bounds.
LEMMA LoopNext == LoopInv /\ [Next]_vars => LoopInv'
<1> SUFFICES ASSUME LoopInv, [Next]_vars PROVE LoopInv'
  OBVIOUS
<1>1. CASE UNCHANGED vars
  BY <1>1 DEF vars, LoopInv, Part, Result, Mean, AbsoluteError, RelativeError, Spread
<1>2. CASE Look
  <2> DEFINE value == readings[next]
             k == next - 1
             before == Part(next - 1)
  <2>1. /\ next \in 1 .. Repetitions /\ next' = next + 1 /\ k \in Nat
        /\ value \in Floats /\ value \in Int /\ before \in Int
        /\ (Part(next - 1))' = before + value
        /\ sum' = Plus(sum, value)
        /\ UNCHANGED <<reference, readings>>
    BY <1>2, LookFacts
  <2>2. /\ min' = IF value < min THEN value ELSE min
        /\ max' = IF value > max THEN value ELSE max
        /\ UNCHANGED <<statistics, returned>>
    BY <1>2 DEF Look
  <2>3. min \in Floats /\ max \in Floats /\ min \in Int /\ max \in Int
    BY ConstantsType DEF LoopInv
  <2>4. k * min <= before /\ before <= k * max
    BY DEF LoopInv
  <2>5. next' - 1 = k + 1
    BY <2>1
  <2>6. Repetitions \in Nat
    BY ConstantsType
  <2> HIDE DEF value, k, before
  <2>7. /\ min' \in Floats /\ min' \in Int /\ min' <= min /\ min' <= value
        /\ max' \in Floats /\ max' \in Int /\ max <= max' /\ value <= max'
    BY <2>1, <2>2, <2>3
  <2>8. ASSUME NEW i \in 1 .. next' - 1
        PROVE  min' <= readings[i] /\ readings[i] <= max'
    <3>1. CASE i = next
      BY <2>7, <3>1 DEF value
    <3>2. CASE i # next
      <4>1. i \in 1 .. next - 1 /\ i \in 1 .. Repetitions
        BY <2>1, <2>6, <3>2
      <4>2. min <= readings[i] /\ readings[i] <= max /\ readings[i] \in Int
        BY <4>1, ConstantsType DEF LoopInv
      <4>3. QED
        BY <2>3, <2>7, <4>2
    <3>3. QED
      BY <3>1, <3>2
  <2>9. /\ \E i \in 1 .. Repetitions : readings'[i] = min'
        /\ \E i \in 1 .. Repetitions : readings'[i] = max'
    BY <2>1, <2>2 DEF LoopInv, value
  <2>10. /\ (next' - 1) * min' <= (Part(next - 1))'
         /\ (Part(next - 1))' <= (next' - 1) * max'
    <3>1. (k + 1) * min' <= before + value
      BY <2>1, <2>3, <2>4, <2>7, OneMore
    <3>2. before + value <= (k + 1) * max'
      BY <2>1, <2>3, <2>4, <2>7, OneMore
    <3>3. QED
      BY <2>1, <2>5, <3>1, <3>2
  <2>11. sum' \in Numbers
    <3>1. CASE sum \in Floats
      <4>1. sum + value \in Int
        BY <2>1, <3>1, ConstantsType
      <4>2. QED
        BY <2>1, <3>1, <4>1, NearestIs DEF Plus
    <3>2. CASE sum \notin Floats
      BY <2>1, <3>2 DEF Plus, LoopInv
    <3>3. QED
      BY <3>1, <3>2
  <2>12. (/\ returned \in BOOLEAN
          /\ returned => next = Repetitions + 1 /\ statistics = Result)'
    <3>1. next # Repetitions + 1
      BY <2>1, <2>6
    <3>2. returned = FALSE
      BY <3>1 DEF LoopInv
    <3>3. returned' = FALSE
      BY <2>2, <3>2
    <3>4. QED
      BY <3>3
  <2>13. next' \in 1 .. Repetitions + 1
    BY <2>1, <2>6
  <2>14. (/\ reference \in SensorRange
          /\ readings \in [1 .. Repetitions -> SensorRange])'
    BY <2>1 DEF LoopInv
  <2>15. (\A i \in 1 .. next - 1 : min <= readings[i] /\ readings[i] <= max)'
    BY <2>1, <2>8
  <2>16. ((next - 1) * min <= Part(next - 1) /\ Part(next - 1) <= (next - 1) * max)'
    BY <2>10
  <2>17. QED
    BY <2>7, <2>9, <2>11, <2>12, <2>13, <2>14, <2>15, <2>16 DEF LoopInv
<1>3. CASE Finish
  <2>1. UNCHANGED <<reference, readings, next, sum, min, max>> /\ returned' = TRUE
    BY <1>3 DEF Finish
  <2>2. next = Repetitions + 1 /\ statistics' = Result
    BY <1>3 DEF Finish, Result
  <2>3. Result' = Result
    BY <2>1 DEF Result, Mean, AbsoluteError, RelativeError, Spread
  <2>4. (Part(next - 1))' = Part(next - 1)
    BY <2>1 DEF Part
  <2>5. QED
    BY <2>1, <2>2, <2>3, <2>4 DEF LoopInv
<1>4. QED
  BY <1>1, <1>2, <1>3 DEF Next

-----------------------------------------------------------------------------
(* How far rounding moves the results. *)

\* Inductive with LoopInv.  Where a scale covers the readings the sum is finite, no
\* larger than its size as often as readings were looked at, and off the exact sum by
\* half a gap for each.
DriftInv ==
  \A scale \in Scales :
    Covers(scale) =>
      /\ sum \in Floats
      /\ -((next - 1) * scale.size) <= sum /\ sum <= (next - 1) * scale.size
      /\ 2 * Distance(sum, Part(next - 1)) <= (next - 1) * scale.gap

\* Nothing has been added.
LEMMA DriftInit == Init => DriftInv
<1> SUFFICES ASSUME Init, NEW scale \in Scales
             PROVE  /\ sum \in Floats
                    /\ -((next - 1) * scale.size) <= sum /\ sum <= (next - 1) * scale.size
                    /\ 2 * Distance(sum, Part(next - 1)) <= (next - 1) * scale.gap
  BY DEF DriftInv
<1>1. sum = 0 /\ next - 1 = 0 /\ sum \in Floats
  BY ConstantsType DEF Init, Start
<1>2. Part(0) = 0
  BY PartIs DEF Init
<1>3. 0 * scale.size = 0 /\ 0 * scale.gap = 0
  BY ScaleIs
<1>4. Distance(0, 0) = 0
  BY DEF Distance
<1>5. QED
  BY <1>1, <1>2, <1>3, <1>4

\* One more addition: the sum stays within the next multiple of the size, which is a
\* number, and moves by half a gap.
LEMMA DriftNext == LoopInv /\ DriftInv /\ [Next]_vars => DriftInv'
<1> SUFFICES ASSUME LoopInv, DriftInv, [Next]_vars PROVE DriftInv'
  OBVIOUS
<1>1. CASE UNCHANGED vars \/ Finish
  <2>1. UNCHANGED <<reference, readings, next, sum>>
    BY <1>1 DEF vars, Finish
  <2>2. QED
    BY <2>1 DEF DriftInv, Covers, Part
<1>2. CASE Look
  <2> SUFFICES ASSUME NEW scale \in Scales, Covers(scale)'
               PROVE  /\ sum' \in Floats
                      /\ -((next' - 1) * scale.size) <= sum'
                      /\ sum' <= (next' - 1) * scale.size
                      /\ 2 * Distance(sum', (Part(next - 1))') <= (next' - 1) * scale.gap
    BY DEF DriftInv
  <2> DEFINE value == readings[next]
             k == next - 1
             before == Part(next - 1)
             q == scale.size
             g == scale.gap
  <2>1. /\ next \in 1 .. Repetitions /\ next' - 1 = next /\ next = k + 1 /\ k \in Nat
        /\ value \in Int /\ before \in Int
        /\ (Part(next - 1))' = before + value
        /\ sum' = Plus(sum, value)
    <3>1. /\ next \in 1 .. Repetitions /\ next' = next + 1 /\ k \in Nat
          /\ value \in Int /\ before \in Int
          /\ (Part(next - 1))' = before + value
          /\ sum' = Plus(sum, value)
      BY <1>2, LookFacts
    <3>2. QED
      BY <3>1
  <2>2. Covers(scale)
    BY <1>2, LookFacts DEF Covers
  <2>3. q \in Nat /\ g \in Nat /\ next * q \in Floats
    BY <2>1, ScaleIs
  <2>4. sum \in Floats /\ sum \in Int
    BY <2>2, ConstantsType DEF DriftInv
  <2>5. -(k * q) <= sum /\ sum <= k * q /\ 2 * Distance(sum, before) <= k * g
    BY <2>2 DEF DriftInv
  <2>6. -q <= value /\ value <= q
    <3>1. Distance(value, 0) <= q
      BY <2>1, <2>2 DEF Covers
    <3>2. QED
      BY <2>1, <2>3, <3>1 DEF Distance
  <2>7. sum' = Nearest(sum + value, 1)
    BY <2>1, <2>4 DEF Plus
  <2>8. next * q \in Numbers /\ -(next * q) \in Numbers
    BY <2>3, ConstantsType
  <2>9. Repetitions * q \in Int /\ next * q <= Repetitions * q
    <3>1. q * next <= q * Repetitions
      BY <2>1, <2>3, ConstantsType, TakeFactor
    <3>2. q * next = next * q /\ q * Repetitions = Repetitions * q
      BY <2>1, <2>3, ConstantsType
    <3>3. QED
      BY <2>1, <2>3, <3>1, <3>2, ConstantsType
  <2>10. 2 * Distance(1 * Nearest(sum + value, 1), sum + value) <= 1 * g
    <3> HIDE DEF value, k, before, q, g
    <3>1. k * q \in Int /\ next * q = k * q + q
      BY <2>1, <2>3
    <3>2. -(Repetitions * q) <= sum + value /\ sum + value <= Repetitions * q
      BY <2>1, <2>3, <2>4, <2>5, <2>6, <2>9, <3>1
    <3>3. sum + value \in Int /\ 1 * (-(Repetitions * q)) = -(Repetitions * q)
          /\ 1 * (Repetitions * q) = Repetitions * q
      BY <2>1, <2>4, <2>9
    <3>4. QED
      BY <3>2, <3>3, NearestWithin DEF q, g
  <2> HIDE DEF value, k, before, q, g
  <2>11. k * q \in Int /\ next * q = k * q + q /\ k * g \in Int /\ next * g = k * g + g
    BY <2>1, <2>3
  <2>12. -(next * q) <= sum' /\ sum' <= next * q
    <3>1. -(next * q) <= sum + value /\ sum + value <= next * q /\ sum + value \in Int
      BY <2>1, <2>3, <2>4, <2>5, <2>6, <2>11
    <3>2. 1 * (-(next * q)) = -(next * q) /\ 1 * (next * q) = next * q
      BY <2>3, <2>11
    <3>3. QED
      BY <2>7, <2>8, <3>1, <3>2, NearestBounds
  <2>13. sum' \in Floats
    <3>1. sum' \in Numbers
      BY <2>1, <2>4, <2>7, NearestIs
    <3>2. next * q < Infinite /\ next * q \in Int
      BY <2>3, ConstantsType
    <3>3. Infinite \in Int
      BY ConstantsType
    <3>4. sum' # Infinite /\ sum' # -Infinite
      BY <2>12, <3>2, <3>3
    <3>5. QED
      BY <3>1, <3>4 DEF Numbers
  <2>14. 2 * Distance(sum', before + value) <= next * g
    <3>1. \A x \in Int : 1 * x = x
      OBVIOUS
    <3>2. sum' \in Int
      BY <2>13, ConstantsType
    <3>3. 2 * Distance(sum', sum + value) <= g
      BY <2>3, <2>7, <2>10, <3>1, <3>2
    <3>4. QED
      BY <2>1, <2>3, <2>4, <2>5, <2>11, <3>2, <3>3 DEF Distance
  <2>15. QED
    BY <2>1, <2>12, <2>13, <2>14 DEF q, g
<1>3. QED
  BY <1>1, <1>2 DEF Next

\* What is stored has been computed from finite numbers.
LEMMA StoredIs ==
  ASSUME LoopInv, Stored
  PROVE  /\ next - 1 = Repetitions
         /\ sum \in Floats /\ Nearest(sum, Repetitions) \in Floats
         /\ statistics.absoluteError = Nearest(Distance(Nearest(sum, Repetitions), reference), 1)
         /\ statistics.absoluteError \in Floats
         /\ reference = 0 => statistics.relativeError = 0
         /\ reference # 0 => statistics.relativeError =
              Nearest(statistics.absoluteError * One, Distance(reference, 0))
         /\ statistics.spread = Nearest(max - min, 1)
<1>1. /\ next = Repetitions + 1 /\ statistics = Result
      /\ \A name \in DOMAIN statistics : statistics[name] \in Floats
  BY DEF LoopInv, Stored
<1>2. next - 1 = Repetitions
  BY <1>1, ConstantsType
<1>3. /\ statistics.mean = Mean /\ statistics.absoluteError = AbsoluteError(Mean)
      /\ statistics.relativeError = RelativeError(AbsoluteError(Mean))
      /\ statistics.spread = Spread
  BY <1>1 DEF Result
<1>4. DOMAIN statistics = {"mean", "absoluteError", "relativeError", "spread"}
  BY <1>1 DEF Result
<1>5. statistics.mean \in Floats /\ statistics.absoluteError \in Floats
  BY <1>1, <1>4
<1>6. sum \in Floats /\ Mean = Nearest(sum, Repetitions)
  BY <1>3, <1>5 DEF Mean
<1>7. AbsoluteError(Mean) = Nearest(Distance(Mean, reference), 1)
  BY <1>3, <1>5 DEF AbsoluteError
<1>8. /\ reference = 0 => statistics.relativeError = 0
      /\ reference # 0 => statistics.relativeError =
           Nearest(statistics.absoluteError * One, Distance(reference, 0))
  BY <1>3, <1>5 DEF RelativeError
<1>9. QED
  BY <1>2, <1>3, <1>5, <1>6, <1>7, <1>8 DEF Spread

\* The absolute error of a stored set, taken Repetitions times, is off the exact one by
\* half a gap for each addition, for the mean and for the error itself.
LEMMA ErrorDrift ==
  ASSUME LoopInv, DriftInv, Stored, NEW scale \in Scales, Covers(scale)
  PROVE  /\ TrueError \in Nat /\ Slack(scale) \in Nat
         /\ 2 * (Repetitions * statistics.absoluteError) <= 2 * TrueError + Slack(scale)
         /\ 2 * TrueError - Slack(scale) <= 2 * (Repetitions * statistics.absoluteError)
<1> DEFINE n == Repetitions
           q == scale.size
           g == scale.gap
           mean == Nearest(sum, Repetitions)
           error == statistics.absoluteError
           far == Distance(mean, reference)
<1>1. /\ n \in Nat /\ n >= 2 /\ n # 0 /\ q \in Nat /\ g \in Nat /\ q > 0
  BY ConstantsType, ScaleIs
<1>2. /\ next - 1 = n /\ sum \in Floats /\ mean \in Floats
      /\ error = Nearest(far, 1) /\ error \in Floats
  BY StoredIs
<1>3. /\ sum \in Int /\ mean \in Int /\ error \in Int /\ reference \in Int
  BY <1>2, ConstantsType DEF LoopInv
<1>4. far \in Nat
  BY <1>3, DistanceIs
<1>5. Total \in Int /\ Total = Part(n)
  <2>1. n \in 0 .. Repetitions
    BY <1>1
  <2>2. QED
    BY <2>1, PartIs DEF LoopInv
<1>6. -(n * q) <= sum /\ sum <= n * q /\ 2 * Distance(sum, Total) <= n * g
  BY <1>2, <1>5 DEF DriftInv
<1>7. -q <= reference /\ reference <= q
  <2>1. Distance(reference, 0) <= q
    BY DEF Covers
  <2>2. QED
    BY <1>1, <1>3, <2>1 DEF Distance
<1>8. -q <= mean /\ mean <= q
  <2>1. q \in Numbers /\ -q \in Numbers
    BY ScaleIs, ConstantsType
  <2>2. n * (-q) <= sum /\ sum <= n * q /\ n \in Nat \ {0}
    BY <1>1, <1>6
  <2>3. QED
    BY <1>3, <2>1, <2>2, NearestBounds
<1>9. n * q \in Nat /\ n * (n * q) >= n * q /\ n * q >= q + q
      /\ n * (-(n * q)) = -(n * (n * q)) /\ n * (n * q) \in Nat
  <2>1. n * q \in Nat
    BY <1>1
  <2>2. q * 2 <= q * n /\ q * 2 = q + q /\ q * n = n * q
    BY <1>1, TakeFactor
  <2>3. \A x \in Nat : x * 1 <= x * n /\ x * 1 = x /\ x * n = n * x /\ n * x \in Nat
                       /\ n * (-x) = -(n * x)
    BY <1>1, TakeFactor
  <2> HIDE DEF n, q
  <2>4. QED
    BY <2>1, <2>2, <2>3
<1>10. 2 * Distance(n * mean, sum) <= n * g
  <2>1. n * (-(n * q)) <= sum /\ sum <= n * (n * q)
    <3> HIDE DEF n, q
    <3>1. QED
      BY <1>3, <1>6, <1>9
  <2>2. n \in Nat \ {0}
    BY <1>1
  <2>3. QED
    BY <1>3, <2>1, <2>2, NearestWithin
<1>11. 2 * Distance(error, far) <= g
  <2>1. far <= q + q
    BY <1>1, <1>3, <1>7, <1>8 DEF Distance
  <2>2. -(n * q) <= far /\ far <= n * q
    <3> HIDE DEF n, q, far
    <3>1. QED
      BY <1>1, <1>4, <1>9, <2>1
  <2>3. 1 * (-(n * q)) = -(n * q) /\ 1 * (n * q) = n * q /\ 1 * g = g
    BY <1>1, <1>9
  <2>4. 2 * Distance(1 * Nearest(far, 1), far) <= 1 * g
    BY <1>4, <2>2, <2>3, NearestWithin
  <2>5. 1 * Nearest(far, 1) = error
    BY <1>2, <1>3
  <2>6. QED
    BY <2>3, <2>4, <2>5
<1> DEFINE manyMean == n * mean
           manyError == n * error
           manyFar == n * far
           manyGap == n * g
           at == n * reference
<1>12. /\ manyMean \in Int /\ manyError \in Int /\ manyFar \in Int /\ manyGap \in Nat
       /\ at \in Int
  BY <1>1, <1>3, <1>4
<1>13. 2 * (manyError - manyFar) <= manyGap /\ 2 * (manyFar - manyError) <= manyGap
  <2>1. error - far \in Int /\ far - error \in Int
        /\ 2 * (error - far) <= g /\ 2 * (far - error) <= g
    <3> HIDE DEF error, far, g
    <3>1. QED
      BY <1>1, <1>3, <1>4, <1>11 DEF Distance
  <2>2. n * (2 * (error - far)) <= n * g /\ n * (2 * (far - error)) <= n * g
    <3>1. 2 * (error - far) \in Int /\ 2 * (far - error) \in Int
      BY <2>1
    <3>2. QED
      BY <1>1, <2>1, <3>1, TakeFactor
  <2>3. /\ n * (2 * (error - far)) = 2 * (n * error - n * far)
        /\ n * (2 * (far - error)) = 2 * (n * far - n * error)
    <3> HIDE DEF error, far, n
    <3>1. QED
      BY <1>1, <1>3, <1>4
  <2>4. QED
    BY <2>2, <2>3
<1>14. manyFar = Distance(manyMean, at)
  <2>1. /\ mean < reference => n * mean < n * reference
        /\ ~ (mean < reference) => n * reference <= n * mean
        /\ n * (reference - mean) = n * reference - n * mean
        /\ n * (mean - reference) = n * mean - n * reference
    BY <1>1, <1>3, TakeFactor
  <2> HIDE DEF mean, n
  <2>2. QED
    BY <1>1, <1>3, <1>12, <2>1 DEF Distance
<1>15. TrueError = Distance(Total, at)
  BY DEF TrueError
<1>16. Slack(scale) = 3 * manyGap
  BY <1>1 DEF Slack
<1>17. 2 * Distance(manyMean, sum) <= manyGap /\ 2 * Distance(sum, Total) <= manyGap
  BY <1>6, <1>10
<1> HIDE DEF manyMean, manyError, manyFar, manyGap, at
<1>18. TrueError \in Nat
  BY <1>5, <1>12, <1>15, DistanceIs
<1>19. /\ 2 * (manyMean - sum) <= manyGap /\ 2 * (sum - manyMean) <= manyGap
       /\ 2 * (sum - Total) <= manyGap /\ 2 * (Total - sum) <= manyGap
  BY <1>3, <1>5, <1>12, <1>17 DEF Distance
<1>20. /\ manyFar <= TrueError + Distance(manyMean, Total)
       /\ TrueError <= manyFar + Distance(manyMean, Total)
       /\ 2 * Distance(manyMean, Total) <= manyGap + manyGap
  BY <1>3, <1>5, <1>12, <1>14, <1>15, <1>19 DEF Distance
<1>21. Distance(manyMean, Total) \in Nat
  BY <1>5, <1>12, DistanceIs
<1>22. /\ 2 * manyError <= 2 * TrueError + 3 * manyGap
       /\ 2 * TrueError - 3 * manyGap <= 2 * manyError
  BY <1>12, <1>13, <1>18, <1>20, <1>21
<1>23. QED
  BY <1>12, <1>16, <1>18, <1>22 DEF manyError

-----------------------------------------------------------------------------
(* What a stored judgement says. *)

\* The spread of a stored set is the rounded difference of two of the readings, and no
\* two lie farther apart.
LEMMA SpreadIs ==
  ASSUME LoopInv, Stored
  PROVE  /\ max - min \in Nat /\ statistics.spread = Nearest(max - min, 1)
         /\ \A i \in 1 .. Repetitions :
              readings[i] \in Int /\ min <= readings[i] /\ readings[i] <= max
         /\ \E i, j \in 1 .. Repetitions : readings[i] - readings[j] = max - min
<1>1. statistics.spread = Nearest(max - min, 1) /\ next - 1 = Repetitions
  BY StoredIs
<1>2. min \in Int /\ max \in Int
  BY ConstantsType DEF LoopInv
<1>3. \A i \in 1 .. Repetitions :
        readings[i] \in Int /\ min <= readings[i] /\ readings[i] <= max
  BY <1>1, ConstantsType DEF LoopInv
<1>4. PICK greatest \in 1 .. Repetitions : readings[greatest] = max
  BY DEF LoopInv
<1>5. PICK least \in 1 .. Repetitions : readings[least] = min
  BY DEF LoopInv
<1>6. readings[greatest] - readings[least] = max - min
  BY <1>4, <1>5
<1>7. min <= max
  BY <1>3, <1>4
<1>8. QED
  BY <1>1, <1>2, <1>3, <1>6, <1>7

\* A finding about repeatability names a difference that is there, and none of the next
\* number or more is missed.
LEMMA RepeatabilityIsRight ==
  ASSUME LoopInv, Stored
  PROVE  IF "repeatability" \in Compare
         THEN \E i, j \in 1 .. Repetitions : readings[i] - readings[j] > RepeatabilityLimit
         ELSE \A i, j \in 1 .. Repetitions : \A more \in Floats :
                more > RepeatabilityLimit => readings[i] - readings[j] < more
<1> DEFINE spread == Nearest(max - min, 1)
<1>1. "repeatability" \in Compare <=> spread > RepeatabilityLimit
  BY SpreadIs DEF Compare
<1>2. /\ RepeatabilityLimit \in Numbers /\ RepeatabilityLimit \in Int
      /\ max - min \in Int /\ spread \in Int
  <2>1. max - min \in Int /\ spread \in Numbers
    BY SpreadIs, NearestIs
  <2>2. QED
    BY <2>1, ConstantsType
<1>3. ASSUME "repeatability" \in Compare
      PROVE  \E i, j \in 1 .. Repetitions : readings[i] - readings[j] > RepeatabilityLimit
  <2>1. max - min > 1 * RepeatabilityLimit
    BY <1>1, <1>2, <1>3, NearestBounds
  <2>2. max - min > RepeatabilityLimit
    BY <1>2, <2>1
  <2>3. QED
    BY <2>2, SpreadIs
<1>4. ASSUME "repeatability" \notin Compare,
             NEW i \in 1 .. Repetitions, NEW j \in 1 .. Repetitions,
             NEW more \in Floats, more > RepeatabilityLimit
      PROVE  readings[i] - readings[j] < more
  <2>1. more \in Int /\ more \in Numbers
    BY ConstantsType
  <2>2. ~ (1 * more <= max - min)
    <3>1. ~ (more <= spread)
      BY <1>1, <1>2, <1>4, <2>1
    <3>2. QED
      BY <1>2, <2>1, <3>1, NearestBounds
  <2>3. /\ readings[i] \in Int /\ readings[i] <= max
        /\ readings[j] \in Int /\ min <= readings[j]
    BY SpreadIs
  <2>4. max \in Int /\ min \in Int
    BY ConstantsType DEF LoopInv
  <2>5. QED
    BY <2>1, <2>2, <2>3, <2>4
<1>5. QED
  BY <1>3, <1>4

\* A finding about the absolute error is right but for the slack.
LEMMA AbsoluteIsNear ==
  ASSUME LoopInv, DriftInv, Stored, NEW scale \in Scales, Covers(scale)
  PROVE  IF "absolute_error" \in Compare
         THEN 2 * TrueError + Slack(scale) > 2 * Repetitions * AbsoluteTolerance
         ELSE 2 * TrueError - Slack(scale) <= 2 * Repetitions * AbsoluteTolerance
<1> DEFINE n == Repetitions
           error == statistics.absoluteError
           limit == AbsoluteTolerance
<1>1. "absolute_error" \in Compare <=> error > limit
  BY DEF Compare
<1>2. n \in Nat /\ n > 0 /\ error \in Int /\ limit \in Int
  <2>1. error \in Floats
    BY StoredIs
  <2>2. limit \in Floats /\ n \in Nat /\ n > 0 /\ Floats \in SUBSET Int
    BY ConstantsType
  <2>3. QED
    BY <2>1, <2>2
<1>3. /\ TrueError \in Nat /\ Slack(scale) \in Nat
      /\ 2 * (n * error) <= 2 * TrueError + Slack(scale)
      /\ 2 * TrueError - Slack(scale) <= 2 * (n * error)
  BY ErrorDrift
<1> HIDE DEF n, error, limit
<1>4. /\ error > limit => n * error > n * limit
      /\ ~ (error > limit) => n * error <= n * limit
      /\ n * error \in Int /\ n * limit \in Int
  BY <1>2, TakeFactor
<1>5. 2 * n * limit = 2 * (n * limit)
  BY <1>2
<1>6. IF error > limit THEN 2 * TrueError + Slack(scale) > 2 * (n * limit)
                       ELSE 2 * TrueError - Slack(scale) <= 2 * (n * limit)
  BY <1>3, <1>4
<1>7. QED
  BY <1>1, <1>5, <1>6 DEF n, limit

\* So is one about the relative error.
LEMMA RelativeIsNear ==
  ASSUME LoopInv, DriftInv, Stored, NEW scale \in Scales, Covers(scale)
  PROVE  IF "relative_error" \in Compare
         THEN (2 * TrueError + Slack(scale)) * One
                > 2 * Repetitions * RelativeTolerance * Distance(reference, 0)
         ELSE \A more \in Floats :
                more > RelativeTolerance /\ reference # 0 =>
                  (2 * TrueError - Slack(scale)) * One
                    < 2 * Repetitions * more * Distance(reference, 0)
<1> DEFINE n == Repetitions
           error == statistics.absoluteError
           at == Distance(reference, 0)
           most == 2 * TrueError + Slack(scale)
           least == 2 * TrueError - Slack(scale)
<1>1. "relative_error" \in Compare <=> statistics.relativeError > RelativeTolerance
  BY DEF Compare
<1>2. /\ n \in Nat /\ n > 0 /\ error \in Int /\ One \in Nat /\ One > 0
      /\ RelativeTolerance \in Int /\ RelativeTolerance >= 0 /\ RelativeTolerance \in Numbers
  <2>1. error \in Floats /\ RelativeTolerance \in Floats /\ RelativeTolerance >= 0
    BY StoredIs, ConstantsType
  <2>2. n \in Nat /\ n > 0 /\ One \in Nat /\ One > 0
    BY ConstantsType
  <2>3. QED
    BY <2>1, <2>2, ConstantsType
<1>3. /\ most \in Int /\ least \in Int
      /\ 2 * (n * error) <= most /\ least <= 2 * (n * error)
  BY ErrorDrift
<1>4. reference \in Int /\ at \in Nat /\ (reference # 0 => at > 0)
  <2>1. reference \in Int
    BY ConstantsType DEF LoopInv
  <2>2. QED
    BY <2>1 DEF Distance
<1>5. /\ reference = 0 => statistics.relativeError = 0
      /\ reference # 0 => statistics.relativeError = Nearest(error * One, at)
  BY StoredIs
<1>6. error * One \in Int
  BY <1>2
<1> HIDE DEF n, error, at, most, least
<1>7. One * (2 * (n * error)) <= One * most /\ One * least <= One * (2 * (n * error))
  BY <1>2, <1>3, TakeFactor
<1>8. /\ One * (2 * (n * error)) = 2 * (n * (error * One))
      /\ One * most = most * One /\ One * least = least * One
      /\ most * One \in Int /\ least * One \in Int
  BY <1>2, <1>3
<1>9. ASSUME NEW limit \in Int
      PROVE  /\ at * limit < error * One => 2 * n * limit * at < most * One
             /\ error * One < at * limit => least * One < 2 * n * limit * at
  <2>1. at * limit \in Int
    BY <1>4
  <2>2. /\ at * limit < error * One => n * (at * limit) < n * (error * One)
        /\ error * One < at * limit => n * (error * One) < n * (at * limit)
        /\ n * (at * limit) \in Int /\ n * (error * One) \in Int
    BY <1>2, <1>6, <2>1, TakeFactor
  <2>3. 2 * n * limit * at = 2 * (n * (at * limit))
    BY <1>2, <1>4
  <2>4. QED
    BY <1>7, <1>8, <2>2, <2>3
<1>10. ASSUME "relative_error" \in Compare
       PROVE  most * One > 2 * n * RelativeTolerance * at
  <2>1. reference # 0
    BY <1>1, <1>2, <1>5, <1>10
  <2>2. at \in Nat \ {0} /\ Nearest(error * One, at) > RelativeTolerance
    BY <1>1, <1>4, <1>5, <1>10, <2>1
  <2>3. error * One > at * RelativeTolerance
    BY <1>2, <1>6, <2>2, NearestBounds
  <2>4. at * RelativeTolerance < error * One
    BY <1>2, <1>4, <1>6, <2>3
  <2>5. 2 * n * RelativeTolerance * at < most * One
    BY <1>2, <1>9, <2>4
  <2>6. QED
    BY <1>2, <1>4, <1>8, <2>5
<1>11. ASSUME "relative_error" \notin Compare, NEW more \in Floats,
              more > RelativeTolerance, reference # 0
       PROVE  least * One < 2 * n * more * at
  <2>1. more \in Int /\ more \in Numbers /\ at \in Nat \ {0}
    BY <1>4, <1>11, ConstantsType
  <2>2. Nearest(error * One, at) \in Int
    <3>1. Nearest(error * One, at) \in Numbers
      BY <1>6, <2>1, NearestIs
    <3>2. QED
      BY <3>1, ConstantsType
  <2>3. ~ (more <= Nearest(error * One, at))
    BY <1>1, <1>2, <1>5, <1>11, <2>1, <2>2
  <2>4. ~ (at * more <= error * One)
    BY <1>6, <2>1, <2>3, NearestBounds
  <2>5. at * more \in Int
    BY <2>1
  <2>6. error * One < at * more
    BY <1>6, <2>4, <2>5
  <2>7. QED
    BY <1>9, <2>1, <2>6
<1>12. QED
  BY <1>10, <1>11 DEF n, at, most, least

\* A stored judgement is the right one but for the rounding, whatever the order of the
\* readings: each of the three findings holds of the exact readings, or is missing, up to
\* the slack that the scale of the readings leaves.
THEOREM JudgementsAreNear == Spec => []JudgementWithinRounding
<1>1. LoopInv /\ DriftInv => JudgementWithinRounding
  BY RepeatabilityIsRight, AbsoluteIsNear, RelativeIsNear DEF JudgementWithinRounding
<1>2. QED
  BY <1>1, LoopInit, LoopNext, DriftInit, DriftNext, PTL DEF Spec

\* A set of readings without findings vouches for every reading: the exact mean is near
\* the standard point, it lies between the least and the greatest reading, and these are
\* near each other.
THEOREM EveryReadingIsNear == Spec => []PassingReadingsNear
<1>1. ASSUME LoopInv, DriftInv, Stored, Compare = {},
             NEW scale \in Scales, Covers(scale), NEW i \in 1 .. Repetitions
      PROVE  Distance(readings[i], reference)
               <= AbsoluteTolerance + RepeatabilityLimit + 2 * scale.gap
  <2> DEFINE n == Repetitions
             g == scale.gap
             q == scale.size
             T == AbsoluteTolerance
             R == RepeatabilityLimit
  <2>1. /\ n \in Nat \ {0} /\ n >= 2 /\ g \in Nat /\ q \in Nat /\ T \in Int /\ R \in Int
        /\ reference \in Int /\ min \in Int /\ max \in Int
    BY <1>1, ConstantsType, ScaleIs DEF LoopInv
  <2>2. /\ readings[i] \in Int /\ min <= readings[i] /\ readings[i] <= max
        /\ max - min \in Nat
    BY <1>1, SpreadIs
  <2>3. Total \in Int /\ n * min <= Total /\ Total <= n * max
    <3>1. next - 1 = n /\ n \in 0 .. Repetitions
      BY <1>1, <2>1, StoredIs
    <3>2. Total = Part(n) /\ Part(n) \in Int
      BY <1>1, <3>1, PartIs DEF LoopInv
    <3>3. n * min <= Part(n) /\ Part(n) <= n * max
      BY <1>1, <3>1 DEF LoopInv
    <3>4. QED
      BY <3>2, <3>3
  <2>4. TrueError \in Nat /\ 2 * TrueError - 3 * n * g <= 2 * n * T
    <3>1. "absolute_error" \notin Compare
      BY <1>1
    <3>2. QED
      BY <1>1, <3>1, AbsoluteIsNear, ErrorDrift DEF Slack
  <2>5. 2 * (max - min) <= 2 * R + g
    <3> DEFINE wide == max - min
               spread == Nearest(wide, 1)
    <3>1. "repeatability" \notin Compare
      BY <1>1
    <3>2. ~ (spread > R) /\ wide \in Nat
      BY <1>1, <3>1, SpreadIs DEF Compare
    <3>3. spread \in Int
      <4>1. spread \in Numbers
        BY <3>2, NearestIs
      <4>2. QED
        BY <4>1, ConstantsType
    <3>4. wide <= n * q /\ n * q \in Nat
      <4>1. \A k \in 1 .. n : -q <= readings[k] /\ readings[k] <= q
        <5>1. \A k \in 1 .. n : readings[k] \in Int /\ Distance(readings[k], 0) <= q
          BY <1>1, SpreadIs DEF Covers
        <5>2. QED
          BY <2>1, <5>1 DEF Distance
      <4>2. -q <= min /\ max <= q
        BY <1>1, <4>1 DEF LoopInv
      <4>3. q * 2 <= q * n /\ q * 2 = q + q /\ q * n = n * q /\ n * q \in Nat
        BY <2>1, TakeFactor
      <4> HIDE DEF n, q
      <4>4. QED
        BY <2>1, <4>2, <4>3
    <3>5. 2 * Distance(1 * spread, wide) <= 1 * g
      <4>1. 1 * (-(n * q)) <= wide /\ wide <= 1 * (n * q)
        BY <3>2, <3>4
      <4>2. QED
        BY <3>2, <4>1, NearestWithin
    <3> HIDE DEF wide, spread, g
    <3>6. 2 * wide <= 2 * R + g
      BY <2>1, <3>2, <3>3, <3>5 DEF Distance
    <3>7. QED
      BY <3>6 DEF wide, g
  <2> DEFINE at == n * reference
             low == reference - T - 2 * g
             high == reference + T + 2 * g
  <2>6. Total - at <= TrueError /\ at - Total <= TrueError /\ at \in Int
    <3>1. at \in Int
      BY <2>1
    <3>2. TrueError = Distance(Total, at)
      BY DEF TrueError
    <3> HIDE DEF at
    <3>3. QED
      BY <2>3, <3>1, <3>2, DistanceIs
  <2> HIDE DEF n, g, q, T, R
  <2>7. 2 * (n * min) <= 2 * at + 2 * n * T + 3 * n * g
        /\ 2 * at - 2 * n * T - 3 * n * g <= 2 * (n * max)
    <3> DEFINE x == 2 * n * T
               y == 3 * n * g
               lo == n * min
               hi == n * max
    <3>1. x \in Int /\ y \in Int /\ lo \in Int /\ hi \in Int
      BY <2>1
    <3> HIDE DEF at, x, y, lo, hi
    <3>2. 2 * TrueError - y <= x /\ lo <= Total /\ Total <= hi
      BY <2>3, <2>4 DEF x, y, lo, hi
    <3>3. 2 * lo <= 2 * at + x + y /\ 2 * at - x - y <= 2 * hi
      BY <2>3, <2>4, <2>6, <3>1, <3>2
    <3>4. QED
      BY <3>3 DEF x, y, lo, hi
  <2>8. 2 * min <= 2 * reference + 2 * T + 3 * g
    <3>1. n * (2 * min) <= n * (2 * reference + 2 * T + 3 * g)
      BY <2>1, <2>7
    <3>2. QED
      BY <2>1, <3>1, DropFactor
  <2>9. 2 * reference - 2 * T - 3 * g <= 2 * max
    <3>1. n * (2 * reference - 2 * T - 3 * g) <= n * (2 * max)
      BY <2>1, <2>7
    <3>2. QED
      BY <2>1, <3>1, DropFactor
  <2>10. Distance(readings[i], reference) <= T + R + 2 * g
    BY <2>1, <2>2, <2>5, <2>8, <2>9 DEF Distance, R, g
  <2>11. QED
    BY <2>10 DEF T, R, g
<1>2. LoopInv /\ DriftInv => PassingReadingsNear
  BY <1>1 DEF PassingReadingsNear
<1>3. QED
  BY <1>2, LoopInit, LoopNext, DriftInit, DriftNext, PTL DEF Spec

=============================================================================
