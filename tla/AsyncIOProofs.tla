--------------------------- MODULE AsyncIOProofs ----------------------------
(***************************************************************************)
(* Theorems about asynchronous input and output, for any number of items   *)
(* and bytes, any vectors of buffers and any size of the send buffer: no   *)
(* wakeup is lost, the streams are intact, connections are reported as     *)
(* they are.                                                               *)
(***************************************************************************)
EXTENDS AsyncIO, SequenceTheorems, WellFoundedInduction, TLAPS

-----------------------------------------------------------------------------
(* Induction, with a set in the place of a predicate                       *)

\* A set of natural numbers with 0 in it and the successor of each of its members.
LEMMA Induction ==
  ASSUME NEW T, 0 \in T, \A n \in Nat : n \in T => n + 1 \in T
  PROVE  Nat \subseteq T
<1> SUFFICES ASSUME Nat \ T # {} PROVE FALSE
  OBVIOUS
<1> DEFINE R == OpToRel(<, Nat)
<1>1. IsWellFoundedOn(R, Nat)
  BY Zenon, NatLessThanWellFounded
<1>2. R = {ss \in Nat \X Nat : ss[1] < ss[2]}
  BY DEF OpToRel
<1>3. \A x, y \in Nat : <<y, x>> \in R <=> y < x
  BY Zenon, <1>2
<1> HIDE DEF R
<1>4. \E x \in Nat \ T : \A y \in Nat \ T : ~ (<<y, x>> \in R)
  BY <1>1, WFMin, Zenon
<1>5. PICK n \in Nat \ T : \A y \in Nat \ T : ~ (<<y, n>> \in R)
  BY <1>4
<1>6. \A y \in Nat \ T : ~(y < n)
  BY Zenon, <1>3, <1>5
<1>7. n - 1 \in Nat /\ n - 1 < n
  BY <1>5
<1>8. n - 1 \in T
  BY <1>6, <1>7
<1> QED
  BY <1>5, <1>7, <1>8

\* A function on 0..n may be defined by its first value and by steps.
Follows(g, n, base, step) == g[0] = base /\ \A i \in 1..n : g[i] = step[i][g[i - 1]]

\* Such a function exists.
LEMMA Recursion ==
  ASSUME NEW S, NEW base \in S, NEW n \in Nat, NEW step \in [1..n -> [S -> S]]
  PROVE  \E g \in [0..n -> S] : Follows(g, n, base, step)
<1> DEFINE Upto(g, k) == g[0] = base /\ \A i \in 1..k : g[i] = step[i][g[i - 1]]
           T == {k \in Nat : k <= n => \E g \in [0..k -> S] : Upto(g, k)}
<1>1. 0 \in T
  <2>1. [i \in 0..0 |-> base] \in [0..0 -> S] /\ Upto([i \in 0..0 |-> base], 0)
    OBVIOUS
  <2> QED
    BY Zenon, <2>1
<1>2. ASSUME NEW k \in Nat, k \in T PROVE k + 1 \in T
  <2> SUFFICES ASSUME k + 1 <= n PROVE \E g \in [0..(k + 1) -> S] : Upto(g, k + 1)
    <3> HIDE DEF Upto
    <3> QED
      BY <1>2
  <2>1. PICK g \in [0..k -> S] : Upto(g, k)
    BY <1>2
  <2>2. step[k + 1] \in [S -> S] /\ g[k] \in S
    OBVIOUS
  <2> DEFINE h == [i \in 0..(k + 1) |-> IF i = k + 1 THEN step[k + 1][g[k]] ELSE g[i]]
  <2>3. h \in [0..(k + 1) -> S]
    BY <2>2
  <2>4. \A i \in 0..k : h[i] = g[i]
    OBVIOUS
  <2>5. h[k + 1] = step[k + 1][g[k]]
    OBVIOUS
  <2> HIDE DEF h
  <2>6. \A i \in 1..(k + 1) : h[i] = step[i][h[i - 1]]
    <3> TAKE i \in 1..(k + 1)
    <3>1. CASE i = k + 1
      BY <2>4, <2>5, <3>1
    <3>2. CASE i # k + 1
      <4>1. i \in 1..k /\ i \in 0..k /\ i - 1 \in 0..k
        BY <3>2
      <4> QED
        BY <2>1, <2>4, <4>1
    <3> QED
      BY <3>1, <3>2
  <2> QED
    BY <2>1, <2>3, <2>4, <2>6
<1> HIDE DEF T
<1>3. Nat \subseteq T
  BY <1>1, <1>2, Induction
<1> QED
  BY <1>3 DEF T, Follows

\* The values of such a function stay in the set.
LEMMA Values ==
  ASSUME NEW S, NEW n \in Nat, NEW f, f[0] \in S, \A i \in 1..n : f[i - 1] \in S => f[i] \in S
  PROVE  \A i \in 0..n : f[i] \in S
<1> DEFINE T == {k \in Nat : k <= n => f[k] \in S}
<1>1. 0 \in T
  OBVIOUS
<1>2. ASSUME NEW k \in Nat, k \in T PROVE k + 1 \in T
  <2> SUFFICES ASSUME k + 1 <= n PROVE f[k + 1] \in S
    BY <1>2
  <2>1. k + 1 \in 1..n /\ (k + 1) - 1 = k /\ f[k] \in S
    BY <1>2
  <2> QED
    BY <2>1
<1> HIDE DEF T
<1>3. Nat \subseteq T
  BY <1>1, <1>2, Induction
<1> QED
  BY <1>3 DEF T

-----------------------------------------------------------------------------
(* Vectors of buffers                                                      *)

\* The sums over the first buffers of a vector.
LEMMA Sums ==
  ASSUME NEW v \in Seq(Nat)
  PROVE  \E g \in [0..Len(v) -> Nat] :
           /\ Left(v) = g[Len(v)] /\ g[0] = 0
           /\ \A i \in 1..Len(v) : g[i] = g[i - 1] + v[i]
<1>1. PICK n \in Nat : n = Len(v) /\ \A i \in 1..n : v[i] \in Nat
  BY LenProperties, ElementOfSeq
<1>2. PICK step \in [1..n -> [Nat -> Nat]] : \A i \in 1..n, x \in Nat : step[i][x] = x + v[i]
  <2> DEFINE s == [i \in 1..n |-> [x \in Nat |-> x + v[i]]]
  <2>1. s \in [1..n -> [Nat -> Nat]] /\ \A i \in 1..n, x \in Nat : s[i][x] = x + v[i]
    BY <1>1
  <2> QED
    BY Zenon, <2>1
<1>3. PICK g \in [0..n -> Nat] : g[0] = 0 /\ \A i \in 1..n : g[i] = step[i][g[i - 1]]
  <2>1. 0 \in Nat
    OBVIOUS
  <2>2. \E g \in [0..n -> Nat] : Follows(g, n, 0, step)
    BY <2>1, Recursion, Zenon
  <2> QED
    BY Zenon, <2>2 DEF Follows
<1>4. \A i \in 1..n : g[i] = g[i - 1] + v[i]
  <2> TAKE i \in 1..n
  <2>1. i - 1 \in 0..n /\ g[i - 1] \in Nat
    OBVIOUS
  <2> QED
    BY Zenon, <1>2, <1>3, <2>1
<1> DEFINE Sum(f) == [i \in 0..n |-> IF i = 0 THEN 0 ELSE f[i - 1] + v[i]]
           f == CHOOSE h : h = Sum(h)
<1>5. g = Sum(g)
  <2>1. \A i \in 0..n : g[i] = IF i = 0 THEN 0 ELSE g[i - 1] + v[i]
    BY <1>3, <1>4
  <2> QED
    BY <2>1
<1>6. f = Sum(f)
  <2> HIDE DEF Sum
  <2> QED
    BY Zenon, <1>5
<1>7. Left(v) = f[n]
  BY <1>1 DEF Left
<1> HIDE DEF f
<1>8. f[0] = 0 /\ \A i \in 1..n : f[i] = f[i - 1] + v[i]
  <2>1. \A i \in 0..n : f[i] = IF i = 0 THEN 0 ELSE f[i - 1] + v[i]
    BY Zenon, <1>6
  <2> QED
    BY <1>1, <2>1
<1>9. \A i \in 0..n : f[i] \in Nat
  <2>1. \A i \in 1..n : f[i - 1] \in Nat => f[i] \in Nat
    <3> TAKE i \in 1..n
    <3> HAVE f[i - 1] \in Nat
    <3>1. v[i] \in Nat /\ f[i] = f[i - 1] + v[i]
      BY <1>1, <1>8
    <3>2. \A a, b \in Nat : a + b \in Nat
      OBVIOUS
    <3> QED
      BY <3>1, <3>2, Zenon
  <2>2. f[0] \in Nat
    BY <1>8
  <2> QED
    BY <2>1, <2>2, Values, Zenon
<1>10. f \in [0..n -> Nat]
  BY Zenon, <1>6, <1>9
<1> QED
  BY Zenon, <1>1, <1>7, <1>8, <1>10

\* The smaller of two numbers.
LEMMA SmallerOne ==
  ASSUME NEW a \in Nat, NEW b \in Nat
  PROVE  Min({a, b}) = IF a <= b THEN a ELSE b
<1> DEFINE m == IF a <= b THEN a ELSE b
<1>1. m \in {a, b} /\ \A y \in {a, b} : m <= y
  OBVIOUS
<1>2. \A x \in {a, b} : (\A y \in {a, b} : x <= y) => x = m
  OBVIOUS
<1> HIDE DEF m
<1>3. Min({a, b}) = m
  BY <1>1, <1>2, Zenon DEF Min
<1> QED
  BY <1>3 DEF m

\* The sums never decrease.
LEMMA SumsGrow ==
  ASSUME NEW n \in Nat, NEW g \in [0..n -> Nat], \A i \in 1..n : g[i - 1] <= g[i],
         NEW k \in 0..n
  PROVE  g[k] <= g[n]
<1> DEFINE T == {d \in Nat : k + d <= n => g[k] <= g[k + d]}
<1>1. 0 \in T
  OBVIOUS
<1>2. ASSUME NEW d \in Nat, d \in T PROVE d + 1 \in T
  <2> SUFFICES ASSUME k + (d + 1) <= n PROVE g[k] <= g[k + (d + 1)]
    OBVIOUS
  <2>1. PICK i \in 1..n : i = k + (d + 1)
    OBVIOUS
  <2>2. i - 1 = k + d /\ g[k] <= g[i - 1] /\ g[i - 1] <= g[i]
    BY <1>2, <2>1
  <2>3. g[k] \in Nat /\ g[i - 1] \in Nat /\ g[i] \in Nat
    OBVIOUS
  <2> QED
    BY <2>1, <2>2, <2>3
<1> HIDE DEF T
<1>3. Nat \subseteq T
  BY Zenon, <1>1, <1>2, Induction
<1>4. n - k \in T
  BY <1>3
<1> QED
  BY <1>4 DEF T

\* The buffers that are kept, by what is left to skip before each.
Shifted(v, left) == [i \in 1..Len(v) |-> v[i] - ffiovec_shift(v[i], left[i - 1])]

\* What is left to skip before each buffer, as ffiovec_array_shift() computes it.
LEMMA Skips ==
  ASSUME NEW v \in Seq(Nat), NEW skip \in Nat
  PROVE  \E left \in [0..Len(v) -> Nat] :
           /\ left[0] = skip
           /\ \A i \in 1..Len(v) : left[i] = left[i - 1] - ffiovec_shift(v[i], left[i - 1])
           /\ ffiovec_array_shift(v, skip) =
                [v |-> Shifted(v, left), more |-> \E i \in 1..Len(v) : Shifted(v, left)[i] # 0]
<1>1. PICK n \in Nat : n = Len(v) /\ \A i \in 1..n : v[i] \in Nat
  BY LenProperties, ElementOfSeq
<1>2. \A x \in Nat, i \in 1..n : x - ffiovec_shift(v[i], x) \in Nat
  <2> TAKE x \in Nat, i \in 1..n
  <2>1. PICK b \in Nat : b = v[i]
    BY <1>1
  <2>2. ffiovec_shift(b, x) = IF x <= b THEN x ELSE b
    BY SmallerOne DEF ffiovec_shift
  <2> QED
    BY <2>1, <2>2
<1>3. PICK step \in [1..n -> [Nat -> Nat]] :
        \A i \in 1..n, x \in Nat : step[i][x] = x - ffiovec_shift(v[i], x)
  <2> HIDE DEF ffiovec_shift
  <2> DEFINE s == [i \in 1..n |-> [x \in Nat |-> x - ffiovec_shift(v[i], x)]]
  <2>1. s \in [1..n -> [Nat -> Nat]] /\ \A i \in 1..n, x \in Nat : s[i][x] = x - ffiovec_shift(v[i], x)
    BY <1>2
  <2> QED
    BY Zenon, <2>1
<1>4. PICK g \in [0..n -> Nat] : g[0] = skip /\ \A i \in 1..n : g[i] = step[i][g[i - 1]]
  <2>1. \E g \in [0..n -> Nat] : Follows(g, n, skip, step)
    BY Recursion, Zenon
  <2> QED
    BY Zenon, <2>1 DEF Follows
<1>5. \A i \in 1..n : g[i] = g[i - 1] - ffiovec_shift(v[i], g[i - 1])
  <2> TAKE i \in 1..n
  <2>1. i - 1 \in 0..n /\ g[i - 1] \in Nat
    OBVIOUS
  <2> QED
    BY Zenon, <1>3, <1>4, <2>1
<1> DEFINE Rest(f) == [i \in 0..n |-> IF i = 0 THEN skip ELSE f[i - 1] - ffiovec_shift(v[i], f[i - 1])]
           f == CHOOSE h : h = Rest(h)
<1>6. g = Rest(g)
  <2>1. \A i \in 0..n : g[i] = IF i = 0 THEN skip ELSE g[i - 1] - ffiovec_shift(v[i], g[i - 1])
    BY <1>4, <1>5
  <2> QED
    BY <2>1
<1>7. f = Rest(f)
  <2> HIDE DEF Rest
  <2> QED
    BY Zenon, <1>6
<1>8. ffiovec_array_shift(v, skip) = [v |-> Shifted(v, f), more |-> \E i \in 1..n : Shifted(v, f)[i] # 0]
  BY <1>1 DEF ffiovec_array_shift, Shifted
<1> HIDE DEF f
<1>9. f[0] = skip /\ \A i \in 1..n : f[i] = f[i - 1] - ffiovec_shift(v[i], f[i - 1])
  <2>1. \A i \in 0..n : f[i] = IF i = 0 THEN skip ELSE f[i - 1] - ffiovec_shift(v[i], f[i - 1])
    BY Zenon, <1>7
  <2> QED
    BY <1>1, <2>1
<1>10. \A i \in 0..n : f[i] \in Nat
  <2>1. \A i \in 1..n : f[i - 1] \in Nat => f[i] \in Nat
    BY <1>2, <1>9, Zenon
  <2>2. f[0] \in Nat
    BY <1>9
  <2> QED
    BY <2>1, <2>2, Values, Zenon
<1>11. f \in [0..n -> Nat]
  BY Zenon, <1>7, <1>10
<1> QED
  BY <1>1, <1>8, <1>9, <1>11, Zenon

\* A function with the values of the sums is where the sum of a vector comes from.
LEMMA SumIs ==
  ASSUME NEW v \in Seq(Nat), NEW g \in [0..Len(v) -> Nat],
         g[0] = 0, \A i \in 1..Len(v) : g[i] = g[i - 1] + v[i]
  PROVE  Left(v) = g[Len(v)]
<1>1. PICK n \in Nat : n = Len(v) /\ \A i \in 1..n : v[i] \in Nat
  BY LenProperties, ElementOfSeq
<1>2. PICK h \in [0..n -> Nat] :
        Left(v) = h[n] /\ h[0] = 0 /\ \A i \in 1..n : h[i] = h[i - 1] + v[i]
  BY Zenon, Sums, <1>1
<1> DEFINE T == {k \in Nat : k <= n => g[k] = h[k]}
<1>3. 0 \in T
  BY <1>2
<1>4. ASSUME NEW k \in Nat, k \in T PROVE k + 1 \in T
  <2> SUFFICES ASSUME k + 1 <= n PROVE g[k + 1] = h[k + 1]
    OBVIOUS
  <2>1. PICK i \in 1..n : i = k + 1
    OBVIOUS
  <2>2. i - 1 = k /\ g[i - 1] = h[i - 1]
    BY <1>4, <2>1
  <2>3. g[i] = h[i]
    BY <1>1, <1>2, <2>2
  <2> QED
    BY <2>1, <2>3
<1> HIDE DEF T
<1>5. Nat \subseteq T
  BY Zenon, <1>3, <1>4, Induction
<1>6. n \in T
  BY <1>5
<1>7. g[n] = h[n]
  BY <1>6 DEF T
<1> QED
  BY <1>1, <1>2, <1>7

\* What is still to skip after c bytes of which s are skipped, and what is kept of them.
ToSkip(c, s) == IF c <= s THEN s - c ELSE 0
Kept(c, s)   == IF c <= s THEN 0 ELSE c - s

\* One buffer of b bytes, after c bytes.
LEMMA ShiftOne ==
  ASSUME NEW b \in Nat, NEW c \in Nat, NEW s \in Nat
  PROVE  /\ b - ffiovec_shift(b, ToSkip(c, s)) \in Nat
         /\ ToSkip(c, s) - ffiovec_shift(b, ToSkip(c, s)) = ToSkip(c + b, s)
         /\ Kept(c, s) + (b - ffiovec_shift(b, ToSkip(c, s))) = Kept(c + b, s)
<1>0. ToSkip(c, s) \in Nat
  BY DEF ToSkip
<1>1. PICK a \in Nat : a = ToSkip(c, s)
  BY Zenon, <1>0
<1>2. ffiovec_shift(b, a) = IF a <= b THEN a ELSE b
  BY SmallerOne DEF ffiovec_shift
<1> QED
  BY <1>1, <1>2 DEF ToSkip, Kept

\* What is kept is a number of bytes, and nothing of nothing.
LEMMA KeptIs ==
  ASSUME NEW c \in Nat, NEW s \in Nat
  PROVE  /\ Kept(c, s) \in Nat /\ Kept(0, s) = 0 /\ ToSkip(0, s) = s
         /\ s <= c => Kept(c, s) = c - s
  BY DEF Kept, ToSkip

\* Sums and differences of numbers.
LEMMA Numbers ==
  /\ \A a, b \in Nat : a + b \in Nat /\ a <= a + b /\ (b # 0 => a + b > 0)
  /\ \A a, b, c \in Nat : a <= b /\ a > 0 => b > 0
  /\ \A a \in Nat : a # 0 <=> a > 0
  /\ \A a \in Nat : a + 0 = a
  OBVIOUS

\* The sums of what ffiovec_array_shift() keeps of a vector.
LEMMA ShiftSums ==
  ASSUME NEW v \in Seq(Nat), NEW skip \in Nat
  PROVE  \E w \in Seq(Nat), h \in [0..Len(v) -> Nat] :
           /\ Len(w) = Len(v)
           /\ ffiovec_array_shift(v, skip) = [v |-> w, more |-> \E i \in 1..Len(v) : w[i] # 0]
           /\ h[0] = 0 /\ \A i \in 1..Len(v) : h[i] = h[i - 1] + w[i]
           /\ h[Len(v)] = Kept(Left(v), skip)
           /\ Left(v) \in Nat
<1> DEFINE n == Len(v)
<1>1. n \in Nat /\ \A i \in 1..n : v[i] \in Nat
  BY Zenon, LenProperties, ElementOfSeq
<1>2. PICK g \in [0..n -> Nat] :
        Left(v) = g[n] /\ g[0] = 0 /\ \A i \in 1..n : g[i] = g[i - 1] + v[i]
  BY Zenon, Sums
<1>3. PICK left \in [0..n -> Nat] :
        /\ left[0] = skip
        /\ \A i \in 1..n : left[i] = left[i - 1] - ffiovec_shift(v[i], left[i - 1])
        /\ ffiovec_array_shift(v, skip) =
             [v |-> Shifted(v, left), more |-> \E i \in 1..n : Shifted(v, left)[i] # 0]
  BY Zenon, Skips
<1>a. Shifted(v, left) = [i \in 1..n |-> v[i] - ffiovec_shift(v[i], left[i - 1])]
  BY Zenon DEF Shifted
<1> HIDE DEF n
<1>4. \A i \in 1..n : i - 1 \in 0..n /\ i \in 0..n /\ v[i] \in Nat /\ g[i - 1] \in Nat
  <2>1. \A i \in 1..n : i - 1 \in 0..n /\ i \in 0..n
    BY <1>1
  <2> QED
    BY Zenon, <1>1, <2>1
<1>5. \A k \in 0..n : left[k] = ToSkip(g[k], skip)
  <2> DEFINE T == {k \in Nat : k <= n => left[k] = ToSkip(g[k], skip)}
  <2>0. 0 \in Nat
    OBVIOUS
  <2>1. left[0] = ToSkip(g[0], skip)
    BY Zenon, <1>2, <1>3, <2>0, KeptIs
  <2>2. 0 \in T
    BY <2>1
  <2>3. ASSUME NEW k \in Nat, k \in T PROVE k + 1 \in T
    <3> SUFFICES ASSUME k + 1 <= n PROVE left[k + 1] = ToSkip(g[k + 1], skip)
      OBVIOUS
    <3>1. PICK i \in 1..n : i = k + 1 /\ i - 1 = k /\ k <= n
      BY <1>1
    <3>2. left[i - 1] = ToSkip(g[i - 1], skip)
      BY Zenon, <2>3, <3>1
    <3>3. left[i] = ToSkip(g[i - 1] + v[i], skip)
      <4>1. g[i - 1] \in Nat /\ v[i] \in Nat
        BY Zenon, <1>4
      <4>2. ToSkip(g[i - 1], skip) - ffiovec_shift(v[i], ToSkip(g[i - 1], skip)) = ToSkip(g[i - 1] + v[i], skip)
        BY Zenon, <4>1, ShiftOne
      <4>3. left[i] = left[i - 1] - ffiovec_shift(v[i], left[i - 1])
        BY Zenon, <1>3
      <4> QED
        BY Zenon, <3>2, <4>2, <4>3
    <3> QED
      BY Zenon, <1>2, <3>1, <3>3
  <2> HIDE DEF T
  <2>4. Nat \subseteq T
    BY <2>2, <2>3, Induction
  <2> QED
    BY <2>4 DEF T
<1>6. PICK w : w = Shifted(v, left)
  BY Zenon
<1>7. \A i \in 1..n : w[i] = v[i] - ffiovec_shift(v[i], ToSkip(g[i - 1], skip))
  BY Zenon, <1>4, <1>5, <1>6, <1>a
<1>8. ASSUME NEW i \in 1..n
      PROVE  w[i] \in Nat /\ Kept(g[i - 1], skip) + w[i] = Kept(g[i], skip)
  <2>1. g[i - 1] \in Nat /\ v[i] \in Nat /\ g[i] = g[i - 1] + v[i]
    BY Zenon, <1>2, <1>4
  <2>2. /\ v[i] - ffiovec_shift(v[i], ToSkip(g[i - 1], skip)) \in Nat
        /\ Kept(g[i - 1], skip) + (v[i] - ffiovec_shift(v[i], ToSkip(g[i - 1], skip)))
              = Kept(g[i - 1] + v[i], skip)
    BY Zenon, <2>1, ShiftOne
  <2> QED
    BY Zenon, <1>7, <2>1, <2>2
<1>9. w \in [1..n -> Nat]
  BY Zenon, <1>6, <1>8, <1>a
<1>10. w \in Seq(Nat) /\ Len(w) = n
  BY <1>1, <1>9
<1> DEFINE h == [i \in 0..n |-> Kept(g[i], skip)]
<1>11. h \in [0..n -> Nat] /\ \A i \in 0..n : h[i] = Kept(g[i], skip)
  BY Zenon, KeptIs
<1> HIDE DEF h
<1>12. h[0] = 0
  <2>1. 0 \in 0..n /\ 0 \in Nat
    BY <1>1
  <2>2. Kept(0, skip) = 0
    BY Zenon, <2>1, KeptIs
  <2> QED
    BY Zenon, <1>2, <1>11, <2>1, <2>2
<1>13. \A i \in 1..n : h[i] = h[i - 1] + w[i]
  BY Zenon, <1>4, <1>8, <1>11
<1>14. h[n] = Kept(Left(v), skip) /\ Left(v) \in Nat
  <2>1. n \in 0..n
    BY <1>1
  <2> QED
    BY Zenon, <1>2, <1>11, <2>1
<1>15. ffiovec_array_shift(v, skip) = [v |-> w, more |-> \E i \in 1..n : w[i] # 0]
  BY Zenon, <1>3, <1>6
<1> QED
  BY Zenon, <1>1, <1>10, <1>11, <1>12, <1>13, <1>14, <1>15 DEF n

\* A sum is not 0 exactly if one of its numbers is not.
LEMMA SumIsZero ==
  ASSUME NEW n \in Nat, NEW h \in [0..n -> Nat], NEW w, \A i \in 1..n : w[i] \in Nat,
         h[0] = 0, \A i \in 1..n : h[i] = h[i - 1] + w[i]
  PROVE  (\E i \in 1..n : w[i] # 0) <=> h[n] > 0
<1>1. \A i \in 1..n : i - 1 \in 0..n /\ i \in 0..n /\ h[i - 1] \in Nat /\ h[i] \in Nat
  OBVIOUS
<1>2. h[n] \in Nat /\ n \in 0..n /\ 0 \in 0..n
  OBVIOUS
<1>3. ASSUME NEW i \in 1..n, w[i] # 0 PROVE h[n] > 0
  <2>1. \A j \in 1..n : h[j - 1] <= h[j]
    <3> TAKE j \in 1..n
    <3>1. h[j - 1] <= h[j - 1] + w[j]
      BY Zenon, <1>1, Numbers
    <3> QED
      BY Zenon, <3>1
  <2>2. h[i] <= h[n]
    BY Zenon, <1>1, <2>1, SumsGrow
  <2>3. h[i] > 0
    <3>1. h[i - 1] + w[i] > 0
      BY Zenon, <1>1, <1>3, Numbers
    <3> QED
      BY Zenon, <3>1
  <2> QED
    BY Zenon, <1>1, <1>2, <2>2, <2>3, Numbers
<1>4. ASSUME \A i \in 1..n : w[i] = 0 PROVE h[n] = 0
  <2> DEFINE Z == {0}
  <2>1. \A i \in 1..n : h[i - 1] \in Z => h[i] \in Z
    <3> TAKE i \in 1..n
    <3> HAVE h[i - 1] \in Z
    <3>1. h[i] = h[i - 1] + 0
      BY Zenon, <1>4
    <3> QED
      BY Zenon, <1>1, <3>1, Numbers
  <2>2. h[0] \in Z
    BY Zenon
  <2> HIDE DEF Z
  <2>3. \A i \in 0..n : h[i] \in Z
    BY <2>1, <2>2, Values, Zenon
  <2> QED
    BY Zenon, <1>2, <2>3 DEF Z
<1> QED
  BY Zenon, <1>2, <1>3, <1>4, Numbers

\* ffiovec_array_shift() takes exactly the bytes it is told to skip from a vector
\* that has them, and says that there is more exactly if a byte is left.
THEOREM ShiftIsExact ==
  ASSUME NEW v \in Seq(Nat), NEW skip \in Nat, skip <= Left(v)
  PROVE  LET s == ffiovec_array_shift(v, skip)
         IN  s.v \in Seq(Nat) /\ Left(s.v) = Left(v) - skip /\ (s.more <=> Left(s.v) > 0)
<1>1. PICK w \in Seq(Nat), h \in [0..Len(v) -> Nat] :
        /\ Len(w) = Len(v)
        /\ ffiovec_array_shift(v, skip) = [v |-> w, more |-> \E i \in 1..Len(v) : w[i] # 0]
        /\ h[0] = 0 /\ \A i \in 1..Len(v) : h[i] = h[i - 1] + w[i]
        /\ h[Len(v)] = Kept(Left(v), skip)
        /\ Left(v) \in Nat
  BY Zenon, ShiftSums
<1>2. Left(w) = h[Len(v)]
  BY Zenon, <1>1, SumIs
<1>3. Len(v) \in Nat /\ \A i \in 1..Len(v) : w[i] \in Nat
  BY Zenon, <1>1, LenProperties, ElementOfSeq
<1>4. (\E i \in 1..Len(v) : w[i] # 0) <=> h[Len(v)] > 0
  BY Zenon, <1>1, <1>3, SumIsZero
<1>5. Left(w) = Left(v) - skip
  BY Zenon, <1>1, <1>2, KeptIs
<1>6. PICK s : s = ffiovec_array_shift(v, skip) /\ s = [v |-> w, more |-> \E i \in 1..Len(v) : w[i] # 0]
  BY Zenon, <1>1
<1>7. s.v = w /\ (s.more <=> \E i \in 1..Len(v) : w[i] # 0)
  BY <1>6
<1> QED
  BY Zenon, <1>1, <1>2, <1>4, <1>5, <1>6, <1>7

\* The bytes of a vector are a number.
LEMMA LeftIsNat ==
  ASSUME NEW v \in Seq(Nat)
  PROVE  Left(v) \in Nat
<1>1. 0 \in Nat
  OBVIOUS
<1> QED
  BY Zenon, <1>1, ShiftSums

-----------------------------------------------------------------------------
(* The items of a stream                                                   *)

\* A stretch of the stream, and two of them that meet.
LEMMA Stretches ==
  ASSUME NEW m \in Nat, NEW n \in Nat, m <= n
  PROVE  /\ From(m, n) \in Seq(Nat) /\ Len(From(m, n)) = n - m
         /\ \A i \in 1 .. n - m : From(m, n)[i] = m + i
<1>1. n - m \in Nat
  OBVIOUS
<1> QED
  BY <1>1 DEF From

\* The stream from its beginning.
LEMMA Beginnings ==
  ASSUME NEW n \in Nat
  PROVE  From(0, n) \in Seq(Nat) /\ Len(From(0, n)) = n /\ \A i \in 1..n : From(0, n)[i] = i
<1>1. From(0, n) = [i \in 1..n |-> i]
  BY DEF From
<1> QED
  BY <1>1

\* Two stretches that meet make one.
LEMMA Meet ==
  ASSUME NEW m \in Nat, NEW n \in Nat, m <= n
  PROVE  From(0, m) \o From(m, n) = From(0, n)
<1>1. PICK s \in Seq(Nat) : s = From(0, m) /\ Len(s) = m /\ \A i \in 1..m : s[i] = i
  BY Zenon, Beginnings
<1>2. PICK t \in Seq(Nat) : t = From(m, n) /\ Len(t) = n - m /\ \A i \in 1 .. n - m : t[i] = m + i
  BY Zenon, Stretches
<1>3. PICK u \in Seq(Nat) : u = From(0, n) /\ Len(u) = n /\ \A i \in 1..n : u[i] = i
  BY Zenon, Beginnings
<1>4. PICK c \in Seq(Nat) :
        /\ c = s \o t /\ Len(c) = Len(s) + Len(t)
        /\ \A i \in 1 .. Len(s) + Len(t) : c[i] = IF i <= Len(s) THEN s[i] ELSE t[i - Len(s)]
  <2>1. /\ s \o t \in Seq(Nat) /\ Len(s \o t) = Len(s) + Len(t)
        /\ \A i \in 1 .. Len(s) + Len(t) : (s \o t)[i] = IF i <= Len(s) THEN s[i] ELSE t[i - Len(s)]
    BY ConcatProperties
  <2> QED
    BY Zenon, <2>1
<1>5. Len(s) + Len(t) = n
  <2>1. m + (n - m) = n
    OBVIOUS
  <2> QED
    BY Zenon, <1>1, <1>2, <2>1
<1>6. ASSUME NEW i \in 1..n PROVE c[i] = i
  <2>1. c[i] = IF i <= m THEN s[i] ELSE t[i - m]
    BY Zenon, <1>1, <1>4, <1>5
  <2>2. CASE i <= m
    BY <1>1, <2>1, <2>2
  <2>3. CASE i > m
    <3>1. i - m \in 1 .. n - m /\ m + (i - m) = i /\ ~(i <= m)
      BY <2>3
    <3> QED
      BY Zenon, <1>2, <2>1, <3>1
  <2>4. i <= m \/ i > m
    OBVIOUS
  <2> QED
    BY Zenon, <2>2, <2>3, <2>4
<1>7. \A i \in 1..n : c[i] = u[i]
  BY Zenon, <1>3, <1>6
<1>8. c = u
  BY Zenon, <1>3, <1>4, <1>5, <1>7, SeqEqual
<1> QED
  BY Zenon, <1>1, <1>2, <1>3, <1>4, <1>8

-----------------------------------------------------------------------------
(* The inductive invariant                                                 *)

Senders == {"send", "sendv"}
Tasks   == [active : BOOLEAN, over : {"none", "pending", "ok", "failed"}, items : Seq(Nat)]
States  == {"call", "wait", "arm", "done", "failed"}

\* A completed request holds something that the caller has not seen; its items.
Holds(op) == task[op].active /\ task[op].over = "ok"
Held(op)  == IF Holds(op) THEN task[op].items ELSE << >>

\* The send buffer never holds more than its size.
Types ==
  /\ os \in Systems /\ ops \in Scenarios
  /\ arrived \in Nat /\ taken \in 0..arrived
  /\ wire \in Seq(Nat) /\ drained \in 0..Len(wire) /\ Len(wire) - drained <= Room
  /\ port \in Seq(ops)
  /\ task \in [ops -> Tasks] /\ st \in [ops -> States]
  /\ got \in Seq(Nat) /\ iov \in Seq(Nat) /\ acked \in Nat

\* What the task tells, and where the caller stands.
Standing ==
  \A op \in ops :
    /\ ~attached => st[op] = "call" /\ task[op] = Idle
    /\ os # "windows" => task[op].over = "none" /\ st[op] # "arm"
    /\ task[op].over = "pending" => task[op].active
    /\ st[op] = "arm" => ~task[op].active

\* A request that is not complete has received nothing, and that of recv() never does.
Reading ==
  \A op \in ops \cap Readers :
    /\ got \o Held(op) = From(0, taken)
    /\ task[op].over = "pending" \/ op = "recv" => task[op].items = << >>

\* A request that is not complete has the next byte; there is something to send
\* unless nothing was tried; on UNIX the caller waits where the kernel remembers it.
Writing ==
  \A op \in ops \cap Senders :
    /\ wire = From(0, acked + (IF Holds(op) THEN 1 ELSE 0))
    /\ \E v \in Vectors : Left(v) = acked + Left(iov)
    /\ task[op].over = "pending" => task[op].items = From(acked, acked + 1)
    /\ st[op] \in {"call", "wait", "arm"} =>
         Left(iov) >= 1 \/ (wire = << >> /\ st[op] = "call" /\ ~task[op].active)
    /\ os # "windows" /\ st[op] = "wait" => nospace \/ broken \/ Len(wire) - drained < Room

\* The connection is as the task and the event have it.
Connecting ==
  /\ "connect" \notin ops => conn = "none"
  /\ "connect" \in ops =>
       /\ ~broken /\ conn \in {"none", "progress", "up", "refused"}
       /\ st["connect"] # "arm"
       /\ st["connect"] = "done" => conn = "up"
       /\ st["connect"] = "failed" => conn \in {"none", "refused"}
       /\ st["connect"] = "wait" => task["connect"].active /\ conn # "none"
       /\ st["connect"] = "call" /\ ~task["connect"].active => conn = "none" /\ task["connect"].over = "none"
       /\ st["connect"] = "call" /\ task["connect"].active /\ os # "windows" =>
            conn \in {"up", "refused"} /\ (conn = "refused" => kev)
       /\ task["connect"].over = "pending" => conn # "none"
       /\ task["connect"].over = "ok" => conn = "up"
       /\ task["connect"].over = "failed" => conn = "refused"

AsyncInv == Types /\ Standing /\ NoLostWakeup /\ Reading /\ Writing /\ Connecting

-----------------------------------------------------------------------------
(* How the calls end                                                       *)

\* Only this operation's task and standing change, and nothing but calls changes.
Only(op) ==
  /\ UNCHANGED <<os, ops, attached, arrived, drained, broken, edge, port, kev>>
  /\ attached /\ st[op] \in {"call", "arm"}
  /\ task' = [task EXCEPT ![op] = task'[op]] /\ st' = [st EXCEPT ![op] = st'[op]]

\* Where the caller stands now, and the task.
Now(op, s, active, over, items) ==
  st'[op] = s /\ task'[op] = [active |-> active, over |-> over, items |-> items]
Rests(op, s) == Now(op, s, FALSE, task[op].over, task[op].items)

\* Nothing but a byte to receive was announced, if anything.
Free(op) == Holds(op) => op = "recv"

Took(op) ==
  /\ op \in Readers /\ Free(op) /\ Rests(op, "call") /\ task[op].over # "pending"
  /\ \E n \in 1 .. arrived - taken : taken' = taken + n /\ got' = got \o From(taken, taken + n)
  /\ UNCHANGED <<conn, wire, nospace, iov, acked>>
Gave(op) ==
  /\ op \in Readers /\ Holds(op) /\ Rests(op, "call")
  /\ got' = got \o task[op].items
  /\ UNCHANGED <<taken, conn, wire, nospace, iov, acked>>
Waits(op) ==
  /\ op \in Readers /\ os # "windows" /\ arrived = taken /\ ~broken
  /\ \E b \in BOOLEAN : Now(op, "wait", b, task[op].over, task[op].items)
  /\ UNCHANGED <<taken, conn, wire, nospace, got, iov, acked>>
Fails(op) ==
  /\ op # "connect" /\ Free(op)
  /\ \E b \in BOOLEAN : /\ Now(op, "failed", b, task[op].over, task[op].items)
                        /\ b => task[op].active
                        /\ task[op].over # "pending"
  /\ UNCHANGED <<taken, conn, wire, nospace, got, iov, acked>>
Pends(op) ==
  /\ os = "windows" /\ task[op].active /\ task[op].over = "pending"
  /\ st'[op] = "wait" /\ task'[op] = task[op]
  /\ UNCHANGED <<taken, conn, wire, nospace, got, iov, acked>>
Arms(op) ==
  /\ op # "connect" /\ os = "windows" /\ Free(op) /\ Rests(op, "arm") /\ task[op].over # "pending"
  /\ op \in Senders => ~broken /\ Len(wire) - drained = Room
  /\ UNCHANGED <<taken, conn, wire, got, iov, acked>>
Starts(op) ==
  /\ op # "connect" /\ os = "windows" /\ ~task[op].active
  /\ op \in Senders => st[op] = "arm"
  /\ Now(op, "wait", TRUE, "pending", IF op \in Senders THEN From(acked, acked + 1) ELSE << >>)
  /\ UNCHANGED <<taken, conn, wire, nospace, got, iov, acked>>
Full(op) ==
  /\ op \in Senders /\ os # "windows" /\ ~broken /\ Len(wire) - drained = Room
  /\ Now(op, "wait", TRUE, task[op].over, task[op].items)
  /\ nospace' = TRUE
  /\ UNCHANGED <<taken, conn, wire, got, iov, acked>>
Shifts(op, n) ==
  LET s == ffiovec_array_shift(iov, n) IN
  /\ op \in Senders /\ task[op].over # "pending"
  /\ iov' = s.v /\ acked' = acked + n
  /\ Rests(op, IF s.more THEN "call" ELSE "done")
  /\ UNCHANGED <<taken, conn, nospace, got>>
Sends(op) ==
  /\ ~Holds(op) /\ st[op] = "call" /\ ~broken
  /\ \E n \in Nat : /\ n <= Left(iov) /\ n <= Room - (Len(wire) - drained)
                    /\ wire' = wire \o From(acked, acked + n)
                    /\ Shifts(op, n)
Reports(op) == Holds(op) /\ st[op] = "call" /\ Shifts(op, 1) /\ UNCHANGED wire
Connects(op) ==
  /\ op = "connect" /\ st[op] = "call"
  /\ \/ os # "windows" /\ ffsock_connect_async_unix
     \/ os = "windows" /\ ffsock_connect_async_win
  /\ UNCHANGED <<taken, wire, nospace>>

Outcome(op) ==
  \/ Took(op) \/ Gave(op) \/ Waits(op) \/ Fails(op) \/ Pends(op) \/ Arms(op) \/ Starts(op)
  \/ Full(op) \/ Sends(op) \/ Reports(op) \/ Connects(op)

\* What the scenarios are: at most one operation reads, at most one sends, and
\* connecting goes on alone.
LEMMA Together ==
  ASSUME Types
  PROVE  /\ ops \subseteq Ops
         /\ "connect" \in ops => ops = {"connect"}
         /\ \A o, p \in ops : o \in Readers /\ p \in Readers => o = p
         /\ \A o, p \in ops : o \in Senders /\ p \in Senders => o = p
<1>1. /\ ops \subseteq {"recv", "udp", "recvfrom", "accept", "pipe", "filemon", "send", "sendv", "connect"}
      /\ "connect" \in ops => ops = {"connect"}
      /\ \A o, p \in ops : o # p => {o, p} \cap {"send", "sendv"} # {} /\ {o, p} # {"send", "sendv"}
  BY Zenon, AsyncIOAssumption DEF Types
<1>2. ops \subseteq Ops
  BY Zenon, <1>1 DEF Ops, Readers, Writers
<1>3. ASSUME NEW o \in ops, NEW p \in ops, o \in Readers, p \in Readers PROVE o = p
  <2>1. o \notin {"send", "sendv"} /\ p \notin {"send", "sendv"}
    BY <1>3 DEF Readers
  <2>2. {o, p} \cap {"send", "sendv"} = {}
    BY Zenon, <2>1
  <2> QED
    BY Zenon, <1>1, <2>2
<1>4. ASSUME NEW o \in ops, NEW p \in ops, o \in Senders, p \in Senders PROVE o = p
  <2>1. o # p => {o, p} = {"send", "sendv"}
    BY <1>4 DEF Senders
  <2> QED
    BY Zenon, <1>1, <2>1
<1> QED
  BY Zenon, <1>1, <1>2, <1>3, <1>4

\* A call on this operation is under way, and nothing that calls leave alone changes.
Calling(op) ==
  /\ Types /\ Standing /\ op \in ops /\ attached /\ st[op] \in {"call", "arm"}
  /\ UNCHANGED <<os, ops, attached, arrived, drained, broken, edge, port, kev>>

\* The fields of a task, and what the assignments to it do.
LEMMA TaskFields ==
  ASSUME Types, NEW op \in ops
  PROVE  /\ task[op] \in Tasks /\ st[op] \in States
         /\ task[op].active \in BOOLEAN /\ task[op].items \in Seq(Nat)
         /\ task[op].over \in {"none", "pending", "ok", "failed"}
         /\ task[op] = [active |-> task[op].active, over |-> task[op].over, items |-> task[op].items]
<1>1. task[op] \in Tasks /\ st[op] \in States
  BY Zenon DEF Types
<1> QED
  BY <1>1 DEF Tasks

\* An assignment to task->active leaves the request alone.
LEMMA ActiveSets ==
  ASSUME Types, NEW op \in ops, NEW b \in BOOLEAN, Active(op, b)
  PROVE  /\ task' = [task EXCEPT ![op] = task'[op]]
         /\ task'[op] = [active |-> b, over |-> task[op].over, items |-> task[op].items]
<1>1. task \in [ops -> Tasks] /\ task' = [task EXCEPT ![op].active = b]
  BY Zenon DEF Types, Active
<1> QED
  BY <1>1 DEF Tasks

\* A new request fills the task.
LEMMA OverlappedSets ==
  ASSUME Types, NEW op \in ops, NEW is, Overlapped(op, is)
  PROVE  /\ task' = [task EXCEPT ![op] = task'[op]]
         /\ task'[op] = [active |-> TRUE, over |-> "pending", items |-> is]
<1>1. task \in [ops -> Tasks] /\ task' = [task EXCEPT ![op] = [active |-> TRUE, over |-> "pending", items |-> is]]
  BY Zenon DEF Types, Overlapped
<1> QED
  BY <1>1

\* A task that is left alone.
LEMMA TaskStays ==
  ASSUME Types, NEW op \in ops, UNCHANGED task
  PROVE  /\ task' = [task EXCEPT ![op] = task'[op]]
         /\ task'[op] = [active |-> task[op].active, over |-> task[op].over, items |-> task[op].items]
<1>1. task \in [ops -> Tasks]
  BY Zenon DEF Types
<1> QED
  BY <1>1 DEF Tasks

\* The caller goes to another place with one operation.
LEMMA StandsAt ==
  ASSUME Types, NEW op \in ops, NEW s, st' = [st EXCEPT ![op] = s]
  PROVE  st' = [st EXCEPT ![op] = st'[op]] /\ st'[op] = s
<1>1. st \in [ops -> States]
  BY Zenon DEF Types
<1> QED
  BY <1>1

\* The caller stays where it is.
LEMMA StandsStill ==
  ASSUME Types, NEW op \in ops, UNCHANGED st
  PROVE  st' = [st EXCEPT ![op] = st'[op]] /\ st'[op] = st[op]
<1>1. st \in [ops -> States]
  BY Zenon DEF Types
<1> QED
  BY <1>1

\* The ends of the calls, one by one.
LEMMA TookIf ==
  ASSUME NEW op, Calling(op), op \in Readers, Free(op), task[op].over # "pending", st[op] = "call",
         NEW most \in Nat, arrived > taken,
         \E n \in 1 .. Min({most, arrived - taken}) : taken' = taken + n /\ Received(op, From(taken, taken + n)),
         Active(op, FALSE), UNCHANGED <<conn, wire, nospace>>
  PROVE  Only(op) /\ Took(op)
<1>1. /\ task' = [task EXCEPT ![op] = task'[op]]
      /\ task'[op] = [active |-> FALSE, over |-> task[op].over, items |-> task[op].items]
  BY Zenon, ActiveSets DEF Calling
<1>2. UNCHANGED <<st, iov, acked>>
  BY Zenon DEF Received
<1>3. st' = [st EXCEPT ![op] = st'[op]] /\ st'[op] = "call"
  BY Zenon, <1>2, StandsStill DEF Calling
<1>4. arrived \in Nat /\ taken \in Nat /\ arrived - taken \in Nat
  BY DEF Calling, Types
<1>5. \A n \in 1 .. Min({most, arrived - taken}) : n \in 1 .. arrived - taken
  <2>1. Min({most, arrived - taken}) = IF most <= arrived - taken THEN most ELSE arrived - taken
    BY Zenon, <1>4, SmallerOne
  <2> QED
    BY <1>4, <2>1
<1>6. \E n \in 1 .. arrived - taken : taken' = taken + n /\ got' = got \o From(taken, taken + n)
  BY Zenon, <1>5 DEF Received
<1>7. Only(op)
  BY Zenon, <1>1, <1>3 DEF Only, Calling
<1>8. Took(op)
  BY Zenon, <1>1, <1>2, <1>3, <1>6 DEF Took, Rests, Now
<1> QED
  BY Zenon, <1>7, <1>8

\* The call returns what the completed request has received.
LEMMA GaveIf ==
  ASSUME NEW op, Calling(op), op \in Readers, Holds(op), st[op] = "call",
         Received(op, task[op].items), Active(op, FALSE), UNCHANGED <<taken, conn, wire, nospace>>
  PROVE  Only(op) /\ Gave(op)
<1>1. /\ task' = [task EXCEPT ![op] = task'[op]]
      /\ task'[op] = [active |-> FALSE, over |-> task[op].over, items |-> task[op].items]
  BY Zenon, ActiveSets DEF Calling
<1>2. UNCHANGED <<st, iov, acked>> /\ got' = got \o task[op].items
  BY Zenon DEF Received
<1>3. st' = [st EXCEPT ![op] = st'[op]] /\ st'[op] = "call"
  BY Zenon, <1>2, StandsStill DEF Calling
<1>4. Only(op)
  BY Zenon, <1>1, <1>3 DEF Only, Calling
<1>5. Gave(op)
  BY Zenon, <1>1, <1>2, <1>3 DEF Gave, Rests, Now
<1> QED
  BY Zenon, <1>4, <1>5

\* A call on UNIX finds nothing to read and returns FFSOCK_EINPROGRESS.
LEMMA WaitsIf ==
  ASSUME NEW op, Calling(op), op \in Readers, os # "windows", arrived = taken, ~broken,
         InProgress(op), UNCHANGED task \/ Active(op, TRUE), UNCHANGED <<taken, conn, wire, nospace>>
  PROVE  Only(op) /\ Waits(op)
<1>1. task[op].active \in BOOLEAN
  BY Zenon, TaskFields DEF Calling
<1>2. \E b \in BOOLEAN :
        /\ task' = [task EXCEPT ![op] = task'[op]]
        /\ task'[op] = [active |-> b, over |-> task[op].over, items |-> task[op].items]
  <2>1. CASE UNCHANGED task
    BY Zenon, <1>1, <2>1, TaskStays DEF Calling
  <2>2. CASE Active(op, TRUE)
    <3>1. TRUE \in BOOLEAN
      OBVIOUS
    <3> QED
      BY Zenon, <2>2, <3>1, ActiveSets DEF Calling
  <2> QED
    BY Zenon, <2>1, <2>2
<1>3. UNCHANGED <<got, iov, acked>> /\ st' = [st EXCEPT ![op] = st'[op]] /\ st'[op] = "wait"
  BY Zenon, StandsAt DEF Calling, InProgress
<1>4. Only(op)
  BY Zenon, <1>2, <1>3 DEF Only, Calling
<1>5. Waits(op)
  BY Zenon, <1>2, <1>3 DEF Waits, Now
<1> QED
  BY Zenon, <1>4, <1>5

\* The call returns an error.
LEMMA FailsIf ==
  ASSUME NEW op, Calling(op), op # "connect", Free(op), task[op].over # "pending",
         Error(op), UNCHANGED task \/ Active(op, FALSE), UNCHANGED <<taken, conn, wire, nospace>>
  PROVE  Only(op) /\ Fails(op)
<1>1. task[op].active \in BOOLEAN
  BY Zenon, TaskFields DEF Calling
<1>2. \E b \in BOOLEAN :
        /\ b => task[op].active
        /\ task' = [task EXCEPT ![op] = task'[op]]
        /\ task'[op] = [active |-> b, over |-> task[op].over, items |-> task[op].items]
  <2>1. CASE UNCHANGED task
    BY Zenon, <1>1, <2>1, TaskStays DEF Calling
  <2>2. CASE Active(op, FALSE)
    <3>1. FALSE \in BOOLEAN
      OBVIOUS
    <3> QED
      BY Zenon, <2>2, <3>1, ActiveSets DEF Calling
  <2> QED
    BY Zenon, <2>1, <2>2
<1>3. UNCHANGED <<got, iov, acked>> /\ st' = [st EXCEPT ![op] = st'[op]] /\ st'[op] = "failed"
  BY Zenon, StandsAt DEF Calling, Error
<1>4. Only(op)
  BY Zenon, <1>2, <1>3 DEF Only, Calling
<1>5. Fails(op)
  BY Zenon, <1>2, <1>3 DEF Fails, Now
<1> QED
  BY Zenon, <1>4, <1>5

\* GetOverlappedResult() tells that the request is not complete.
LEMMA PendsIf ==
  ASSUME NEW op, Calling(op), os = "windows", task[op].active, task[op].over = "pending",
         InProgress(op), UNCHANGED task, UNCHANGED <<taken, conn, wire, nospace>>
  PROVE  Only(op) /\ Pends(op)
<1>1. task' = [task EXCEPT ![op] = task'[op]] /\ task'[op] = task[op]
  BY Zenon, TaskStays DEF Calling
<1>2. UNCHANGED <<got, iov, acked>> /\ st' = [st EXCEPT ![op] = st'[op]] /\ st'[op] = "wait"
  BY Zenon, StandsAt DEF Calling, InProgress
<1>3. Only(op)
  BY Zenon, <1>1, <1>2 DEF Only, Calling
<1>4. Pends(op)
  BY Zenon, <1>1, <1>2 DEF Pends
<1> QED
  BY Zenon, <1>3, <1>4

\* A call on Windows finds nothing and goes on to start a request.
LEMMA ArmsIf ==
  ASSUME NEW op, Calling(op), op # "connect", os = "windows", Free(op), task[op].over # "pending",
         op \in Senders => ~broken /\ Len(wire) - drained = Room,
         ToArm(op), UNCHANGED <<taken, conn, wire>>
  PROVE  Only(op) /\ Arms(op)
<1>1. /\ task' = [task EXCEPT ![op] = task'[op]]
      /\ task'[op] = [active |-> FALSE, over |-> task[op].over, items |-> task[op].items]
  BY Zenon, ActiveSets DEF Calling, ToArm
<1>2. UNCHANGED <<got, iov, acked>> /\ st' = [st EXCEPT ![op] = st'[op]] /\ st'[op] = "arm"
  BY Zenon, StandsAt DEF Calling, ToArm
<1>3. Only(op)
  BY Zenon, <1>1, <1>2 DEF Only, Calling
<1>4. Arms(op)
  BY Zenon, <1>1, <1>2 DEF Arms, Rests, Now
<1> QED
  BY Zenon, <1>3, <1>4

\* The request is started.
LEMMA StartsIf ==
  ASSUME NEW op, Calling(op), op # "connect", os = "windows", ~task[op].active,
         op \in Senders => st[op] = "arm",
         Overlapped(op, IF op \in Senders THEN From(acked, acked + 1) ELSE << >>),
         InProgress(op), UNCHANGED <<taken, conn, wire, nospace>>
  PROVE  Only(op) /\ Starts(op)
<1>1. /\ task' = [task EXCEPT ![op] = task'[op]]
      /\ task'[op] = [active |-> TRUE, over |-> "pending",
                      items |-> IF op \in Senders THEN From(acked, acked + 1) ELSE << >>]
  BY Zenon, OverlappedSets DEF Calling
<1>2. UNCHANGED <<got, iov, acked>> /\ st' = [st EXCEPT ![op] = st'[op]] /\ st'[op] = "wait"
  BY Zenon, StandsAt DEF Calling, InProgress
<1>3. Only(op)
  BY Zenon, <1>1, <1>2 DEF Only, Calling
<1>4. Starts(op)
  BY Zenon, <1>1, <1>2 DEF Starts, Now
<1> QED
  BY Zenon, <1>3, <1>4

\* A call on UNIX finds no room in the send buffer.
LEMMA FullIf ==
  ASSUME NEW op, Calling(op), op \in Senders, os # "windows", ~broken, Room - (Len(wire) - drained) = 0,
         InProgress(op), Active(op, TRUE), nospace' = TRUE, UNCHANGED <<taken, conn, wire>>
  PROVE  Only(op) /\ Full(op)
<1>1. /\ task' = [task EXCEPT ![op] = task'[op]]
      /\ task'[op] = [active |-> TRUE, over |-> task[op].over, items |-> task[op].items]
  BY Zenon, ActiveSets DEF Calling
<1>2. UNCHANGED <<got, iov, acked>> /\ st' = [st EXCEPT ![op] = st'[op]] /\ st'[op] = "wait"
  BY Zenon, StandsAt DEF Calling, InProgress
<1>3. Len(wire) - drained = Room
  BY AsyncIOAssumption DEF Calling, Types
<1>4. Only(op)
  BY Zenon, <1>1, <1>2 DEF Only, Calling
<1>5. Full(op)
  BY Zenon, <1>1, <1>2, <1>3 DEF Full, Now
<1> QED
  BY Zenon, <1>4, <1>5

\* What Sent() and the assignment to the task do.
LEMMA ShiftsIf ==
  ASSUME NEW op, Calling(op), op \in Senders, task[op].over # "pending",
         NEW n, Sent(op, n), Active(op, FALSE), UNCHANGED <<taken, conn, nospace>>
  PROVE  Only(op) /\ Shifts(op, n)
<1> DEFINE s == ffiovec_array_shift(iov, n)
           to == IF s.more THEN "call" ELSE "done"
<1>1. /\ task' = [task EXCEPT ![op] = task'[op]]
      /\ task'[op] = [active |-> FALSE, over |-> task[op].over, items |-> task[op].items]
  BY Zenon, ActiveSets DEF Calling
<1>2. iov' = s.v /\ acked' = acked + n /\ st' = [st EXCEPT ![op] = to] /\ UNCHANGED got
  BY Zenon DEF Sent
<1> HIDE DEF to, s
<1>3. st' = [st EXCEPT ![op] = st'[op]] /\ st'[op] = to
  BY Zenon, <1>2, StandsAt DEF Calling
<1>4. Only(op)
  BY Zenon, <1>1, <1>3 DEF Only, Calling
<1>5. Rests(op, to)
  BY Zenon, <1>1, <1>3 DEF Rests, Now
<1>6. Shifts(op, n)
  BY Zenon, <1>2, <1>5 DEF Shifts, s, to
<1> QED
  BY Zenon, <1>4, <1>6

\* send() takes what there is room for.
LEMMA SendsIf ==
  ASSUME NEW op, Calling(op), op \in Senders, task[op].over # "pending", ~Holds(op), st[op] = "call", ~broken,
         NEW n, n = Min({Left(iov), Room - (Len(wire) - drained)}),
         wire' = wire \o From(acked, acked + n),
         Sent(op, n), Active(op, FALSE), UNCHANGED <<taken, conn, nospace>>
  PROVE  Only(op) /\ Sends(op)
<1>1. Only(op) /\ Shifts(op, n)
  BY Zenon, ShiftsIf
<1>2. Room - (Len(wire) - drained) \in Nat
  BY AsyncIOAssumption DEF Calling, Types
<1>3. Left(iov) \in Nat
  BY Zenon, LeftIsNat DEF Calling, Types
<1>4. n \in Nat /\ n <= Left(iov) /\ n <= Room - (Len(wire) - drained)
  <2> DEFINE l == Left(iov)
             f == Room - (Len(wire) - drained)
  <2>1. l \in Nat /\ f \in Nat /\ n = Min({l, f})
    BY Zenon, <1>2, <1>3
  <2> HIDE DEF l, f
  <2>2. n = IF l <= f THEN l ELSE f
    BY Zenon, <2>1, SmallerOne
  <2>3. n \in Nat /\ n <= l /\ n <= f
    BY <2>1, <2>2
  <2> QED
    BY Zenon, <2>3 DEF l, f
<1>5. Sends(op)
  BY Zenon, <1>1, <1>4 DEF Sends
<1> QED
  BY Zenon, <1>1, <1>5

\* The call reports the byte that the completed request has sent.
LEMMA ReportsIf ==
  ASSUME NEW op, Calling(op), op \in Senders, Holds(op), st[op] = "call",
         Sent(op, 1), Active(op, FALSE), UNCHANGED <<taken, conn, wire, nospace>>
  PROVE  Only(op) /\ Reports(op)
<1>1. task[op].over # "pending"
  BY Zenon DEF Holds
<1>2. Only(op) /\ Shifts(op, 1)
  BY Zenon, <1>1, ShiftsIf
<1> QED
  BY Zenon, <1>2 DEF Reports

\* The connection: one task, one standing.
LEMMA ConnectsIf ==
  ASSUME NEW op, Calling(op), op = "connect", st[op] = "call", UNCHANGED <<taken, wire, nospace>>,
         \/ os # "windows" /\ ffsock_connect_async_unix
         \/ os = "windows" /\ ffsock_connect_async_win
  PROVE  Only(op) /\ Connects(op)
<1>1. UNCHANGED task \/ Active(op, TRUE) \/ Active(op, FALSE) \/ Overlapped(op, << >>)
  BY Zenon DEF ffsock_connect_async_unix, ffsock_connect_async_win, Again, Polled
<1>2. task' = [task EXCEPT ![op] = task'[op]]
  <2>1. TRUE \in BOOLEAN /\ FALSE \in BOOLEAN
    OBVIOUS
  <2> QED
    BY Zenon, <1>1, <2>1, TaskStays, ActiveSets, OverlappedSets DEF Calling
<1>3. InProgress(op) \/ Error(op) \/ Done(op)
  BY Zenon DEF ffsock_connect_async_unix, ffsock_connect_async_win, Again, Polled
<1>4. st' = [st EXCEPT ![op] = st'[op]]
  BY Zenon, <1>3, StandsAt DEF Calling, InProgress, Error, Done
<1>5. Only(op)
  BY Zenon, <1>2, <1>4 DEF Only, Calling
<1> QED
  BY Zenon, <1>5 DEF Connects

\* A system call that reads: what it takes, its failure.
Attempts(op, most) ==
  \/ /\ arrived > taken
     /\ \E n \in 1 .. Min({most, arrived - taken}) : taken' = taken + n /\ Received(op, From(taken, taken + n))
     /\ Active(op, FALSE)
  \/ arrived = taken /\ broken /\ Error(op) /\ Active(op, FALSE) /\ UNCHANGED taken

\* Both end the call for good.
LEMMA AttemptsEnd ==
  ASSUME NEW op, Calling(op), op \in Readers, Free(op), task[op].over # "pending", st[op] = "call",
         NEW most \in Nat, Attempts(op, most), UNCHANGED <<conn, wire, nospace>>
  PROVE  Only(op) /\ Outcome(op)
<1>1. op # "connect"
  BY DEF Readers
<1>2. Only(op) /\ (Took(op) \/ Fails(op))
  BY Zenon, <1>1, TookIf, FailsIf DEF Attempts
<1> QED
  BY Zenon, <1>2 DEF Outcome

\* A system call that sends: what it sends, its failure.
Tries(op) ==
  LET free == Room - (Len(wire) - drained)
      n    == Min({Left(iov), free})
  IN
  \/ /\ ~broken /\ free > 0
     /\ wire' = wire \o From(acked, acked + n)
     /\ Sent(op, n) /\ Active(op, FALSE) /\ UNCHANGED nospace
  \/ broken /\ Error(op) /\ Active(op, FALSE) /\ UNCHANGED <<wire, nospace>>

\* Both end the call for good.
LEMMA TriesEnd ==
  ASSUME NEW op, Calling(op), op \in Senders, ~Holds(op), task[op].over # "pending", st[op] = "call",
         Tries(op), UNCHANGED <<conn, taken>>
  PROVE  Only(op) /\ Outcome(op)
<1>1. op # "connect"
  BY DEF Senders
<1>2. CASE broken
  <2>1. Error(op) /\ Active(op, FALSE) /\ UNCHANGED <<wire, nospace>>
    BY Zenon, <1>2 DEF Tries
  <2>2. Only(op) /\ Fails(op)
    BY Zenon, <1>1, <2>1, FailsIf DEF Free
  <2> QED
    BY Zenon, <2>2 DEF Outcome
<1>3. CASE ~broken
  <2>1. \E n : /\ n = Min({Left(iov), Room - (Len(wire) - drained)})
               /\ wire' = wire \o From(acked, acked + n)
               /\ Sent(op, n) /\ Active(op, FALSE) /\ UNCHANGED nospace
    BY Zenon, <1>3 DEF Tries
  <2>2. Only(op) /\ Sends(op)
    BY Zenon, <1>3, <2>1, SendsIf
  <2> QED
    BY Zenon, <2>2 DEF Outcome
<1> QED
  BY Zenon, <1>2, <1>3

\* Every call on UNIX ends in one of the ways above.
LEMMA UnixOutcome ==
  ASSUME AsyncInv, NEW op \in ops, UnixCall(op)
  PROVE  Only(op) /\ Outcome(op)
<1>1. Calling(op) /\ os # "windows" /\ st[op] = "call" /\ task[op].over = "none"
  BY Zenon DEF AsyncInv, UnixCall, Standing, Calling
<1>2. Free(op) /\ task[op].over # "pending" /\ ~Holds(op)
  BY Zenon, <1>1 DEF Free, Holds
<1>3. MaxItems \in Nat /\ 1 \in Nat
  BY AsyncIOAssumption
<1>4. ASSUME op \in Readers, NEW most \in Nat, UNCHANGED <<conn, wire, nospace>>,
             \/ TryRead(op, most, Again(op))
             \/ TryRead(op, most, InProgress(op) /\ UNCHANGED task)
      PROVE  Only(op) /\ Outcome(op)
  <2>1. CASE Attempts(op, most)
    BY Zenon, <1>1, <1>2, <1>4, <2>1, AttemptsEnd
  <2>2. CASE arrived = taken /\ ~broken /\ InProgress(op) /\ (UNCHANGED task \/ Active(op, TRUE)) /\ UNCHANGED taken
    <3>1. Only(op) /\ Waits(op)
      BY Zenon, <1>1, <1>4, <2>2, WaitsIf
    <3> QED
      BY Zenon, <3>1 DEF Outcome
  <2> QED
    BY Zenon, <1>4, <2>1, <2>2 DEF TryRead, Attempts, Again
<1>5. ASSUME op \in Senders, UNCHANGED <<conn, taken>>, TrySend(op, Again(op))
      PROVE  Only(op) /\ Outcome(op)
  <2>1. CASE Tries(op)
    BY Zenon, <1>1, <1>2, <1>5, <2>1, TriesEnd
  <2>2. CASE /\ ~broken /\ Room - (Len(wire) - drained) = 0
             /\ InProgress(op) /\ Active(op, TRUE) /\ nospace' = TRUE /\ UNCHANGED wire
    <3>1. Only(op) /\ Full(op)
      BY Zenon, <1>1, <1>5, <2>2, FullIf
    <3> QED
      BY Zenon, <3>1 DEF Outcome
  <2> QED
    BY Zenon, <1>5, <2>1, <2>2 DEF TrySend, Tries, Again
<1>6. ASSUME op \in Readers, UNCHANGED <<conn, wire, nospace>>,
             \/ op = "recv"     /\ ffsock_recv_async_unix
             \/ op = "udp"      /\ ffsock_recv_udp_async_unix
             \/ op = "recvfrom" /\ ffsock_recvfrom_async_unix
             \/ op = "accept"   /\ ffsock_accept_async_unix
             \/ op = "pipe"     /\ ffpipe_accept_async_unix
             \/ op = "filemon"  /\ fffilemon_read_async
      PROVE  Only(op) /\ Outcome(op)
  <2>1. CASE op \in {"recv", "udp", "recvfrom", "accept"}
    <3>1. TryRead(op, MaxItems, Again(op)) \/ TryRead(op, 1, Again(op))
      BY Zenon, <1>6, <2>1 DEF ffsock_recv_async_unix, ffsock_recv_udp_async_unix, ffsock_recvfrom_async_unix,
                               ffsock_accept_async_unix
    <3> QED
      BY Zenon, <1>3, <1>4, <1>6, <3>1
  <2>2. CASE op \in {"pipe", "filemon"}
    <3>1. \/ TryRead(op, MaxItems, InProgress(op) /\ UNCHANGED task)
          \/ TryRead(op, 1, InProgress(op) /\ UNCHANGED task)
      BY Zenon, <1>6, <2>2 DEF ffpipe_accept_async_unix, fffilemon_read_async
    <3> QED
      BY Zenon, <1>3, <1>4, <1>6, <3>1
  <2> QED
    BY Zenon, <1>6, <2>1, <2>2
<1>7. ASSUME op \in Senders, UNCHANGED <<conn, taken>>,
             \/ op = "send"  /\ ffsock_send_async_unix
             \/ op = "sendv" /\ ffsock_sendv_async_unix
      PROVE  Only(op) /\ Outcome(op)
  BY Zenon, <1>5, <1>7 DEF ffsock_send_async_unix, ffsock_sendv_async_unix
<1>8. ASSUME op = "connect", ffsock_connect_async_unix, UNCHANGED <<taken, wire, nospace>>
      PROVE  Only(op) /\ Outcome(op)
  <2>1. Only(op) /\ Connects(op)
    BY Zenon, <1>1, <1>8, ConnectsIf
  <2> QED
    BY Zenon, <2>1 DEF Outcome
<1> QED
  BY Zenon, <1>6, <1>7, <1>8 DEF UnixCall, Readers, Senders

\* Every call on Windows, up to where it starts a request, ends so, too.
LEMMA WinOutcome ==
  ASSUME AsyncInv, NEW op \in ops, WinCall(op)
  PROVE  Only(op) /\ Outcome(op)
<1>1. Calling(op) /\ os = "windows" /\ st[op] = "call" /\ (task[op].over = "pending" => task[op].active)
  BY Zenon DEF AsyncInv, WinCall, Standing, Calling
<1>2. MaxItems \in Nat /\ 1 \in Nat
  BY AsyncIOAssumption
<1>3. ASSUME op # "connect", UNCHANGED <<taken, conn, wire, nospace>>,
             \/ task[op].active /\ task[op].over = "pending" /\ InProgress(op) /\ UNCHANGED task
             \/ task[op].active /\ task[op].over = "failed" /\ Error(op) /\ Active(op, FALSE)
      PROVE  Only(op) /\ Outcome(op)
  <2>1. CASE task[op].active /\ task[op].over = "pending" /\ InProgress(op) /\ UNCHANGED task
    <3>1. Only(op) /\ Pends(op)
      BY Zenon, <1>1, <1>3, <2>1, PendsIf
    <3> QED
      BY Zenon, <3>1 DEF Outcome
  <2>2. CASE task[op].active /\ task[op].over = "failed" /\ Error(op) /\ Active(op, FALSE)
    <3>1. Free(op) /\ task[op].over # "pending"
      BY Zenon, <2>2 DEF Free, Holds
    <3>2. Only(op) /\ Fails(op)
      BY Zenon, <1>1, <1>3, <2>2, <3>1, FailsIf
    <3> QED
      BY Zenon, <3>2 DEF Outcome
  <2> QED
    BY Zenon, <1>3, <2>1, <2>2
<1>4. ASSUME op \in Readers, UNCHANGED <<taken, conn, wire, nospace>>,
             Polled(op, Received(op, task[op].items)) \/ Polled(op, FALSE)
      PROVE  Only(op) /\ Outcome(op)
  <2>1. CASE task[op].active /\ task[op].over = "ok" /\ Received(op, task[op].items) /\ Active(op, FALSE)
    <3>1. Only(op) /\ Gave(op)
      BY Zenon, <1>1, <1>4, <2>1, GaveIf DEF Holds
    <3> QED
      BY Zenon, <3>1 DEF Outcome
  <2>2. op # "connect"
    BY <1>4 DEF Readers
  <2> QED
    BY Zenon, <1>3, <1>4, <2>1, <2>2 DEF Polled
<1>5. ASSUME op \in Readers, UNCHANGED <<conn, wire, nospace>>, NEW most \in Nat,
             Free(op), task[op].over # "pending", TryRead(op, most, ToArm(op))
      PROVE  Only(op) /\ Outcome(op)
  <2>1. CASE Attempts(op, most)
    BY Zenon, <1>1, <1>5, <2>1, AttemptsEnd
  <2>2. CASE ToArm(op) /\ UNCHANGED taken
    <3>1. op # "connect" /\ op \notin Senders
      BY <1>5 DEF Readers, Senders
    <3>2. Only(op) /\ Arms(op)
      BY Zenon, <1>1, <1>5, <2>2, <3>1, ArmsIf
    <3> QED
      BY Zenon, <3>2 DEF Outcome
  <2> QED
    BY Zenon, <1>5, <2>1, <2>2 DEF TryRead, Attempts
<1>6. ASSUME op \in Senders, UNCHANGED <<conn, taken>>,
             \/ Polled(op, Sent(op, 1)) /\ UNCHANGED <<wire, nospace>>
             \/ ~task[op].active /\ TrySend(op, ToArm(op))
      PROVE  Only(op) /\ Outcome(op)
  <2>1. op # "connect"
    BY <1>6 DEF Senders
  <2>2. CASE /\ task[op].active /\ task[op].over = "ok" /\ Sent(op, 1) /\ Active(op, FALSE)
             /\ UNCHANGED <<wire, nospace>>
    <3>1. Only(op) /\ Reports(op)
      BY Zenon, <1>1, <1>6, <2>2, ReportsIf DEF Holds
    <3> QED
      BY Zenon, <3>1 DEF Outcome
  <2>3. CASE Polled(op, Sent(op, 1)) /\ UNCHANGED <<wire, nospace>>
    BY Zenon, <1>3, <1>6, <2>1, <2>2, <2>3 DEF Polled
  <2>4. CASE ~task[op].active /\ TrySend(op, ToArm(op))
    <3>1. ~Holds(op) /\ Free(op) /\ task[op].over # "pending"
      BY Zenon, <1>1, <2>4 DEF Holds, Free
    <3>2. CASE Tries(op)
      BY Zenon, <1>1, <1>6, <3>1, <3>2, TriesEnd
    <3>3. CASE ~broken /\ Room - (Len(wire) - drained) = 0 /\ ToArm(op) /\ UNCHANGED wire
      <4>1. Len(wire) - drained = Room
        BY <3>3, AsyncIOAssumption DEF AsyncInv, Types
      <4>2. Only(op) /\ Arms(op)
        BY ZenonT(60), <1>1, <1>6, <2>1, <3>1, <3>3, <4>1, ArmsIf
      <4> QED
        BY Zenon, <4>2 DEF Outcome
    <3> QED
      BY Zenon, <2>4, <3>2, <3>3 DEF TrySend, Tries
  <2> QED
    BY Zenon, <1>6, <2>3, <2>4
<1>7. ASSUME op \in Readers, UNCHANGED <<taken, conn, wire, nospace>>,
             ~task[op].active, Overlapped(op, << >>), InProgress(op)
      PROVE  Only(op) /\ Outcome(op)
  <2>1. op # "connect" /\ op \notin Senders
    BY <1>7 DEF Readers, Senders
  <2>2. Only(op) /\ Starts(op)
    BY Zenon, <1>1, <1>7, <2>1, StartsIf
  <2> QED
    BY Zenon, <2>2 DEF Outcome
<1>8. ~task[op].active => Free(op) /\ task[op].over # "pending"
  BY Zenon, <1>1 DEF Free, Holds
<1>15. ASSUME op \in Readers, UNCHANGED <<taken, conn, wire, nospace>>, NotStarted(op)
       PROVE  Only(op) /\ Outcome(op)
  <2>1. op # "connect"
    BY <1>15 DEF Readers
  <2>2. Only(op) /\ Fails(op)
    BY Zenon, <1>1, <1>8, <1>15, <2>1, FailsIf DEF NotStarted
  <2> QED
    BY Zenon, <2>2 DEF Outcome
<1>9. CASE op = "recv"
  <2>1. op \in Readers /\ UNCHANGED <<conn, wire, nospace>> /\ ffsock_recv_async_win
    BY Zenon, <1>9 DEF WinCall, Readers
  <2>2. CASE Polled(op, FALSE) /\ UNCHANGED taken
    BY Zenon, <1>4, <2>1, <2>2
  <2>3. CASE (task[op].active => task[op].over = "ok") /\ TryRead(op, MaxItems, ToArm(op))
    <3>1. Free(op) /\ task[op].over # "pending"
      BY Zenon, <1>1, <1>9, <2>3 DEF Free
    <3> QED
      BY Zenon, <1>2, <1>5, <2>1, <2>3, <3>1
  <2> QED
    BY Zenon, <1>9, <2>1, <2>2, <2>3 DEF ffsock_recv_async_win
<1>10. CASE op \in {"udp", "recvfrom", "accept"}
  <2>1. op \in Readers
    BY Zenon, <1>10 DEF Readers
  <2>2. /\ UNCHANGED <<conn, wire, nospace>>
        /\ \/ Polled(op, Received(op, task[op].items)) /\ UNCHANGED taken
           \/ ~task[op].active /\ TryRead(op, 1, ToArm(op))
    BY Zenon, <1>10 DEF WinCall, ffsock_recv_udp_async_win, ffsock_recvfrom_async_win, ffsock_accept_async_win
  <2> QED
    BY Zenon, <1>2, <1>4, <1>5, <1>8, <2>1, <2>2
<1>11. CASE op = "filemon"
  <2>1. op \in Readers /\ UNCHANGED <<conn, wire, nospace>> /\ _fffilemon_watch_read_async
    BY Zenon, <1>11 DEF WinCall, Readers
  <2> QED
    BY Zenon, <1>4, <1>7, <1>11, <1>15, <2>1 DEF _fffilemon_watch_read_async
<1>12. CASE op \in Senders
  <2>1. /\ UNCHANGED <<conn, taken>>
        /\ \/ Polled(op, Sent(op, 1)) /\ UNCHANGED <<wire, nospace>>
           \/ ~task[op].active /\ TrySend(op, ToArm(op))
    BY Zenon, <1>12 DEF WinCall, ffsock_send_async_win, ffsock_sendv_async_win, Senders
  <2> QED
    BY Zenon, <1>6, <1>12, <2>1
<1>13. CASE op = "connect"
  <2>1. ffsock_connect_async_win /\ UNCHANGED <<taken, wire, nospace>>
    BY Zenon, <1>13 DEF WinCall
  <2>2. Only(op) /\ Connects(op)
    BY Zenon, <1>1, <1>13, <2>1, ConnectsIf
  <2> QED
    BY Zenon, <2>2 DEF Outcome
<1>14. CASE op = "pipe"
  <2>1. op \in Readers /\ UNCHANGED <<conn, wire, nospace>> /\ ffpipe_accept_async_win
    BY Zenon, <1>14 DEF WinCall, Readers
  <2>2. CASE ~task[op].active /\ arrived > taken /\ taken' = taken + 1 /\ Received(op, From(taken, taken + 1)) /\ Active(op, FALSE)
    <3>1. 1 \in 1 .. Min({1, arrived - taken})
      <4>1. arrived - taken \in Nat /\ arrived - taken >= 1
        BY <2>2 DEF AsyncInv, Types
      <4>2. Min({1, arrived - taken}) = IF 1 <= arrived - taken THEN 1 ELSE arrived - taken
        BY Zenon, <1>2, <4>1, SmallerOne
      <4> QED
        BY <4>1, <4>2
    <3>2. Attempts(op, 1)
      BY Zenon, <2>2, <3>1 DEF Attempts
    <3> QED
      BY Zenon, <1>1, <1>2, <1>8, <2>1, <2>2, <3>2, AttemptsEnd
  <2> QED
    BY Zenon, <1>4, <1>7, <1>14, <1>15, <2>1, <2>2 DEF ffpipe_accept_async_win
<1> QED
  BY Zenon, <1>9, <1>10, <1>11, <1>12, <1>13, <1>14 DEF WinCall, Senders

\* So does the second half of a call on Windows, where it starts a request.
LEMMA ArmOutcome ==
  ASSUME AsyncInv, NEW op \in ops, Arm(op)
  PROVE  Only(op) /\ Outcome(op)
<1>1. Calling(op) /\ os = "windows" /\ st[op] = "arm" /\ ~task[op].active /\ task[op].over # "pending"
  <2>1. attached /\ os = "windows" /\ ~task[op].active /\ task[op].over # "pending"
    BY Zenon DEF AsyncInv, Standing, Arm
  <2>2. Types /\ Standing /\ UNCHANGED <<os, ops, attached, arrived, drained, broken, edge, port, kev>>
    BY Zenon DEF AsyncInv, Arm, kernelVars
  <2> QED
    BY Zenon, <2>1, <2>2 DEF Arm, Calling
<1>2. op # "connect"
  BY Zenon, <1>1 DEF AsyncInv, Connecting
<1>3. Free(op) /\ UNCHANGED <<taken, conn, wire, nospace>>
  BY Zenon, <1>1 DEF Free, Holds, Arm, kernelVars
<1>4. CASE Overlapped(op, IF op \in Writers THEN From(acked, acked + 1) ELSE << >>) /\ InProgress(op)
  <2>1. op \in Writers <=> op \in Senders
    BY <1>2 DEF Writers, Senders
  <2>2. Overlapped(op, IF op \in Senders THEN From(acked, acked + 1) ELSE << >>)
    BY Zenon, <1>4, <2>1
  <2>3. Only(op) /\ Starts(op)
    BY Zenon, <1>1, <1>2, <1>3, <1>4, <2>2, StartsIf
  <2> QED
    BY Zenon, <2>3 DEF Outcome
<1>5. CASE broken /\ Error(op) /\ UNCHANGED task
  <2>1. Only(op) /\ Fails(op)
    BY Zenon, <1>1, <1>2, <1>3, <1>5, FailsIf
  <2> QED
    BY Zenon, <2>1 DEF Outcome
<1> QED
  BY Zenon, <1>4, <1>5 DEF Arm

-----------------------------------------------------------------------------
(* The invariant and the calls                                             *)

\* The other operations are left alone.
LEMMA Others ==
  ASSUME Types, NEW op \in ops, Only(op)
  PROVE  \A o \in ops : o # op => task'[o] = task[o] /\ st'[o] = st[o]
<1>1. /\ task \in [ops -> Tasks] /\ st \in [ops -> States]
      /\ task' = [task EXCEPT ![op] = task'[op]] /\ st' = [st EXCEPT ![op] = st'[op]]
  BY Zenon DEF Types, Only
<1> QED
  BY <1>1

\* Readiness as an operation sees it.
LEMMA ReadyFor ==
  \A op : FilterOf(op) \in Ready <=> IF op \in Readers THEN Readable ELSE Writable
<1> SUFFICES ASSUME NEW op
             PROVE  FilterOf(op) \in Ready <=> IF op \in Readers THEN Readable ELSE Writable
  OBVIOUS
<1>1. "read" # "write"
  OBVIOUS
<1> QED
  BY Zenon, <1>1 DEF FilterOf, Ready

\* The same after a step.
LEMMA ReadyThen ==
  \A op : (FilterOf(op) \in Ready)' <=> IF op \in Readers THEN Readable' ELSE Writable'
<1> SUFFICES ASSUME NEW op
             PROVE  (FilterOf(op) \in Ready)' <=> IF op \in Readers THEN Readable' ELSE Writable'
  OBVIOUS
<1>1. "read" # "write"
  OBVIOUS
<1> QED
  BY Zenon, <1>1 DEF FilterOf, Ready

\* The ways in which ffsock_connect_async() ends.
ConnectEnd ==
  LET t == task["connect"]
      End(s, a, c) == Now("connect", s, a, t.over, t.items) /\ conn' = c
  IN
  /\ "connect" \in ops /\ st["connect"] = "call"
  /\ UNCHANGED <<got, iov, acked, taken, wire, nospace>>
  /\ \/ os # "windows" /\ t.active /\ kev /\ conn = "refused" /\ End("failed", FALSE, conn)
     \/ os # "windows" /\ t.active /\ ~(kev /\ conn = "refused") /\ End("done", FALSE, conn)
     \/ os # "windows" /\ ~t.active /\ End("wait", TRUE, "progress")
     \/ os # "windows" /\ ~t.active /\ End("done", FALSE, "up")
     \/ os # "windows" /\ ~t.active /\ End("failed", FALSE, "refused")
     \/ os = "windows" /\ t.active /\ t.over = "pending" /\ End("wait", t.active, conn)
     \/ os = "windows" /\ t.active /\ t.over = "failed" /\ End("failed", FALSE, conn)
     \/ os = "windows" /\ t.active /\ t.over = "ok" /\ End("done", FALSE, conn)
     \/ os = "windows" /\ ~t.active /\ End("failed", t.active, conn)
     \/ os = "windows" /\ ~t.active /\ Now("connect", "wait", TRUE, "pending", << >>) /\ conn' = "progress"

\* These are all.
LEMMA ConnectsTo ==
  ASSUME Types, NEW op \in ops, Only(op), Connects(op)
  PROVE  op = "connect" /\ ConnectEnd
<1> DEFINE t == task["connect"]
<1>1. op = "connect" /\ "connect" \in ops /\ st["connect"] = "call" /\ UNCHANGED <<taken, wire, nospace>>
  BY Zenon DEF Connects
<1>2. /\ t.active \in BOOLEAN
      /\ TRUE \in BOOLEAN /\ FALSE \in BOOLEAN
  BY Zenon, <1>1, TaskFields
<1>3. /\ Active("connect", TRUE)  => task'["connect"] = [active |-> TRUE, over |-> t.over, items |-> t.items]
      /\ Active("connect", FALSE) => task'["connect"] = [active |-> FALSE, over |-> t.over, items |-> t.items]
      /\ UNCHANGED task => task'["connect"] = [active |-> t.active, over |-> t.over, items |-> t.items]
      /\ Overlapped("connect", << >>) => task'["connect"] = [active |-> TRUE, over |-> "pending", items |-> << >>]
  BY Zenon, <1>1, <1>2, ActiveSets, TaskStays, OverlappedSets
<1>4. /\ InProgress("connect") => st'["connect"] = "wait" /\ UNCHANGED <<got, iov, acked>>
      /\ Error("connect") => st'["connect"] = "failed" /\ UNCHANGED <<got, iov, acked>>
      /\ Done("connect") => st'["connect"] = "done" /\ UNCHANGED <<got, iov, acked>>
  BY Zenon, <1>1, StandsAt DEF InProgress, Error, Done
<1> HIDE DEF t
<1>5. CASE os # "windows"
  <2>1. ffsock_connect_async_unix
    BY Zenon, <1>5 DEF Connects
  <2>2. UNCHANGED <<got, iov, acked>>
    BY Zenon, <1>4, <2>1 DEF ffsock_connect_async_unix, Again
  <2>3. \/ t.active /\ kev /\ conn = "refused" /\ st'["connect"] = "failed" /\ Active("connect", FALSE) /\ conn' = conn
        \/ t.active /\ ~(kev /\ conn = "refused") /\ st'["connect"] = "done" /\ Active("connect", FALSE) /\ conn' = conn
        \/ ~t.active /\ st'["connect"] = "wait" /\ Active("connect", TRUE) /\ conn' = "progress"
        \/ ~t.active /\ st'["connect"] = "done" /\ Active("connect", FALSE) /\ conn' = "up"
        \/ ~t.active /\ st'["connect"] = "failed" /\ Active("connect", FALSE) /\ conn' = "refused"
    BY Zenon, <1>4, <2>1 DEF ffsock_connect_async_unix, Again, t
  <2> QED
    BY Zenon, <1>1, <1>3, <1>5, <2>2, <2>3 DEF ConnectEnd, Now, t
<1>6. CASE os = "windows"
  <2>1. ffsock_connect_async_win
    BY Zenon, <1>6 DEF Connects
  <2>2. UNCHANGED <<got, iov, acked>>
    BY Zenon, <1>4, <2>1 DEF ffsock_connect_async_win, Polled
  <2>3. \/ t.active /\ t.over = "pending" /\ st'["connect"] = "wait" /\ UNCHANGED task /\ conn' = conn
        \/ t.active /\ t.over = "failed" /\ st'["connect"] = "failed" /\ Active("connect", FALSE) /\ conn' = conn
        \/ t.active /\ t.over = "ok" /\ st'["connect"] = "done" /\ Active("connect", FALSE) /\ conn' = conn
        \/ ~t.active /\ st'["connect"] = "failed" /\ UNCHANGED task /\ conn' = conn
        \/ ~t.active /\ st'["connect"] = "wait" /\ Overlapped("connect", << >>) /\ conn' = "progress"
    BY Zenon, <1>4, <2>1 DEF ffsock_connect_async_win, Polled, t
  <2> QED
    BY Zenon, <1>1, <1>3, <1>6, <2>2, <2>3 DEF ConnectEnd, Now, t
<1> QED
  BY Zenon, <1>1, <1>5, <1>6

\* The task and the standing that a call leaves are well-formed.
EndsWell(op, s, a, o, i) ==
  /\ Now(op, s, a, o, i)
  /\ os # "windows" => o = "none" /\ s # "arm"
  /\ o = "pending" => a
  /\ s = "arm" => ~a

\* Each of the ways in which calls end leaves such a task.
LEMMA CallEndsWell ==
  ASSUME AsyncInv, NEW op \in ops, Only(op), Outcome(op)
  PROVE  \E s \in States, a \in BOOLEAN, o \in {"none", "pending", "ok", "failed"}, i \in Seq(Nat) :
           EndsWell(op, s, a, o, i)
<1>1. /\ Types /\ st[op] \in States
      /\ task[op].active \in BOOLEAN /\ task[op].over \in {"none", "pending", "ok", "failed"}
      /\ task[op].items \in Seq(Nat)
      /\ task[op] = [active |-> task[op].active, over |-> task[op].over, items |-> task[op].items]
  BY Zenon, TaskFields DEF AsyncInv
<1>2. /\ os # "windows" => task[op].over = "none"
      /\ task[op].over = "pending" => task[op].active
  BY Zenon DEF AsyncInv, Standing
<1>3. TRUE \in BOOLEAN /\ FALSE \in BOOLEAN /\ << >> \in Seq(Nat)
  OBVIOUS
<1>4. /\ "call" \in States /\ "wait" \in States /\ "arm" \in States /\ "done" \in States /\ "failed" \in States
      /\ "pending" \in {"none", "pending", "ok", "failed"}
  BY Zenon DEF States
<1>5. "call" # "arm" /\ "wait" # "arm" /\ "done" # "arm" /\ "failed" # "arm" /\ "none" # "pending"
  OBVIOUS
<1>6. CASE Took(op)
  <2>1. Now(op, "call", FALSE, task[op].over, task[op].items) /\ task[op].over # "pending"
    BY Zenon, <1>6 DEF Took, Rests
  <2>2. EndsWell(op, "call", FALSE, task[op].over, task[op].items)
    BY ZenonT(60), <1>2, <1>5, <2>1 DEF EndsWell
  <2> QED
    BY Zenon, <1>1, <1>3, <1>4, <2>2
<1>7. CASE Gave(op)
  <2>1. Now(op, "call", FALSE, task[op].over, task[op].items) /\ task[op].over # "pending"
    BY Zenon, <1>7 DEF Gave, Rests, Holds
  <2>2. EndsWell(op, "call", FALSE, task[op].over, task[op].items)
    BY Zenon, <1>2, <1>5, <2>1 DEF EndsWell
  <2> QED
    BY Zenon, <1>1, <1>3, <1>4, <2>2
<1>8. CASE Waits(op)
  <2>1. PICK b \in BOOLEAN : Now(op, "wait", b, task[op].over, task[op].items)
    BY Zenon, <1>8 DEF Waits
  <2>2. EndsWell(op, "wait", b, task[op].over, task[op].items)
    BY Zenon, <1>2, <1>5, <1>8, <2>1 DEF EndsWell, Waits
  <2> QED
    BY Zenon, <1>1, <1>3, <1>4, <2>2
<1>9. CASE Fails(op)
  <2>1. PICK b \in BOOLEAN : Now(op, "failed", b, task[op].over, task[op].items) /\ task[op].over # "pending"
    BY Zenon, <1>9 DEF Fails
  <2>2. EndsWell(op, "failed", b, task[op].over, task[op].items)
    BY Zenon, <1>2, <1>5, <2>1 DEF EndsWell
  <2> QED
    BY Zenon, <1>1, <1>3, <1>4, <2>2
<1>10. CASE Pends(op)
  <2>1. EndsWell(op, "wait", task[op].active, task[op].over, task[op].items)
    BY Zenon, <1>1, <1>2, <1>5, <1>10 DEF EndsWell, Now, Pends
  <2> QED
    BY Zenon, <1>1, <1>4, <2>1
<1>11. CASE Arms(op)
  <2>1. Now(op, "arm", FALSE, task[op].over, task[op].items) /\ task[op].over # "pending" /\ os = "windows"
    BY Zenon, <1>11 DEF Arms, Rests
  <2>2. EndsWell(op, "arm", FALSE, task[op].over, task[op].items)
    BY Zenon, <1>2, <2>1 DEF EndsWell
  <2> QED
    BY Zenon, <1>1, <1>3, <1>4, <2>2
<1>12. CASE Starts(op)
  <2> DEFINE is == IF op \in Senders THEN From(acked, acked + 1) ELSE << >>
  <2>1. is \in Seq(Nat)
    <3>1. acked \in Nat /\ acked + 1 \in Nat /\ acked <= acked + 1
      BY <1>1 DEF Types
    <3> QED
      BY Zenon, <1>3, <3>1, Stretches
  <2>2. Now(op, "wait", TRUE, "pending", is) /\ os = "windows"
    BY Zenon, <1>12 DEF Starts
  <2> HIDE DEF is
  <2>3. EndsWell(op, "wait", TRUE, "pending", is)
    BY Zenon, <1>5, <2>2 DEF EndsWell
  <2> QED
    BY Zenon, <1>3, <1>4, <2>1, <2>3
<1>13. CASE Full(op)
  <2>1. EndsWell(op, "wait", TRUE, task[op].over, task[op].items)
    BY Zenon, <1>2, <1>5, <1>13 DEF EndsWell, Full
  <2> QED
    BY Zenon, <1>1, <1>3, <1>4, <2>1
<1>14. CASE Sends(op) \/ Reports(op)
  <2>1. \E n : Shifts(op, n)
    BY Zenon, <1>14 DEF Sends, Reports
  <2>2. \E s \in {"call", "done"} : Now(op, s, FALSE, task[op].over, task[op].items)
    BY Zenon, <2>1 DEF Shifts, Rests
  <2>3. task[op].over # "pending"
    BY Zenon, <2>1 DEF Shifts
  <2>4. \E s \in {"call", "done"} : EndsWell(op, s, FALSE, task[op].over, task[op].items)
    BY Zenon, <1>2, <1>5, <2>2, <2>3 DEF EndsWell
  <2> QED
    BY Zenon, <1>1, <1>3, <1>4, <2>4
<1>15. CASE Connects(op)
  <2>1. op = "connect" /\ ConnectEnd
    BY Zenon, <1>1, <1>15, ConnectsTo
  <2> DEFINE t == task["connect"]
  <2>2. \/ \E s \in {"wait", "done", "failed"}, a \in BOOLEAN : Now(op, s, a, t.over, t.items) /\ (t.over = "pending" => a)
        \/ os = "windows" /\ Now(op, "wait", TRUE, "pending", << >>)
    BY Zenon, <1>1, <1>2, <1>3, <1>5, <2>1 DEF ConnectEnd
  <2>3. \/ \E s \in {"wait", "done", "failed"}, a \in BOOLEAN : EndsWell(op, s, a, t.over, t.items)
        \/ EndsWell(op, "wait", TRUE, "pending", << >>)
    BY Zenon, <1>2, <1>5, <2>1, <2>2 DEF EndsWell
  <2> QED
    BY ZenonT(60), <1>1, <1>3, <1>4, <2>1, <2>3
<1> QED
  BY ZenonT(60), <1>6, <1>7, <1>8, <1>9, <1>10, <1>11, <1>12, <1>13, <1>14, <1>15 DEF Outcome

\* A call keeps what the tasks and the standings have to do with each other.
LEMMA CallStanding ==
  ASSUME AsyncInv, NEW op \in ops, Only(op), Outcome(op)
  PROVE  task' \in [ops -> Tasks] /\ st' \in [ops -> States] /\ Standing'
<1>1. PICK s \in States, a \in BOOLEAN, o \in {"none", "pending", "ok", "failed"}, i \in Seq(Nat) : EndsWell(op, s, a, o, i)
  BY Zenon, CallEndsWell
<1>2. st'[op] = s /\ task'[op] = [active |-> a, over |-> o, items |-> i]
  BY Zenon, <1>1 DEF EndsWell, Now
<1>3. task'[op].active = a /\ task'[op].over = o
  BY <1>2
<1>4. task'[op] \in Tasks
  BY <1>2 DEF Tasks
<1>5. /\ task \in [ops -> Tasks] /\ st \in [ops -> States]
      /\ task' = [task EXCEPT ![op] = task'[op]] /\ st' = [st EXCEPT ![op] = st'[op]]
  BY Zenon DEF AsyncInv, Types, Only
<1>6. task' \in [ops -> Tasks] /\ st' \in [ops -> States]
  BY <1>2, <1>4, <1>5
<1>7. attached' = attached /\ attached /\ os' = os /\ ops' = ops
  BY Zenon DEF Only
<1>8. ASSUME NEW p \in ops
      PROVE  /\ os' # "windows" => task'[p].over = "none" /\ st'[p] # "arm"
             /\ task'[p].over = "pending" => task'[p].active
             /\ st'[p] = "arm" => ~task'[p].active
  <2>1. CASE p = op
    BY Zenon, <1>1, <1>2, <1>3, <1>7, <2>1 DEF EndsWell
  <2>2. CASE p # op
    <3>1. task'[p] = task[p] /\ st'[p] = st[p]
      BY Zenon, <2>2, Others DEF AsyncInv
    <3> QED
      BY Zenon, <1>7, <3>1 DEF AsyncInv, Standing
  <2> QED
    BY Zenon, <2>1, <2>2
<1>9. Standing'
  BY Zenon, <1>7, <1>8 DEF Standing
<1> QED
  BY Zenon, <1>6, <1>9

\* What the calls do to the data: they take what has arrived, and put into the send
\* buffer what it has room for.
LEMMA CallData ==
  ASSUME AsyncInv, NEW op \in ops, Only(op), Outcome(op)
  PROVE  /\ taken' \in taken .. arrived /\ got' \in Seq(Nat)
         /\ wire' \in Seq(Nat) /\ Len(wire') >= Len(wire) /\ Len(wire') - drained <= Room
         /\ iov' \in Seq(Nat) /\ acked' \in Nat
<1>1. /\ arrived \in Nat /\ taken \in 0..arrived /\ got \in Seq(Nat) /\ iov \in Seq(Nat) /\ acked \in Nat
      /\ wire \in Seq(Nat) /\ drained \in 0..Len(wire) /\ Len(wire) - drained <= Room
      /\ Room \in Nat
  BY AsyncIOAssumption DEF AsyncInv, Types
<1>2. Len(wire) \in Nat /\ drained \in Nat
  BY <1>1, LenProperties
<1>3. taken \in taken .. arrived /\ Len(wire) >= Len(wire)
  BY <1>1, <1>2
<1>4. CASE UNCHANGED <<taken, got, wire, iov, acked>>
  BY Zenon, <1>1, <1>3, <1>4
<1>5. CASE Took(op)
  <2>1. PICK n \in 1 .. arrived - taken : taken' = taken + n /\ got' = got \o From(taken, taken + n)
    BY Zenon, <1>5 DEF Took
  <2>2. taken \in Nat /\ taken + n \in Nat /\ taken <= taken + n /\ taken + n \in taken .. arrived
    BY <1>1, <2>1
  <2>3. From(taken, taken + n) \in Seq(Nat)
    BY Zenon, <2>2, Stretches
  <2>4. got' \in Seq(Nat)
    BY <1>1, <2>1, <2>3, ConcatProperties
  <2>5. UNCHANGED <<wire, iov, acked>>
    BY Zenon, <1>5 DEF Took
  <2> QED
    BY Zenon, <1>1, <1>3, <2>1, <2>2, <2>4, <2>5
<1>6. CASE Gave(op)
  <2>1. task[op].items \in Seq(Nat)
    BY Zenon, TaskFields DEF AsyncInv
  <2>2. got' = got \o task[op].items /\ UNCHANGED <<taken, wire, iov, acked>>
    BY Zenon, <1>6 DEF Gave
  <2>3. got' \in Seq(Nat)
    BY <1>1, <2>1, <2>2, ConcatProperties
  <2> QED
    BY Zenon, <1>1, <1>3, <2>2, <2>3
<1>7. CASE Sends(op)
  <2>1. PICK n \in Nat : /\ n <= Left(iov) /\ n <= Room - (Len(wire) - drained)
                         /\ wire' = wire \o From(acked, acked + n)
                         /\ Shifts(op, n)
    BY Zenon, <1>7 DEF Sends
  <2>2. acked + n \in Nat /\ acked <= acked + n /\ (acked + n) - acked = n
    BY <1>1, <2>1
  <2>3. From(acked, acked + n) \in Seq(Nat) /\ Len(From(acked, acked + n)) = n
    BY Zenon, <1>1, <2>2, Stretches
  <2>4. wire' \in Seq(Nat) /\ Len(wire') = Len(wire) + n
    BY Zenon, <1>1, <2>1, <2>3, ConcatProperties
  <2>5. Len(wire') >= Len(wire) /\ Len(wire') - drained <= Room
    BY <1>1, <1>2, <2>1, <2>4
  <2>6. iov' \in Seq(Nat)
    BY Zenon, <1>1, <2>1, ShiftIsExact DEF Shifts
  <2>7. acked' = acked + n /\ UNCHANGED <<taken, got>>
    BY Zenon, <2>1 DEF Shifts
  <2> QED
    BY Zenon, <1>1, <1>3, <2>2, <2>4, <2>5, <2>6, <2>7
<1>8. CASE Reports(op)
  <2>1. Shifts(op, 1) /\ UNCHANGED wire
    BY Zenon, <1>8 DEF Reports
  <2>2. acked' = acked + 1 /\ iov' = ffiovec_array_shift(iov, 1).v /\ UNCHANGED <<taken, got>>
    BY Zenon, <2>1 DEF Shifts
  <2>3. 1 <= Left(iov)
    BY Zenon, <1>8 DEF AsyncInv, Writing, Reports, Holds, Shifts
  <2>4. 1 \in Nat /\ acked + 1 \in Nat
    BY <1>1
  <2>5. iov' \in Seq(Nat)
    BY Zenon, <1>1, <2>2, <2>3, <2>4, ShiftIsExact
  <2> QED
    BY Zenon, <1>1, <1>3, <2>1, <2>2, <2>4, <2>5
<1>9. CASE Connects(op)
  <2>1. ConnectEnd
    BY Zenon, <1>9, ConnectsTo DEF AsyncInv
  <2> QED
    BY Zenon, <1>4, <2>1 DEF ConnectEnd
<1>10. CASE Waits(op) \/ Fails(op) \/ Pends(op) \/ Arms(op) \/ Starts(op) \/ Full(op)
  BY Zenon, <1>4, <1>10 DEF Waits, Fails, Pends, Arms, Starts, Full
<1> QED
  BY Zenon, <1>5, <1>6, <1>7, <1>8, <1>9, <1>10 DEF Outcome

\* A call keeps the types and the bound of the send buffer.
LEMMA CallTypes ==
  ASSUME AsyncInv, NEW op \in ops, Only(op), Outcome(op)
  PROVE  Types'
<1>1. UNCHANGED <<os, ops, arrived, drained, port>>
  BY Zenon DEF Only
<1>2. task' \in [ops -> Tasks] /\ st' \in [ops -> States]
  BY Zenon, CallStanding
<1>3. /\ taken' \in taken .. arrived /\ got' \in Seq(Nat)
      /\ wire' \in Seq(Nat) /\ Len(wire') >= Len(wire) /\ Len(wire') - drained <= Room
      /\ iov' \in Seq(Nat) /\ acked' \in Nat
  BY Zenon, CallData
<1>4. /\ os \in Systems /\ ops \in Scenarios /\ port \in Seq(ops)
      /\ arrived \in Nat /\ taken \in 0..arrived /\ drained \in 0..Len(wire)
  BY Zenon DEF AsyncInv, Types
<1>5. Len(wire) \in Nat /\ Len(wire') \in Nat
  BY <1>3, LenProperties DEF AsyncInv, Types
<1>6. taken' \in 0..arrived /\ drained \in 0..Len(wire')
  BY <1>3, <1>4, <1>5
<1> QED
  BY Zenon, <1>1, <1>2, <1>3, <1>4, <1>6 DEF Types

\* A call that ends with FFSOCK_EINPROGRESS has found nothing on UNIX, and has a request
\* on Windows; it makes nothing ready that another operation waits for.
LEMMA CallWakes ==
  ASSUME AsyncInv, NEW op \in ops, Only(op), Outcome(op)
  PROVE  NoLostWakeup'
<1>1. UNCHANGED <<os, ops, arrived, drained, broken, edge, port>>
  BY Zenon DEF Only
<1>2. /\ taken' \in taken .. arrived /\ wire' \in Seq(Nat) /\ Len(wire') >= Len(wire)
      /\ arrived \in Nat /\ taken \in 0..arrived /\ Room \in Nat \ {0}
      /\ wire \in Seq(Nat) /\ drained \in 0..Len(wire) /\ Len(wire) - drained <= Room
  <2>1. taken' \in taken .. arrived /\ wire' \in Seq(Nat) /\ Len(wire') >= Len(wire)
    BY Zenon, CallData
  <2> QED
    BY Zenon, <2>1, AsyncIOAssumption DEF AsyncInv, Types
<1>3. Len(wire) \in Nat /\ Len(wire') \in Nat
  BY <1>2, LenProperties
<1>4. "connect" \in ops => ops = {"connect"}
  BY Zenon, Together DEF AsyncInv
<1>5. Readable' => Readable
  BY <1>1, <1>2 DEF Readable
<1>6. "connect" \notin ops => (Writable' => Writable)
  <2>1. Len(wire') - drained < Room => Len(wire) - drained < Room
    BY <1>2, <1>3
  <2> QED
    BY Zenon, <1>1, <2>1 DEF Writable
<1>7. ASSUME NEW p \in ops, p # op, st'[p] = "wait"
      PROVE  IF os = "windows"
             THEN task'[p].active /\ (task'[p].over = "pending" \/ \E i \in 1 .. Len(port') : port'[i] = p)
             ELSE (FilterOf(p) \in Ready)' => FilterOf(p) \in edge'
  <2>1. task'[p] = task[p] /\ st'[p] = st[p]
    BY Zenon, <1>7, Others DEF AsyncInv
  <2>2. "connect" \notin ops
    BY <1>4, <1>7
  <2>3. (FilterOf(p) \in Ready)' => FilterOf(p) \in Ready
    BY Zenon, <1>5, <1>6, <2>2, ReadyFor, ReadyThen
  <2> QED
    BY Zenon, <1>1, <1>7, <2>1, <2>3 DEF AsyncInv, NoLostWakeup
<1>8. ASSUME st'[op] = "wait"
      PROVE  IF os = "windows"
             THEN task'[op].active /\ task'[op].over = "pending"
             ELSE ~(FilterOf(op) \in Ready)'
  <2>1. CASE Waits(op)
    <3>1. os # "windows" /\ op \in Readers /\ arrived = taken /\ ~broken /\ taken' = taken
      BY Zenon, <2>1 DEF Waits
    <3>2. ~Readable'
      BY <1>1, <1>2, <3>1 DEF Readable
    <3> QED
      BY Zenon, <3>1, <3>2, ReadyThen
  <2>2. CASE Pends(op)
    BY Zenon, <2>2 DEF Pends
  <2>3. CASE Starts(op)
    <3>1. os = "windows" /\ \E is : task'[op] = [active |-> TRUE, over |-> "pending", items |-> is]
      BY Zenon, <2>3 DEF Starts, Now
    <3>2. task'[op].active /\ task'[op].over = "pending"
      BY <3>1
    <3> QED
      BY Zenon, <3>1, <3>2
  <2>4. CASE Full(op)
    <3>1. op \in Senders /\ os # "windows" /\ ~broken /\ Len(wire) - drained = Room /\ wire' = wire
      BY Zenon, <2>4 DEF Full
    <3>2. op \notin Readers /\ op # "connect"
      BY <3>1 DEF Senders, Readers
    <3>3. "connect" \notin ops
      BY <1>4, <3>2
    <3>4. ~(Len(wire) - drained < Room)
      BY <1>2, <1>3, <3>1
    <3>5. ~Writable'
      BY Zenon, <1>1, <3>1, <3>3, <3>4 DEF Writable
    <3> QED
      BY Zenon, <3>1, <3>2, <3>5, ReadyThen
  <2>5. CASE Connects(op)
    <3>1. op = "connect" /\ ConnectEnd
      BY Zenon, <2>5, ConnectsTo DEF AsyncInv
    <3>2. \/ os # "windows" /\ conn' = "progress"
          \/ os = "windows" /\ task["connect"].active /\ task["connect"].over = "pending"
               /\ Now("connect", "wait", task["connect"].active, task["connect"].over, task["connect"].items)
          \/ os = "windows" /\ Now("connect", "wait", TRUE, "pending", << >>)
      BY Zenon, <1>8, <3>1 DEF ConnectEnd, Now
    <3>3. CASE os = "windows"
      <4>1. \E is : task'[op] = [active |-> TRUE, over |-> "pending", items |-> is]
        <5>1. CASE Now("connect", "wait", TRUE, "pending", << >>)
          BY Zenon, <3>1, <5>1 DEF Now
        <5>2. CASE /\ task["connect"].active /\ task["connect"].over = "pending"
                   /\ Now("connect", "wait", task["connect"].active, task["connect"].over, task["connect"].items)
          <6>1. task["connect"].active = TRUE
            <7>1. task["connect"].active \in BOOLEAN
              BY Zenon, <3>1, TaskFields DEF AsyncInv
            <7> QED
              BY <5>2, <7>1
          <6> QED
            BY Zenon, <3>1, <5>2, <6>1 DEF Now
        <5> QED
          BY Zenon, <3>2, <3>3, <5>1, <5>2
      <4>2. task'[op].active /\ task'[op].over = "pending"
        BY <4>1
      <4> QED
        BY Zenon, <3>3, <4>2
    <3>4. CASE os # "windows" /\ conn' = "progress"
      <4>1. op \notin Readers
        BY <3>1 DEF Readers
      <4>2. ~Writable'
        BY Zenon, <1>1, <3>1, <3>4 DEF Writable
      <4> QED
        BY Zenon, <3>4, <4>1, <4>2, ReadyThen
    <3> QED
      BY Zenon, <3>2, <3>3, <3>4
  <2>6. CASE Took(op) \/ Gave(op) \/ Fails(op) \/ Arms(op)
    BY Zenon, <1>8, <2>6 DEF Took, Gave, Fails, Arms, Rests, Now
  <2>7. CASE Sends(op) \/ Reports(op)
    <3>1. \E n : Shifts(op, n)
      BY Zenon, <2>7 DEF Sends, Reports
    <3>2. st'[op] \in {"call", "done"}
      BY Zenon, <3>1 DEF Shifts, Rests, Now
    <3> QED
      BY Zenon, <1>8, <3>2
  <2> QED
    BY ZenonT(60), <2>1, <2>2, <2>3, <2>4, <2>5, <2>6, <2>7 DEF Outcome
<1> QED
  BY Zenon, <1>1, <1>7, <1>8 DEF NoLostWakeup

\* A call that has nothing to give back has given everything that was read.
LEMMA NothingHeld ==
  ASSUME AsyncInv, NEW op \in ops, op \in Readers, Free(op)
  PROVE  Held(op) = << >> /\ got = From(0, taken)
<1>1. /\ got \o Held(op) = From(0, taken) /\ (op = "recv" => task[op].items = << >>)
  BY Zenon DEF AsyncInv, Reading
<1>2. Held(op) = << >>
  BY Zenon, <1>1 DEF Held, Free
<1>3. got \in Seq(Nat)
  BY Zenon DEF AsyncInv, Types
<1>4. got \o << >> = got
  BY <1>3
<1> QED
  BY Zenon, <1>1, <1>2, <1>4

\* What is read is what the caller gets, in order.
LEMMA CallReading ==
  ASSUME AsyncInv, NEW op \in ops, Only(op), Outcome(op)
  PROVE  Reading'
<1>1. /\ ops' = ops /\ arrived \in Nat /\ taken \in 0..arrived
      /\ \A o, p \in ops : o \in Readers /\ p \in Readers => o = p
  BY Zenon, Together DEF AsyncInv, Types, Only
<1>2. CASE op \notin Readers
  <2>1. UNCHANGED <<got, taken>>
    <3>1. CASE Connects(op)
      BY Zenon, <3>1, ConnectsTo DEF AsyncInv, ConnectEnd
    <3>2. CASE Sends(op) \/ Reports(op)
      BY Zenon, <3>2 DEF Sends, Reports, Shifts
    <3> QED
      BY Zenon, <1>2, <3>1, <3>2 DEF Outcome, Took, Gave, Waits, Fails, Pends, Arms, Starts, Full
  <2>2. ASSUME NEW p \in ops \cap Readers
        PROVE  task'[p] = task[p]
    <3>1. p \in ops /\ p # op
      BY <1>2
    <3> QED
      BY Zenon, <3>1, Others DEF AsyncInv
  <2> QED
    BY Zenon, <1>1, <2>1, <2>2 DEF AsyncInv, Reading, Held, Holds
<1>3. CASE op \in Readers
  <2>1. op \notin Senders /\ op # "connect"
    BY <1>3 DEF Readers, Senders
  <2>2. /\ got \o Held(op) = From(0, taken)
        /\ task[op].over = "pending" \/ op = "recv" => task[op].items = << >>
    BY Zenon, <1>3 DEF AsyncInv, Reading
  <2>3. SUFFICES /\ got' \o Held(op)' = From(0, taken')
                 /\ task'[op].over = "pending" \/ op = "recv" => task'[op].items = << >>
    <3>1. \A p \in ops \cap Readers : p = op
      BY Zenon, <1>1, <1>3
    <3> QED
      BY Zenon, <1>1, <3>1 DEF Reading
  <2>4. got \in Seq(Nat) /\ got' \in Seq(Nat)
    BY Zenon, CallData DEF AsyncInv, Types
  <2>5. got \o << >> = got /\ got' \o << >> = got'
    BY <2>4
  <2>6. ASSUME NEW b, task'[op] = [active |-> b, over |-> task[op].over, items |-> task[op].items]
        PROVE  /\ task'[op].active = b /\ task'[op].over = task[op].over /\ task'[op].items = task[op].items
               /\ ~b => Held(op)' = << >>
    <3>1. task'[op].active = b /\ task'[op].over = task[op].over /\ task'[op].items = task[op].items
      BY <2>6
    <3> QED
      BY Zenon, <3>1 DEF Held, Holds
  <2>7. ~FALSE
    OBVIOUS
  <2>8. CASE Took(op)
    <3>1. PICK n \in 1 .. arrived - taken : taken' = taken + n /\ got' = got \o From(taken, taken + n)
      BY Zenon, <2>8 DEF Took
    <3>2. taken \in Nat /\ taken + n \in Nat /\ taken <= taken + n
      BY <1>1, <3>1
    <3>3. From(0, taken) \o From(taken, taken + n) = From(0, taken + n)
      BY Zenon, <3>2, Meet
    <3>4. got = From(0, taken)
      BY Zenon, <1>3, <2>8, NothingHeld DEF Took
    <3>5. task'[op] = [active |-> FALSE, over |-> task[op].over, items |-> task[op].items]
      BY Zenon, <2>8 DEF Took, Rests, Now
    <3> QED
      BY ZenonT(60), <2>2, <2>5, <2>6, <2>7, <3>1, <3>3, <3>4, <3>5
  <2>9. CASE Gave(op)
    <3>1. /\ got' = got \o task[op].items /\ taken' = taken /\ Holds(op)
          /\ task'[op] = [active |-> FALSE, over |-> task[op].over, items |-> task[op].items]
      BY Zenon, <2>9 DEF Gave, Rests, Now
    <3>2. Held(op) = task[op].items
      BY Zenon, <3>1 DEF Held
    <3> QED
      BY Zenon, <2>2, <2>5, <2>6, <2>7, <3>1, <3>2
  <2>10. CASE Waits(op)
    <3>1. PICK b \in BOOLEAN : task'[op] = [active |-> b, over |-> task[op].over, items |-> task[op].items]
      BY Zenon, <2>10 DEF Waits, Now
    <3>2. UNCHANGED <<got, taken>> /\ os # "windows"
      BY Zenon, <2>10 DEF Waits
    <3>3. task[op].over = "none"
      BY Zenon, <3>2 DEF AsyncInv, Standing
    <3>4. Held(op) = << >> /\ Held(op)' = << >>
      BY Zenon, <2>6, <3>1, <3>3 DEF Held, Holds
    <3> QED
      BY Zenon, <2>2, <2>6, <3>1, <3>2, <3>4
  <2>11. CASE Fails(op)
    <3>1. PICK b \in BOOLEAN : /\ task'[op] = [active |-> b, over |-> task[op].over, items |-> task[op].items]
                               /\ b => task[op].active
      BY Zenon, <2>11 DEF Fails, Now
    <3>2. UNCHANGED <<got, taken>> /\ Free(op)
      BY Zenon, <2>11 DEF Fails
    <3>3. Held(op) = << >>
      BY Zenon, <1>3, <3>2, NothingHeld
    <3>4. Held(op)' = << >>
      BY Zenon, <2>6, <3>1, <3>3 DEF Held, Holds
    <3> QED
      BY Zenon, <2>2, <2>6, <3>1, <3>2, <3>3, <3>4
  <2>12. CASE Pends(op)
    BY Zenon, <2>2, <2>12 DEF Pends, Held, Holds
  <2>13. CASE Arms(op)
    <3>1. /\ UNCHANGED <<got, taken>> /\ Free(op)
          /\ task'[op] = [active |-> FALSE, over |-> task[op].over, items |-> task[op].items]
      BY Zenon, <2>13 DEF Arms, Rests, Now
    <3>2. Held(op) = << >>
      BY Zenon, <1>3, <3>1, NothingHeld
    <3> QED
      BY Zenon, <2>2, <2>6, <2>7, <3>1, <3>2
  <2>14. CASE Starts(op)
    <3>1. /\ UNCHANGED <<got, taken>> /\ ~task[op].active
          /\ task'[op] = [active |-> TRUE, over |-> "pending", items |-> << >>]
      BY Zenon, <2>1, <2>14 DEF Starts, Now
    <3>2. task'[op].over = "pending" /\ task'[op].items = << >>
      BY <3>1
    <3>3. Held(op) = << >> /\ Held(op)' = << >>
      BY Zenon, <3>1, <3>2 DEF Held, Holds
    <3> QED
      BY Zenon, <2>2, <3>1, <3>2, <3>3
  <2> QED
    BY ZenonT(60), <2>1, <2>8, <2>9, <2>10, <2>11, <2>12, <2>13, <2>14 DEF Outcome, Full, Sends, Reports, Shifts, Connects
<1> QED
  BY Zenon, <1>2, <1>3

\* The bytes reported as sent are those that were put into the send buffer, and there
\* is something left to send while the caller goes on.
LEMMA CallWriting ==
  ASSUME AsyncInv, NEW op \in ops, Only(op), Outcome(op)
  PROVE  Writing'
<1>1. /\ UNCHANGED <<os, ops, drained, broken>> /\ st[op] \in {"call", "arm"}
      /\ \A o, p \in ops : o \in Senders /\ p \in Senders => o = p
  BY Zenon, Together DEF AsyncInv, Only
<1>2. /\ wire \in Seq(Nat) /\ drained \in 0..Len(wire) /\ Room \in Nat \ {0}
      /\ acked \in Nat /\ iov \in Seq(Nat) /\ Left(iov) \in Nat
  BY Zenon, AsyncIOAssumption, LeftIsNat DEF AsyncInv, Types
<1>3. CASE op \notin Senders
  <2>1. UNCHANGED <<wire, acked, iov>> /\ (os # "windows" => nospace' = nospace)
    <3>1. CASE Connects(op)
      BY Zenon, <3>1, ConnectsTo DEF AsyncInv, ConnectEnd
    <3> QED
      BY Zenon, <1>3, <3>1 DEF Outcome, Took, Gave, Waits, Fails, Pends, Starts, Full, Sends, Reports, Shifts, Arms
  <2>2. ASSUME NEW p \in ops \cap Senders
        PROVE  task'[p] = task[p] /\ st'[p] = st[p]
    <3>1. p \in ops /\ p # op
      BY <1>3
    <3> QED
      BY Zenon, <3>1, Others DEF AsyncInv
  <2>3. ASSUME NEW p \in ops \cap Senders
        PROVE  /\ wire' = From(0, acked' + (IF Holds(p)' THEN 1 ELSE 0))
               /\ \E v \in Vectors : Left(v) = acked' + Left(iov')
               /\ task'[p].over = "pending" => task'[p].items = From(acked', acked' + 1)
               /\ st'[p] \in {"call", "wait", "arm"} =>
                    Left(iov') >= 1 \/ (wire' = << >> /\ st'[p] = "call" /\ ~task'[p].active)
               /\ os' # "windows" /\ st'[p] = "wait" => nospace' \/ broken' \/ Len(wire') - drained' < Room
    <3>1. Holds(p)' <=> Holds(p)
      BY Zenon, <2>2 DEF Holds
    <3>2. /\ wire = From(0, acked + (IF Holds(p) THEN 1 ELSE 0))
          /\ \E v \in Vectors : Left(v) = acked + Left(iov)
          /\ task[p].over = "pending" => task[p].items = From(acked, acked + 1)
          /\ st[p] \in {"call", "wait", "arm"} =>
               Left(iov) >= 1 \/ (wire = << >> /\ st[p] = "call" /\ ~task[p].active)
          /\ os # "windows" /\ st[p] = "wait" => nospace \/ broken \/ Len(wire) - drained < Room
      BY Zenon DEF AsyncInv, Writing
    <3> QED
      BY Zenon, <1>1, <2>1, <2>2, <3>1, <3>2
  <2> QED
    BY Zenon, <1>1, <2>3 DEF Writing
<1>4. CASE op \in Senders
  <2>1. op \notin Readers /\ op # "connect" /\ op # "recv"
    BY <1>4 DEF Readers, Senders
  <2>2. /\ wire = From(0, acked + (IF Holds(op) THEN 1 ELSE 0))
        /\ \E v \in Vectors : Left(v) = acked + Left(iov)
        /\ task[op].over = "pending" => task[op].items = From(acked, acked + 1)
        /\ Left(iov) >= 1 \/ (wire = << >> /\ st[op] = "call" /\ ~task[op].active)
    BY Zenon, <1>1, <1>4 DEF AsyncInv, Writing
  <2>3. SUFFICES /\ wire' = From(0, acked' + (IF Holds(op)' THEN 1 ELSE 0))
                 /\ \E v \in Vectors : Left(v) = acked' + Left(iov')
                 /\ task'[op].over = "pending" => task'[op].items = From(acked', acked' + 1)
                 /\ st'[op] \in {"call", "wait", "arm"} =>
                      Left(iov') >= 1 \/ (wire' = << >> /\ st'[op] = "call" /\ ~task'[op].active)
                 /\ os # "windows" /\ st'[op] = "wait" => nospace' \/ broken \/ Len(wire') - drained < Room
    <3>1. \A p \in ops \cap Senders : p = op
      BY Zenon, <1>1, <1>4
    <3> QED
      BY Zenon, <1>1, <3>1 DEF Writing
  <2>4. ASSUME Len(wire) - drained = Room
        PROVE  Left(iov) >= 1
    <3>1. wire # << >>
      <4> SUFFICES ASSUME wire = << >> PROVE FALSE
        OBVIOUS
      <4>1. Len(wire) = 0
        BY Zenon, EmptySeq
      <4> QED
        BY <1>2, <2>4, <4>1
    <3> QED
      BY Zenon, <2>2, <3>1
  <2>5. ASSUME NEW b, task'[op] = [active |-> b, over |-> task[op].over, items |-> task[op].items]
        PROVE  /\ task'[op].active = b /\ task'[op].over = task[op].over /\ task'[op].items = task[op].items
               /\ (b => task[op].active) => (Holds(op)' => Holds(op))
               /\ ~b => ~Holds(op)'
    <3>1. task'[op].active = b /\ task'[op].over = task[op].over /\ task'[op].items = task[op].items
      BY <2>5
    <3> QED
      BY Zenon, <3>1 DEF Holds
  <2>6. ~FALSE
    OBVIOUS
  <2>7. CASE Fails(op)
    <3>1. PICK b \in BOOLEAN : /\ task'[op] = [active |-> b, over |-> task[op].over, items |-> task[op].items]
                               /\ b => task[op].active
      BY Zenon, <2>7 DEF Fails, Now
    <3>2. UNCHANGED <<wire, acked, iov, nospace>> /\ st'[op] = "failed" /\ task[op].over # "pending" /\ ~Holds(op)
      BY Zenon, <2>1, <2>7 DEF Fails, Free, Now
    <3>3. ~Holds(op)' /\ task'[op].over # "pending"
      BY Zenon, <2>5, <3>1, <3>2
    <3> QED
      BY Zenon, <2>2, <3>2, <3>3
  <2>8. CASE Pends(op)
    <3>1. UNCHANGED <<wire, acked, iov>> /\ os = "windows" /\ task[op].active /\ task'[op] = task[op] /\ st'[op] = "wait"
      BY Zenon, <2>8 DEF Pends
    <3>2. Holds(op)' <=> Holds(op)
      BY Zenon, <3>1 DEF Holds
    <3> QED
      BY Zenon, <2>2, <3>1, <3>2
  <2>9. CASE Arms(op)
    <3>1. /\ UNCHANGED <<wire, acked, iov>> /\ st'[op] = "arm" /\ task[op].over # "pending" /\ ~Holds(op)
          /\ Len(wire) - drained = Room
          /\ task'[op] = [active |-> FALSE, over |-> task[op].over, items |-> task[op].items]
      BY Zenon, <1>4, <2>1, <2>9 DEF Arms, Free, Rests, Now
    <3>2. ~Holds(op)' /\ task'[op].over # "pending"
      BY Zenon, <2>5, <2>6, <3>1
    <3>3. "arm" # "wait"
      OBVIOUS
    <3> QED
      BY Zenon, <2>2, <2>4, <3>1, <3>2, <3>3
  <2>10. CASE Starts(op)
    <3>1. /\ UNCHANGED <<wire, acked, iov>> /\ os = "windows" /\ st[op] = "arm" /\ st'[op] = "wait" /\ ~task[op].active
          /\ task'[op] = [active |-> TRUE, over |-> "pending", items |-> From(acked, acked + 1)]
      BY Zenon, <1>4, <2>10 DEF Starts, Now
    <3>2. task'[op].over = "pending" /\ task'[op].items = From(acked, acked + 1)
      BY <3>1
    <3>3. ~Holds(op) /\ ~Holds(op)' /\ st[op] # "call"
      BY Zenon, <3>1, <3>2 DEF Holds
    <3> QED
      BY Zenon, <2>2, <3>1, <3>2, <3>3
  <2>11. CASE Full(op)
    <3>1. /\ UNCHANGED <<wire, acked, iov>> /\ os # "windows" /\ nospace' /\ Len(wire) - drained = Room
          /\ task'[op] = [active |-> TRUE, over |-> task[op].over, items |-> task[op].items]
      BY Zenon, <2>11 DEF Full, Now
    <3>2. task[op].over = "none"
      BY Zenon, <3>1 DEF AsyncInv, Standing
    <3>3. task'[op].over = "none"
      BY Zenon, <2>5, <3>1, <3>2
    <3>4. ~Holds(op) /\ ~Holds(op)' /\ task'[op].over # "pending"
      BY Zenon, <3>2, <3>3 DEF Holds
    <3> QED
      BY Zenon, <2>2, <2>4, <3>1, <3>4
  <2>12. ASSUME NEW n \in Nat, n <= Left(iov), Shifts(op, n), wire' = From(0, acked + n)
         PROVE  /\ wire' = From(0, acked' + (IF Holds(op)' THEN 1 ELSE 0))
                /\ \E v \in Vectors : Left(v) = acked' + Left(iov')
                /\ task'[op].over = "pending" => task'[op].items = From(acked', acked' + 1)
                /\ st'[op] \in {"call", "wait", "arm"} =>
                     Left(iov') >= 1 \/ (wire' = << >> /\ st'[op] = "call" /\ ~task'[op].active)
                /\ os # "windows" /\ st'[op] = "wait" => nospace' \/ broken \/ Len(wire') - drained < Room
    <3> DEFINE s == ffiovec_array_shift(iov, n)
    <3>1. /\ iov' = s.v /\ acked' = acked + n /\ task[op].over # "pending"
          /\ st'[op] = (IF s.more THEN "call" ELSE "done")
          /\ task'[op] = [active |-> FALSE, over |-> task[op].over, items |-> task[op].items]
      BY Zenon, <2>12 DEF Shifts, Rests, Now
    <3>2. s.v \in Seq(Nat) /\ Left(s.v) = Left(iov) - n /\ (s.more <=> Left(s.v) > 0)
      BY Zenon, <1>2, <2>12, ShiftIsExact
    <3> HIDE DEF s
    <3>3. ~Holds(op)' /\ task'[op].over # "pending"
      BY Zenon, <2>5, <2>6, <3>1
    <3>4. acked + n = (acked + n) + 0
      BY <1>2, <2>12
    <3>5. wire' = From(0, acked' + (IF Holds(op)' THEN 1 ELSE 0))
      BY Zenon, <2>12, <3>1, <3>3, <3>4
    <3>6. acked' + Left(iov') = acked + Left(iov)
      BY <1>2, <2>12, <3>1, <3>2
    <3>7. \E v \in Vectors : Left(v) = acked' + Left(iov')
      BY Zenon, <2>2, <3>6
    <3>8. Left(iov') > 0 => Left(iov') >= 1
      BY <1>2, <2>12, <3>1, <3>2
    <3>9. st'[op] \in {"call", "done"} /\ (st'[op] = "call" => Left(iov') > 0)
      BY Zenon, <3>1, <3>2
    <3>10. "done" \notin {"call", "wait", "arm"} /\ "call" # "wait" /\ "done" # "wait"
      OBVIOUS
    <3>11. st'[op] \in {"call", "wait", "arm"} => Left(iov') >= 1
      BY Zenon, <3>8, <3>9, <3>10
    <3>12. st'[op] # "wait"
      BY Zenon, <3>9, <3>10
    <3> QED
      BY Zenon, <3>3, <3>5, <3>7, <3>11, <3>12
  <2>13. CASE Sends(op)
    <3>1. PICK n \in Nat : n <= Left(iov) /\ wire' = wire \o From(acked, acked + n) /\ Shifts(op, n)
      BY Zenon, <2>13 DEF Sends
    <3>2. acked + 0 = acked /\ acked + n \in Nat /\ acked <= acked + n
      BY <1>2, <3>1
    <3>3. wire = From(0, acked)
      BY Zenon, <2>2, <2>13, <3>2 DEF Sends
    <3>4. wire' = From(0, acked + n)
      BY Zenon, <1>2, <3>1, <3>2, <3>3, Meet
    <3> QED
      BY Zenon, <2>12, <3>1, <3>4
  <2>14. CASE Reports(op)
    <3>1. Holds(op) /\ Shifts(op, 1) /\ wire' = wire
      BY Zenon, <2>14 DEF Reports
    <3>2. wire' = From(0, acked + 1)
      BY Zenon, <2>2, <3>1
    <3>3. 1 <= Left(iov) /\ 1 \in Nat
      <4>1. Left(iov) >= 1
        BY Zenon, <2>2, <3>1 DEF Holds
      <4> QED
        BY <1>2, <4>1
    <3> QED
      BY Zenon, <2>12, <3>1, <3>2, <3>3
  <2> QED
    BY ZenonT(60), <2>1, <1>4, <2>7, <2>8, <2>9, <2>10, <2>11, <2>13, <2>14 DEF Outcome, Took, Gave, Waits, Connects
<1> QED
  BY Zenon, <1>3, <1>4

\* A connection is reported as it is.
LEMMA CallConnecting ==
  ASSUME AsyncInv, NEW op \in ops, Only(op), Outcome(op)
  PROVE  Connecting'
<1>1. /\ UNCHANGED <<os, ops, broken, kev>>
      /\ "connect" \in ops => ops = {"connect"}
  BY Zenon, Together DEF AsyncInv, Only
<1>2. CASE op # "connect"
  <2>1. "connect" \notin ops
    BY <1>1, <1>2
  <2>2. conn' = conn
    BY Zenon, <1>2 DEF Outcome, Took, Gave, Waits, Fails, Pends, Arms, Starts, Full, Sends, Reports, Shifts, Connects
  <2> QED
    BY Zenon, <1>1, <2>1, <2>2 DEF AsyncInv, Connecting
<1>3. CASE op = "connect"
  <2> DEFINE t == task["connect"]
  <2>1. op \notin Readers /\ op \notin Senders
    BY <1>3 DEF Readers, Senders
  <2>2. /\ ~broken /\ conn \in {"none", "progress", "up", "refused"}
        /\ st["connect"] = "call" /\ ~t.active => conn = "none" /\ t.over = "none"
        /\ st["connect"] = "call" /\ t.active /\ os # "windows" =>
             conn \in {"up", "refused"} /\ (conn = "refused" => kev)
        /\ t.over = "pending" => conn # "none"
        /\ t.over = "ok" => conn = "up"
        /\ t.over = "failed" => conn = "refused"
    BY Zenon, <1>3 DEF AsyncInv, Connecting
  <2>3. /\ os # "windows" => t.over = "none"
        /\ t.over = "pending" => t.active
        /\ t.active \in BOOLEAN /\ t.over \in {"none", "pending", "ok", "failed"}
    BY Zenon, <1>3, TaskFields DEF AsyncInv, Standing
  <2> HIDE DEF t
  <2>4. SUFFICES
          /\ conn' \in {"none", "progress", "up", "refused"}
          /\ st'["connect"] \in {"done", "failed", "wait"}
          /\ st'["connect"] = "done" => conn' = "up"
          /\ st'["connect"] = "failed" => conn' \in {"none", "refused"}
          /\ st'["connect"] = "wait" => task'["connect"].active /\ conn' # "none"
          /\ task'["connect"].over = "pending" => conn' # "none"
          /\ task'["connect"].over = "ok" => conn' = "up"
          /\ task'["connect"].over = "failed" => conn' = "refused"
    BY Zenon, <1>1, <1>3, <2>2 DEF Connecting
  <2>5. ASSUME NEW s, NEW a, NEW o, NEW i, Now("connect", s, a, o, i)
        PROVE  st'["connect"] = s /\ task'["connect"].active = a /\ task'["connect"].over = o
    BY <2>5 DEF Now
  <2>6. CASE Connects(op)
    <3>1. ConnectEnd
      BY Zenon, <2>6, ConnectsTo DEF AsyncInv
    <3>2. st["connect"] = "call"
      BY Zenon, <3>1 DEF ConnectEnd
    <3>3. CASE os # "windows"
      <4>1. t.over = "none"
        BY Zenon, <2>3, <3>3
      <4>2. \/ t.active /\ conn = "refused" /\ Now("connect", "failed", FALSE, t.over, t.items) /\ conn' = conn
            \/ t.active /\ ~(kev /\ conn = "refused") /\ Now("connect", "done", FALSE, t.over, t.items) /\ conn' = conn
            \/ Now("connect", "wait", TRUE, t.over, t.items) /\ conn' = "progress"
            \/ Now("connect", "done", FALSE, t.over, t.items) /\ conn' = "up"
            \/ Now("connect", "failed", FALSE, t.over, t.items) /\ conn' = "refused"
        BY Zenon, <3>1, <3>3 DEF ConnectEnd, t
      <4>3. /\ task'["connect"].over = "none"
            /\ \/ st'["connect"] = "failed" /\ conn' = "refused"
               \/ st'["connect"] = "done" /\ conn' = "up"
               \/ st'["connect"] = "wait" /\ task'["connect"].active = TRUE /\ conn' = "progress"
        BY Zenon, <2>2, <2>5, <3>2, <3>3, <4>1, <4>2
      <4> QED
        BY <4>3
    <3>4. CASE os = "windows"
      <4>1. \/ t.active /\ t.over = "pending" /\ Now("connect", "wait", t.active, t.over, t.items) /\ conn' = conn
            \/ t.active /\ t.over = "failed" /\ Now("connect", "failed", FALSE, t.over, t.items) /\ conn' = conn
            \/ t.active /\ t.over = "ok" /\ Now("connect", "done", FALSE, t.over, t.items) /\ conn' = conn
            \/ ~t.active /\ Now("connect", "failed", t.active, t.over, t.items) /\ conn' = conn
            \/ ~t.active /\ Now("connect", "wait", TRUE, "pending", << >>) /\ conn' = "progress"
        BY Zenon, <3>1, <3>4 DEF ConnectEnd, t
      <4>2. \/ /\ task'["connect"].active /\ task'["connect"].over = "pending" /\ st'["connect"] = "wait"
               /\ conn' # "none" /\ conn' \in {"none", "progress", "up", "refused"}
            \/ task'["connect"].over = "failed" /\ st'["connect"] = "failed" /\ conn' = "refused"
            \/ task'["connect"].over = "ok" /\ st'["connect"] = "done" /\ conn' = "up"
            \/ task'["connect"].over = "none" /\ st'["connect"] = "failed" /\ conn' = "none"
            \/ /\ task'["connect"].active = TRUE /\ task'["connect"].over = "pending"
               /\ st'["connect"] = "wait" /\ conn' = "progress"
        BY Zenon, <2>2, <2>5, <3>2, <4>1
      <4> QED
        BY <4>2
    <3> QED
      BY Zenon, <3>3, <3>4
  <2>7. CASE Pends(op)
    <3>1. os = "windows" /\ t.active /\ t.over = "pending" /\ conn' = conn /\ st'["connect"] = "wait" /\ task'["connect"] = t
      BY Zenon, <1>3, <2>7 DEF Pends, t
    <3> QED
      BY <2>2, <3>1
  <2> QED
    BY Zenon, <1>3, <2>1, <2>6, <2>7
       DEF Outcome, Took, Gave, Waits, Fails, Arms, Starts, Full, Sends, Reports, Shifts
<1> QED
  BY Zenon, <1>2, <1>3

-----------------------------------------------------------------------------
(* The invariant and the other steps                                       *)

\* A part of the invariant stays if what it is about stays.
LEMMA StandingStays ==
  ASSUME Standing, UNCHANGED <<os, ops, attached, task, st>>
  PROVE  Standing'
  BY Zenon DEF Standing

\* What was read is what the caller got, as before.
LEMMA ReadingStays ==
  ASSUME Reading, UNCHANGED <<ops, got, taken, task>>
  PROVE  Reading'
  BY Zenon DEF Reading, Held, Holds

\* What was sent is what is in the send buffer, as before.
LEMMA WritingStays ==
  ASSUME Writing, UNCHANGED <<os, ops, wire, drained, nospace, broken, acked, iov, task, st>>
  PROVE  Writing'
  BY Zenon DEF Writing, Holds

\* The connection is as the task has it, as before.
LEMMA ConnectingStays ==
  ASSUME Connecting, UNCHANGED <<os, ops, broken, conn, kev, task, st>>
  PROVE  Connecting'
  BY Zenon DEF Connecting

\* The caller waits only after it has attached the descriptor; then UNIX puts the
\* filter of its operation on the ready list when the kernel wakes it.
LEMMA WakeAdds ==
  ASSUME AsyncInv, NEW op \in ops, st[op] = "wait", os # "windows", NEW fs, Wake(fs)
  PROVE  /\ edge \subseteq edge'
         /\ FilterOf(op) \in fs => FilterOf(op) \in edge'
<1>1. attached
  BY Zenon DEF AsyncInv, Standing
<1>2. FilterOf(op) \in Attachable
  BY Zenon DEF Attachable
<1>3. edge' = edge \cup (fs \cap Attachable)
  BY Zenon, <1>1 DEF Wake
<1> QED
  BY Zenon, <1>2, <1>3

\* Something arrives: the readers that wait are woken.
LEMMA ArriveKeeps ==
  ASSUME AsyncInv, Arrive
  PROVE  AsyncInv'
<1>1. /\ arrived' = arrived + 1 /\ Wake({"read"})
      /\ UNCHANGED <<os, ops, attached, taken, conn, wire, drained, nospace, broken, port, task, kev, st, got, iov, acked>>
  BY Zenon DEF Arrive, callerVars
<1>2. Types'
  <2>1. arrived' \in Nat /\ taken \in 0..arrived'
    BY <1>1 DEF AsyncInv, Types
  <2> QED
    BY Zenon, <1>1, <2>1 DEF AsyncInv, Types
<1>3. NoLostWakeup'
  <2>1. ASSUME NEW op \in ops, st[op] = "wait", os # "windows", (FilterOf(op) \in Ready)'
        PROVE  FilterOf(op) \in edge'
    <3>1. CASE op \in Readers
      BY Zenon, <1>1, <2>1, <3>1, WakeAdds DEF FilterOf
    <3>2. CASE op \notin Readers
      <4>1. Writable
        BY Zenon, <1>1, <2>1, <3>2, ReadyThen DEF Writable
      <4>2. FilterOf(op) \in edge
        BY Zenon, <2>1, <3>2, <4>1, ReadyFor DEF AsyncInv, NoLostWakeup
      <4> QED
        BY Zenon, <1>1, <2>1, <4>2, WakeAdds
    <3> QED
      BY Zenon, <3>1, <3>2
  <2> QED
    BY Zenon, <1>1, <2>1 DEF AsyncInv, NoLostWakeup
<1> QED
  BY Zenon, <1>1, <1>2, <1>3, StandingStays, ReadingStays, WritingStays, ConnectingStays DEF AsyncInv

\* The peer reads: a sender that found no room is woken, and another one was ready before.
LEMMA DrainKeeps ==
  ASSUME AsyncInv, Drain
  PROVE  AsyncInv'
<1>1. /\ drained < Len(wire) /\ ~broken /\ drained' = drained + 1
      /\ IF nospace THEN Wake({"write"}) ELSE UNCHANGED edge
      /\ UNCHANGED <<os, ops, attached, arrived, taken, conn, wire, broken, port, task, kev, st, got, iov, acked>>
  BY Zenon DEF Drain, callerVars
<1>2. /\ wire \in Seq(Nat) /\ drained \in 0..Len(wire) /\ Len(wire) - drained <= Room /\ Room \in Nat
  BY AsyncIOAssumption DEF AsyncInv, Types
<1>3. Len(wire) \in Nat
  BY <1>2, LenProperties
<1>4. drained' \in 0..Len(wire) /\ Len(wire) - drained' < Room /\ Len(wire) - drained' <= Room
  BY <1>1, <1>2, <1>3
<1>5. Types'
  BY Zenon, <1>1, <1>4 DEF AsyncInv, Types
<1>6. NoLostWakeup'
  <2>1. ASSUME NEW op \in ops, st[op] = "wait", os # "windows", (FilterOf(op) \in Ready)'
        PROVE  FilterOf(op) \in edge'
    <3>1. edge \subseteq edge'
      BY Zenon, <1>1, <2>1, WakeAdds
    <3>2. CASE op \in Readers \/ op = "connect"
      <4>1. CASE op \in Readers
        <5>1. Readable
          BY Zenon, <1>1, <2>1, <4>1, ReadyThen DEF Readable
        <5> QED
          BY Zenon, <2>1, <3>1, <4>1, <5>1, ReadyFor DEF AsyncInv, NoLostWakeup
      <4>2. CASE op = "connect"
        <5>1. op \notin Readers
          BY <4>2 DEF Readers
        <5>2. Writable
          BY Zenon, <1>1, <2>1, <4>2, <5>1, ReadyThen DEF Writable
        <5> QED
          BY Zenon, <2>1, <3>1, <5>1, <5>2, ReadyFor DEF AsyncInv, NoLostWakeup
      <4> QED
        BY Zenon, <3>2, <4>1, <4>2
    <3>3. CASE op \in Senders
      <4>1. op \notin Readers /\ op # "connect"
        BY <3>3 DEF Readers, Senders
      <4>2. "connect" \notin ops
        <5>1. "connect" \in ops => ops = {"connect"}
          BY Zenon, Together DEF AsyncInv
        <5> QED
          BY <4>1, <5>1
      <4>3. CASE nospace
        BY Zenon, <1>1, <2>1, <4>1, <4>3, WakeAdds DEF FilterOf
      <4>4. CASE ~nospace
        <5>1. Len(wire) - drained < Room \/ broken
          BY Zenon, <2>1, <3>3, <4>4 DEF AsyncInv, Writing
        <5>2. Writable
          BY Zenon, <4>2, <5>1 DEF Writable
        <5> QED
          BY Zenon, <2>1, <3>1, <4>1, <5>2, ReadyFor DEF AsyncInv, NoLostWakeup
      <4> QED
        BY Zenon, <4>3, <4>4
    <3>4. op \in Readers \/ op = "connect" \/ op \in Senders
      <4>1. ops \subseteq Ops
        BY Zenon, Together DEF AsyncInv
      <4> QED
        BY Zenon, <4>1 DEF Ops, Writers, Senders
    <3> QED
      BY Zenon, <3>2, <3>3, <3>4
  <2> QED
    BY Zenon, <1>1, <2>1 DEF AsyncInv, NoLostWakeup
<1>7. Writing'
  BY Zenon, <1>1, <1>4 DEF AsyncInv, Writing, Holds
<1> QED
  BY Zenon, <1>1, <1>5, <1>6, <1>7, StandingStays, ReadingStays, ConnectingStays DEF AsyncInv

\* The connection ends up established or refused while the caller waits for it.
LEMMA EstablishKeeps ==
  ASSUME AsyncInv, Establish
  PROVE  AsyncInv'
<1>1. /\ conn = "progress" /\ conn' \in {"up", "refused"} /\ Wake({"write"})
      /\ UNCHANGED <<os, ops, attached, arrived, taken, wire, drained, nospace, broken, port, task, kev, st, got, iov, acked>>
  BY Zenon DEF Establish, callerVars
<1>2. "connect" \in ops /\ ops = {"connect"}
  <2>1. "connect" \in ops
    BY Zenon, <1>1 DEF AsyncInv, Connecting
  <2> QED
    BY Zenon, <2>1, Together DEF AsyncInv
<1>3. Types'
  BY Zenon, <1>1 DEF AsyncInv, Types
<1>4. NoLostWakeup'
  <2>1. ASSUME NEW op \in ops, st[op] = "wait", os # "windows"
        PROVE  FilterOf(op) \in edge'
    <3>1. op = "connect"
      BY <1>2
    <3>2. FilterOf(op) = "write"
      BY <3>1 DEF FilterOf, Readers
    <3> QED
      BY Zenon, <1>1, <2>1, <3>2, WakeAdds
  <2> QED
    BY Zenon, <1>1, <2>1 DEF AsyncInv, NoLostWakeup
<1>5. Connecting'
  <2>1. /\ ~broken
        /\ st["connect"] # "arm"
        /\ st["connect"] # "done" /\ st["connect"] # "failed"
        /\ st["connect"] = "wait" => task["connect"].active
        /\ st["connect"] = "call" => task["connect"].active /\ os = "windows"
        /\ task["connect"].over # "ok" /\ task["connect"].over # "failed"
    BY Zenon, <1>1, <1>2 DEF AsyncInv, Connecting
  <2>2. conn' # "none" /\ conn' \in {"none", "progress", "up", "refused"}
    BY <1>1
  <2> QED
    BY Zenon, <1>1, <1>2, <2>1, <2>2 DEF Connecting
<1> QED
  BY Zenon, <1>1, <1>3, <1>4, <1>5, StandingStays, ReadingStays, WritingStays DEF AsyncInv

\* A reset wakes both directions.
LEMMA BreakKeeps ==
  ASSUME AsyncInv, Break
  PROVE  AsyncInv'
<1>1. /\ ops \subseteq {"recv", "send", "sendv"} /\ broken' = TRUE /\ Wake({"read", "write"})
      /\ UNCHANGED <<os, ops, attached, arrived, taken, conn, wire, drained, nospace, port, task, kev, st, got, iov, acked>>
  BY Zenon DEF Break, callerVars
<1>2. Types'
  BY Zenon, <1>1 DEF AsyncInv, Types
<1>3. NoLostWakeup'
  <2>1. ASSUME NEW op \in ops, st[op] = "wait", os # "windows"
        PROVE  FilterOf(op) \in edge'
    <3>1. FilterOf(op) \in {"read", "write"}
      BY Zenon DEF FilterOf
    <3> QED
      BY Zenon, <1>1, <2>1, <3>1, WakeAdds
  <2> QED
    BY Zenon, <1>1, <2>1 DEF AsyncInv, NoLostWakeup
<1>4. Writing'
  BY Zenon, <1>1 DEF AsyncInv, Writing, Holds
<1>5. Connecting'
  <2>1. "connect" \notin ops
    BY <1>1
  <2> QED
    BY Zenon, <1>1, <2>1 DEF AsyncInv, Connecting
<1> QED
  BY Zenon, <1>1, <1>2, <1>3, <1>4, <1>5, StandingStays, ReadingStays DEF AsyncInv

\* Nothing waits before ffkq_attach().
LEMMA AttachKeeps ==
  ASSUME AsyncInv, Attach
  PROVE  AsyncInv'
<1>1. /\ ~attached /\ attached'
      /\ UNCHANGED <<os, ops, arrived, taken, conn, wire, drained, nospace, broken, port, task, kev, st, got, iov, acked>>
  BY Zenon DEF Attach, callerVars, kernelVars
<1>2. Types'
  BY Zenon, <1>1 DEF AsyncInv, Types
<1>3. Standing'
  BY Zenon, <1>1 DEF AsyncInv, Standing
<1>4. NoLostWakeup'
  <2>1. \A op \in ops : st[op] # "wait"
    BY Zenon, <1>1 DEF AsyncInv, Standing
  <2> QED
    BY Zenon, <1>1, <2>1 DEF NoLostWakeup
<1> QED
  BY Zenon, <1>1, <1>2, <1>3, <1>4, ReadingStays, WritingStays, ConnectingStays DEF AsyncInv

\* What ffkq_wait() may do to the caller's standing.
LEMMA Signalled ==
  ASSUME AsyncInv, NEW flags, Signal(flags)
  PROVE  /\ st' \in [ops -> States]
         /\ \A op \in ops :
              \/ st'[op] = st[op] /\ (st[op] = "wait" => FilterOf(op) \notin flags)
              \/ st'[op] = "call" /\ st[op] = "wait" /\ FilterOf(op) \in flags
<1>1. st \in [ops -> States] /\ "call" \in States
  BY Zenon DEF AsyncInv, Types, States
<1>2. st' = [op \in ops |-> IF st[op] = "wait" /\ FilterOf(op) \in flags THEN "call" ELSE st[op]]
  BY Zenon DEF Signal
<1> QED
  BY <1>1, <1>2

\* The parts of the invariant that do not depend on which events were reported.
LEMMA SignalKeeps ==
  ASSUME AsyncInv, NEW flags, Signal(flags), attached, NEW ready, port' = ready, ready \in Seq(ops),
         UNCHANGED <<os, ops, attached, kernelVars, task, got, iov, acked>>
  PROVE  Types' /\ Standing' /\ Reading' /\ Writing'
<1>1. UNCHANGED <<arrived, taken, conn, wire, drained, nospace, broken>>
  BY Zenon DEF kernelVars
<1>2. /\ st' \in [ops -> States]
      /\ \A op \in ops : st'[op] = st[op] \/ (st'[op] = "call" /\ st[op] = "wait")
  BY Zenon, Signalled
<1>3. Types'
  BY Zenon, <1>1, <1>2 DEF AsyncInv, Types
<1>4. Standing'
  <2>1. "call" # "arm"
    OBVIOUS
  <2>2. ASSUME NEW op \in ops
        PROVE  /\ os # "windows" => task[op].over = "none" /\ st'[op] # "arm"
               /\ task[op].over = "pending" => task[op].active
               /\ st'[op] = "arm" => ~task[op].active
    BY Zenon, <1>2, <2>1 DEF AsyncInv, Standing
  <2> QED
    BY Zenon, <2>2 DEF Standing
<1>5. Reading'
  BY Zenon, <1>1, ReadingStays DEF AsyncInv
<1>6. Writing'
  <2>1. ASSUME NEW p \in ops \cap Senders
        PROVE  /\ st'[p] \in {"call", "wait", "arm"} =>
                    Left(iov) >= 1 \/ (wire = << >> /\ st'[p] = "call" /\ ~task[p].active)
               /\ os # "windows" /\ st'[p] = "wait" => nospace \/ broken \/ Len(wire) - drained < Room
    <3>1. /\ st[p] \in {"call", "wait", "arm"} =>
               Left(iov) >= 1 \/ (wire = << >> /\ st[p] = "call" /\ ~task[p].active)
          /\ os # "windows" /\ st[p] = "wait" => nospace \/ broken \/ Len(wire) - drained < Room
      BY Zenon DEF AsyncInv, Writing
    <3>2. st'[p] = st[p] \/ (st'[p] = "call" /\ st[p] = "wait")
      BY Zenon, <1>2
    <3> QED
      BY Zenon, <3>1, <3>2
  <2> QED
    BY Zenon, <1>1, <2>1 DEF AsyncInv, Writing, Holds
<1> QED
  BY Zenon, <1>3, <1>4, <1>5, <1>6

\* The event tells how the connection ended.
LEMMA SignalConnects ==
  ASSUME AsyncInv, NEW flags, Signal(flags), UNCHANGED <<os, ops, conn, broken, task>>,
         os # "windows" /\ conn = "refused" => kev',
         os # "windows" /\ "connect" \in ops /\ "write" \in flags /\ conn # "none" => conn \in {"up", "refused"}
  PROVE  Connecting'
<1>1. CASE "connect" \notin ops
  BY Zenon, <1>1 DEF AsyncInv, Connecting
<1>2. CASE "connect" \in ops
  <2>1. FilterOf("connect") = "write"
    BY DEF FilterOf, Readers
  <2>2. \/ st'["connect"] = st["connect"]
        \/ st'["connect"] = "call" /\ st["connect"] = "wait" /\ "write" \in flags
    BY Zenon, <1>2, <2>1, Signalled
  <2>3. /\ ~broken /\ conn \in {"none", "progress", "up", "refused"}
        /\ st["connect"] # "arm"
        /\ st["connect"] = "done" => conn = "up"
        /\ st["connect"] = "failed" => conn \in {"none", "refused"}
        /\ st["connect"] = "wait" => task["connect"].active /\ conn # "none"
        /\ st["connect"] = "call" /\ ~task["connect"].active => conn = "none" /\ task["connect"].over = "none"
        /\ st["connect"] = "call" /\ task["connect"].active /\ os # "windows" => conn \in {"up", "refused"}
        /\ task["connect"].over = "pending" => conn # "none"
        /\ task["connect"].over = "ok" => conn = "up"
        /\ task["connect"].over = "failed" => conn = "refused"
    BY Zenon, <1>2 DEF AsyncInv, Connecting
  <2>4. CASE st'["connect"] = st["connect"]
    BY Zenon, <1>2, <2>3, <2>4 DEF Connecting
  <2>5. CASE st'["connect"] = "call" /\ st["connect"] = "wait" /\ "write" \in flags
    <3>1. task["connect"].active /\ conn # "none" /\ (os # "windows" => conn \in {"up", "refused"})
      BY Zenon, <1>2, <2>3, <2>5
    <3>2. "call" # "arm" /\ "call" # "done" /\ "call" # "failed" /\ "call" # "wait"
      OBVIOUS
    <3> QED
      BY Zenon, <1>2, <2>3, <2>5, <3>1, <3>2 DEF Connecting
  <2> QED
    BY Zenon, <2>2, <2>4, <2>5
<1> QED
  BY Zenon, <1>1, <1>2

\* ffkq_wait() takes events only from operations that are called again for them.
LEMMA WaitKeeps ==
  ASSUME AsyncInv, Wait
  PROVE  AsyncInv'
<1>1. /\ attached /\ UNCHANGED <<os, ops, attached, kernelVars, task, got, iov, acked>>
      /\ ffkq_wait_linux \/ ffkq_wait_bsd \/ ffkq_wait_win
  BY Zenon DEF Wait
<1>2. UNCHANGED <<arrived, taken, conn, wire, drained, nospace, broken>>
  BY Zenon, <1>1 DEF kernelVars
<1>3. (Ready' = Ready)
  BY Zenon, <1>1, <1>2 DEF Ready, Readable, Writable
<1>4. port \in Seq(ops)
  BY Zenon DEF AsyncInv, Types
<1>5. ASSUME "connect" \in ops, "write" \in Ready, os # "windows", conn # "none"
      PROVE  conn \in {"up", "refused"}
  <2>1. Writable
    BY <1>5 DEF Ready
  <2> QED
    BY Zenon, <1>5, <2>1 DEF Writable
<1>6. "connect" \in ops => ~broken
  BY Zenon DEF AsyncInv, Connecting
<1>7. \A op : FilterOf(op) \in {"read", "write"} /\ FilterOf(op) # "error"
  BY DEF FilterOf
<1>8. CASE ffkq_wait_linux
  <2> DEFINE events == (Ready \cap Attachable) \cup Failure
             flags  == ffkq_event_flags_linux(events)
  <2>1. /\ os = "linux" /\ edge' = {} /\ Signal(flags) /\ kev' = ("error" \in events) /\ port' = port
    BY Zenon, <1>8 DEF ffkq_wait_linux, ffkq_task_event_assign
  <2>2. os # "windows"
    BY <2>1
  <2>3. \A f \in Ready \cap Attachable : f \in flags
    <3>1. Ready \subseteq {"read", "write"}
      BY Zenon DEF Ready
    <3> QED
      BY Zenon, <3>1 DEF ffkq_event_flags_linux
  <2>4. "write" \in flags => "error" \in Failure \/ "write" \in Ready
    <3>1. "write" \notin Failure
      BY DEF Failure
    <3>2. "error" \notin Ready
      BY DEF Ready
    <3> QED
      BY Zenon, <3>1, <3>2 DEF ffkq_event_flags_linux
  <2>5. conn = "refused" => "error" \in events
    BY Zenon DEF Failure
  <2>6. "error" \in Failure => broken \/ conn = "refused"
    BY Zenon DEF Failure
  <2> HIDE DEF flags, events
  <2>7. Types' /\ Standing' /\ Reading' /\ Writing'
    BY Zenon, <1>1, <1>4, <2>1, SignalKeeps
  <2>8. Connecting'
    <3>1. os # "windows" /\ conn = "refused" => kev'
      BY Zenon, <2>1, <2>5
    <3>2. "connect" \in ops /\ "write" \in flags /\ conn # "none" => conn \in {"up", "refused"}
      BY Zenon, <1>5, <1>6, <2>2, <2>4, <2>6
    <3> QED
      BY Zenon, <1>1, <1>2, <2>1, <3>1, <3>2, SignalConnects
  <2>9. NoLostWakeup'
    <3>1. ASSUME NEW op \in ops, st'[op] = "wait"
          PROVE  FilterOf(op) \notin Ready
      <4>1. "call" # "wait"
        OBVIOUS
      <4>2. FilterOf(op) \notin flags
        BY Zenon, <2>1, <3>1, <4>1, Signalled
      <4>3. FilterOf(op) \in Attachable
        BY Zenon DEF Attachable
      <4> QED
        BY Zenon, <2>3, <4>2, <4>3
    <3> QED
      BY Zenon, <1>1, <1>3, <2>2, <3>1 DEF NoLostWakeup
  <2> QED
    BY Zenon, <2>7, <2>8, <2>9 DEF AsyncInv
<1>9. CASE ffkq_wait_bsd
  <2>1. PICK f \in edge : /\ edge' = edge \ {f}
                          /\ Signal({f} \cap Ready)
                          /\ kev' = ("error" \in {f} \cup Failure)
    BY Zenon, <1>9 DEF ffkq_wait_bsd, ffkq_event_flags_bsd, ffkq_task_event_assign
  <2>2. os = "bsd" /\ port' = port
    BY Zenon, <1>9 DEF ffkq_wait_bsd
  <2>3. os # "windows"
    BY <2>2
  <2>4. Types' /\ Standing' /\ Reading' /\ Writing'
    BY Zenon, <1>1, <1>4, <2>1, <2>2, SignalKeeps
  <2>5. Connecting'
    <3>1. conn = "refused" => kev'
      BY Zenon, <2>1 DEF Failure
    <3>2. "connect" \in ops /\ "write" \in {f} \cap Ready /\ conn # "none" => conn \in {"up", "refused"}
      BY Zenon, <1>5, <2>3
    <3> QED
      BY Zenon, <1>1, <1>2, <2>1, <3>1, <3>2, SignalConnects
  <2>6. NoLostWakeup'
    <3>1. ASSUME NEW op \in ops, st'[op] = "wait", FilterOf(op) \in Ready
          PROVE  FilterOf(op) \in edge'
      <4>1. "call" # "wait"
        OBVIOUS
      <4>2. st[op] = "wait" /\ FilterOf(op) \notin {f} \cap Ready
        BY Zenon, <2>1, <3>1, <4>1, Signalled
      <4>3. FilterOf(op) \in edge
        BY ZenonT(60), <2>3, <3>1, <4>2 DEF AsyncInv, NoLostWakeup
      <4> QED
        BY Zenon, <2>1, <3>1, <4>2, <4>3
    <3> QED
      BY Zenon, <1>1, <1>3, <2>3, <3>1 DEF NoLostWakeup
  <2> QED
    BY Zenon, <2>4, <2>5, <2>6 DEF AsyncInv
<1>10. CASE ffkq_wait_win
  <2>1. os = "windows" /\ port # << >> /\ port' = Tail(port) /\ Signal({"read", "write"})
    BY Zenon, <1>10 DEF ffkq_wait_win
  <2>2. Tail(port) \in Seq(ops)
    BY <1>4, <2>1, HeadTailProperties
  <2>3. Types' /\ Standing' /\ Reading' /\ Writing'
    BY Zenon, <1>1, <2>1, <2>2, SignalKeeps
  <2>4. Connecting'
    BY Zenon, <1>1, <1>2, <2>1, SignalConnects
  <2>5. NoLostWakeup'
    <3>1. "call" # "wait"
      OBVIOUS
    <3>2. \A op \in ops : st'[op] # "wait"
      BY Zenon, <1>7, <2>1, <3>1, Signalled
    <3> QED
      BY Zenon, <1>1, <3>2 DEF NoLostWakeup
  <2> QED
    BY Zenon, <2>3, <2>4, <2>5 DEF AsyncInv
<1> QED
  BY Zenon, <1>1, <1>8, <1>9, <1>10

\* Steps that change nothing the invariant is about.
LEMMA OthersKeep ==
  ASSUME AsyncInv, ffpipe_peer_close \/ UNCHANGED vars
  PROVE  AsyncInv'
<1>1. UNCHANGED <<os, ops, attached, arrived, taken, conn, wire, drained, nospace, broken, edge, port, task, kev,
                  st, got, iov, acked>>
  BY Zenon DEF ffpipe_peer_close, vars, kernelVars, callerVars
<1>2. Types'
  BY Zenon, <1>1 DEF AsyncInv, Types
<1>3. NoLostWakeup'
  BY Zenon, <1>1 DEF AsyncInv, NoLostWakeup, Ready, Readable, Writable
<1> QED
  BY Zenon, <1>1, <1>2, <1>3, StandingStays, ReadingStays, WritingStays, ConnectingStays DEF AsyncInv

\* What the completion of a request does: it was in progress, so the task is in use;
\* the packet is in the port; what it received or sent is the next of the stream.
CompleteEnd(op) ==
  LET fails == broken \/ conn = "refused" IN
  /\ os = "windows" /\ task[op].active /\ task[op].over = "pending"
  /\ FilterOf(op) \in Ready
  /\ port' = Append(port, op)
  /\ UNCHANGED <<os, ops, attached, arrived, conn, drained, nospace, broken, edge, kev, st, got, iov, acked>>
  /\ \A p \in ops : p # op => task'[p] = task[p]
  /\ task' \in [ops -> Tasks]
  /\ task'[op].active = task[op].active
  /\ task'[op].over = IF fails THEN "failed" ELSE "ok"
  /\ \/ /\ op \in Readers \ {"recv"} /\ ~broken /\ wire' = wire
        /\ \E n \in taken .. arrived : taken' = n /\ task'[op].items = From(taken, n)
     \/ /\ op \notin Readers \ {"recv"} \/ broken
        /\ taken' = taken /\ task'[op].items = task[op].items
        /\ wire' = IF op \in Senders /\ ~broken THEN wire \o task[op].items ELSE wire

\* This is what happens when a request completes.
LEMMA CompletesTo ==
  ASSUME AsyncInv, NEW op \in ops, Complete(op)
  PROVE  CompleteEnd(op)
<1> DEFINE items == IF op = "filemon" THEN From(taken, arrived) ELSE From(taken, taken + 1)
           takes == op \in Readers \ {"recv"} /\ ~broken
           over  == IF broken \/ conn = "refused" THEN "failed" ELSE "ok"
           is    == IF takes THEN items ELSE task[op].items
<1>1. /\ os = "windows" /\ task[op].over = "pending" /\ FilterOf(op) \in Ready
      /\ port' = Append(port, op)
      /\ UNCHANGED <<os, ops, attached, arrived, conn, drained, nospace, broken, edge, kev, st, got, iov, acked>>
      /\ taken' = IF takes THEN taken + Len(items) ELSE taken
      /\ wire' = IF op \in Senders /\ ~broken THEN wire \o task[op].items ELSE wire
  BY Zenon DEF Complete, callerVars, Senders
<1>2. task[op].active
  BY Zenon, <1>1 DEF AsyncInv, Standing
<1>3. task \in [ops -> Tasks] /\ arrived \in Nat /\ taken \in 0..arrived
  BY Zenon DEF AsyncInv, Types
<1>4. takes => op \in Readers /\ op \notin Senders
  BY DEF Readers, Senders
<1>5. takes => \E n \in taken .. arrived : taken + Len(items) = n /\ items = From(taken, n)
  <2> SUFFICES ASSUME takes PROVE \E n \in taken .. arrived : taken + Len(items) = n /\ items = From(taken, n)
    OBVIOUS
  <2>1. arrived > taken
    <3>1. Readable
      BY Zenon, <1>1, <1>4, ReadyFor
    <3> QED
      BY Zenon, <3>1 DEF Readable
  <2>2. PICK n \in {arrived, taken + 1} : items = From(taken, n)
    BY Zenon
  <2>3. n \in Nat /\ taken \in Nat /\ taken <= n /\ n \in taken .. arrived /\ taken + (n - taken) = n
    BY <1>3, <2>1, <2>2
  <2>4. Len(items) = n - taken
    BY Zenon, <2>2, <2>3, Stretches
  <2> QED
    BY Zenon, <2>2, <2>3, <2>4
<1>6. is \in Seq(Nat)
  <2>1. task[op].items \in Seq(Nat)
    BY Zenon, TaskFields DEF AsyncInv
  <2>2. \A n \in taken .. arrived : taken \in Nat /\ n \in Nat /\ taken <= n
    BY <1>3
  <2>3. takes => items \in Seq(Nat)
    BY Zenon, <1>5, <2>2, Stretches
  <2> QED
    BY Zenon, <2>1, <2>3
<1>7. over \in {"none", "pending", "ok", "failed"}
  BY Zenon
<1>8. task' = [task EXCEPT ![op].over = over, ![op].items = is]
  BY DEF Complete
<1> HIDE DEF over, is
<1>9. /\ \A p \in ops : p # op => task'[p] = task[p]
      /\ task' \in [ops -> Tasks]
      /\ task'[op].active = task[op].active /\ task'[op].over = over /\ task'[op].items = is
  BY Zenon, <1>3, <1>6, <1>7, <1>8 DEF Tasks
<1>10. CASE takes
  <2>1. is = items /\ wire' = wire /\ taken' = taken + Len(items)
    BY Zenon, <1>1, <1>4, <1>10 DEF is
  <2>2. \E n \in taken .. arrived : taken' = n /\ task'[op].items = From(taken, n)
    BY Zenon, <1>5, <1>9, <1>10, <2>1
  <2> QED
    BY Zenon, <1>1, <1>2, <1>9, <1>10, <2>1, <2>2 DEF CompleteEnd, over
<1>11. CASE ~takes
  <2>1. is = task[op].items /\ taken' = taken
    BY Zenon, <1>1, <1>11 DEF is
  <2>2. op \notin Readers \ {"recv"} \/ broken
    BY Zenon, <1>11
  <2> QED
    BY Zenon, <1>1, <1>2, <1>9, <2>1, <2>2 DEF CompleteEnd, over
<1> QED
  BY Zenon, <1>10, <1>11

\* A completed request has its packet in the port, and what it took from the stream or gave to it.
LEMMA CompleteKeeps ==
  ASSUME AsyncInv, NEW op \in ops, Complete(op)
  PROVE  AsyncInv'
<1>1. CompleteEnd(op)
  BY Zenon, CompletesTo
<1>2. /\ os = "windows" /\ task[op].active /\ task[op].over = "pending"
      /\ port' = Append(port, op)
      /\ UNCHANGED <<os, ops, attached, arrived, conn, drained, nospace, broken, edge, kev, st, got, iov, acked>>
      /\ \A p \in ops : p # op => task'[p] = task[p]
      /\ task' \in [ops -> Tasks] /\ task'[op].active = task[op].active
      /\ task'[op].over = IF broken \/ conn = "refused" THEN "failed" ELSE "ok"
  BY Zenon, <1>1 DEF CompleteEnd
<1>3. task'[op].over # "pending" /\ task'[op].over # "none"
  BY <1>2
<1>4. /\ "connect" \in ops => ops = {"connect"}
      /\ \A o, p \in ops : o \in Readers /\ p \in Readers => o = p
      /\ \A o, p \in ops : o \in Senders /\ p \in Senders => o = p
  BY Zenon, Together DEF AsyncInv
<1>5. op # "connect" => "connect" \notin ops /\ conn = "none"
  <2>1. op # "connect" => "connect" \notin ops
    BY <1>4
  <2> QED
    BY Zenon, <2>1 DEF AsyncInv, Connecting
<1>6. /\ wire \in Seq(Nat) /\ drained \in 0..Len(wire) /\ Len(wire) - drained <= Room
      /\ acked \in Nat /\ arrived \in Nat /\ taken \in 0..arrived /\ got \in Seq(Nat) /\ Room \in Nat
  BY AsyncIOAssumption DEF AsyncInv, Types
<1>7. acked + 1 \in Nat /\ acked <= acked + 1 /\ (acked + 1) - acked = 1 /\ acked + 0 = acked
  BY <1>6
<1>8. ASSUME op \in Senders, ~broken
      PROVE  /\ task[op].items = From(acked, acked + 1) /\ wire' = wire \o From(acked, acked + 1)
             /\ wire' \in Seq(Nat) /\ Len(wire') = Len(wire) + 1 /\ Len(wire) - drained < Room
  <2>1. op \notin Readers /\ op # "connect"
    BY <1>8 DEF Senders, Readers
  <2>2. task[op].items = From(acked, acked + 1)
    BY Zenon, <1>2, <1>8 DEF AsyncInv, Writing
  <2>3. wire' = wire \o From(acked, acked + 1)
    BY Zenon, <1>1, <1>8, <2>1, <2>2 DEF CompleteEnd
  <2>4. From(acked, acked + 1) \in Seq(Nat) /\ Len(From(acked, acked + 1)) = 1
    BY Zenon, <1>6, <1>7, Stretches
  <2>5. wire' \in Seq(Nat) /\ Len(wire') = Len(wire) + 1
    <3> DEFINE f == From(acked, acked + 1)
    <3>1. wire \in Seq(Nat) /\ f \in Seq(Nat) /\ Len(f) = 1 /\ wire' = wire \o f
      BY Zenon, <1>6, <2>3, <2>4
    <3> HIDE DEF f
    <3>2. wire \o f \in Seq(Nat) /\ Len(wire \o f) = Len(wire) + Len(f)
      BY Zenon, <3>1, ConcatProperties
    <3> QED
      BY Zenon, <3>1, <3>2
  <2>6. Writable
    BY Zenon, <1>1, <2>1, ReadyFor DEF CompleteEnd
  <2>7. Len(wire) - drained < Room
    BY Zenon, <1>5, <1>8, <2>1, <2>6 DEF Writable
  <2> QED
    BY Zenon, <2>2, <2>3, <2>5, <2>7
<1>9. ~(op \in Senders /\ ~broken) => wire' = wire
  BY Zenon, <1>1 DEF CompleteEnd
<1>10. Types'
  <2>1. wire' \in Seq(Nat) /\ drained \in 0..Len(wire') /\ Len(wire') - drained <= Room
    <3>1. CASE op \in Senders /\ ~broken
      <4>1. Len(wire) \in Nat
        BY <1>6, LenProperties
      <4> QED
        BY <1>6, <1>8, <3>1, <4>1
    <3>2. CASE ~(op \in Senders /\ ~broken)
      BY ZenonT(60), <1>6, <1>9, <3>2
    <3> QED
      BY Zenon, <3>1, <3>2
  <2>2. taken' \in 0..arrived
    <3>1. taken' = taken \/ taken' \in taken .. arrived
      BY Zenon, <1>1 DEF CompleteEnd
    <3> QED
      BY <1>6, <3>1
  <2>3. port' \in Seq(ops)
    <3>1. port \in Seq(ops)
      BY Zenon DEF AsyncInv, Types
    <3> QED
      BY <1>2, <3>1, AppendProperties
  <2> QED
    BY Zenon, <1>2, <2>1, <2>2, <2>3 DEF AsyncInv, Types
<1>11. Standing'
  <2>1. ASSUME NEW p \in ops
        PROVE  /\ attached
               /\ task'[p].over = "pending" => task'[p].active
               /\ st[p] = "arm" => ~task'[p].active
    <3>1. attached
      <4>1. ~attached => task[op] = Idle
        BY Zenon DEF AsyncInv, Standing
      <4> QED
        BY <1>2, <4>1 DEF Idle
    <3>2. CASE p = op
      BY Zenon, <1>2, <1>3, <3>1, <3>2 DEF AsyncInv, Standing
    <3>3. CASE p # op
      BY Zenon, <1>2, <3>1, <3>3 DEF AsyncInv, Standing
    <3> QED
      BY Zenon, <3>2, <3>3
  <2> QED
    BY Zenon, <1>2, <2>1 DEF Standing
<1>12. NoLostWakeup'
  <2>1. ASSUME NEW p \in ops, st[p] = "wait"
        PROVE  task'[p].active /\ (task'[p].over = "pending" \/ \E i \in 1 .. Len(port') : port'[i] = p)
    <3>1. port \in Seq(ops) /\ op \in ops
      BY Zenon DEF AsyncInv, Types
    <3>2. /\ Len(port') = Len(port) + 1 /\ port'[Len(port) + 1] = op
          /\ \A i \in 1 .. Len(port) : port'[i] = port[i]
      BY <1>2, <3>1, AppendProperties
    <3>3. Len(port) \in Nat /\ Len(port) + 1 \in 1 .. Len(port) + 1 /\ 1 .. Len(port) \subseteq 1 .. Len(port) + 1
      <4>1. Len(port) \in Nat
        BY <3>1, LenProperties
      <4> QED
        BY <4>1
    <3>4. task[p].active /\ (task[p].over = "pending" \/ \E i \in 1 .. Len(port) : port[i] = p)
      BY Zenon, <1>2, <2>1 DEF AsyncInv, NoLostWakeup
    <3>5. CASE p = op
      BY Zenon, <1>2, <3>2, <3>3, <3>5
    <3>6. CASE p # op
      BY Zenon, <1>2, <3>2, <3>3, <3>4, <3>6
    <3> QED
      BY Zenon, <3>5, <3>6
  <2> QED
    BY Zenon, <1>2, <2>1 DEF NoLostWakeup
<1>13. Reading'
  <2>1. ASSUME NEW p \in ops \cap Readers
        PROVE  /\ got \o Held(p)' = From(0, taken')
               /\ task'[p].over = "pending" \/ p = "recv" => task'[p].items = << >>
    <3>1. /\ got \o Held(p) = From(0, taken)
          /\ task[p].over = "pending" \/ p = "recv" => task[p].items = << >>
      BY Zenon DEF AsyncInv, Reading
    <3>2. CASE p # op
      <4>1. op \notin Readers /\ task'[p] = task[p]
        BY Zenon, <1>2, <1>4, <3>2
      <4>2. taken' = taken
        BY Zenon, <1>1, <4>1 DEF CompleteEnd
      <4> QED
        BY Zenon, <3>1, <4>1, <4>2 DEF Held, Holds
    <3>3. CASE p = op
      <4>1. op \notin Senders /\ op # "connect" /\ op \in Readers
        BY <3>3 DEF Readers, Senders
      <4>2. conn # "refused"
        BY Zenon, <1>5, <4>1
      <4>3. ~Holds(op) /\ Held(op) = << >>
        BY Zenon, <1>2 DEF Holds, Held
      <4>4. got \o << >> = got
        BY <1>6
      <4>5. got = From(0, taken)
        BY Zenon, <3>1, <3>3, <4>3, <4>4
      <4>6. CASE op # "recv" /\ ~broken
        <5>1. PICK n \in taken .. arrived : taken' = n /\ task'[op].items = From(taken, n)
          BY Zenon, <1>1, <4>1, <4>6 DEF CompleteEnd
        <5>2. taken \in Nat /\ n \in Nat /\ taken <= n
          BY <1>6, <5>1
        <5>3. Held(op)' = From(taken, n)
          BY ZenonT(60), <1>2, <4>2, <4>6, <5>1 DEF Held, Holds
        <5> QED
          BY ZenonT(60), <1>3, <3>3, <4>5, <4>6, <5>1, <5>2, <5>3, Meet
      <4>7. CASE op = "recv" \/ broken
        <5>1. taken' = taken /\ task'[op].items = task[op].items
          BY Zenon, <1>1, <4>7 DEF CompleteEnd
        <5>2. Held(op)' = << >>
          <6>1. CASE broken
            BY Zenon, <1>2, <6>1 DEF Held, Holds
          <6>2. CASE op = "recv"
            BY Zenon, <3>1, <3>3, <5>1, <6>2 DEF Held
          <6> QED
            BY Zenon, <4>7, <6>1, <6>2
        <5> QED
          BY ZenonT(60), <1>3, <3>1, <3>3, <4>4, <4>5, <5>1, <5>2
      <4> QED
        BY Zenon, <4>6, <4>7
    <3> QED
      BY Zenon, <3>2, <3>3
  <2> QED
    BY Zenon, <1>2, <2>1 DEF Reading
<1>14. Writing'
  <2>1. ASSUME NEW p \in ops \cap Senders
        PROVE  /\ wire' = From(0, acked + (IF Holds(p)' THEN 1 ELSE 0))
               /\ \E v \in Vectors : Left(v) = acked + Left(iov)
               /\ task'[p].over = "pending" => task'[p].items = From(acked, acked + 1)
               /\ st[p] \in {"call", "wait", "arm"} =>
                    Left(iov) >= 1 \/ (wire' = << >> /\ st[p] = "call" /\ ~task'[p].active)
    <3>1. /\ wire = From(0, acked + (IF Holds(p) THEN 1 ELSE 0))
          /\ \E v \in Vectors : Left(v) = acked + Left(iov)
          /\ task[p].over = "pending" => task[p].items = From(acked, acked + 1)
          /\ st[p] \in {"call", "wait", "arm"} =>
               Left(iov) >= 1 \/ (wire = << >> /\ st[p] = "call" /\ ~task[p].active)
      BY Zenon DEF AsyncInv, Writing
    <3>2. CASE p # op
      <4>1. op \notin Senders /\ task'[p] = task[p]
        BY Zenon, <1>2, <1>4, <3>2
      <4>2. wire' = wire
        BY Zenon, <1>9, <4>1
      <4> QED
        BY Zenon, <3>1, <4>1, <4>2 DEF Holds
    <3>3. CASE p = op
      <4>1. op \in Senders /\ op # "connect"
        BY <3>3 DEF Senders
      <4>2. conn # "refused" /\ ~Holds(op)
        BY Zenon, <1>2, <1>5, <4>1 DEF Holds
      <4>3. wire = From(0, acked)
        BY Zenon, <1>7, <3>1, <3>3, <4>2
      <4>4. wire' = From(0, acked + (IF Holds(op)' THEN 1 ELSE 0))
        <5>1. CASE broken
          <6>1. ~Holds(op)'
            BY Zenon, <1>2, <5>1 DEF Holds
          <6> QED
            BY ZenonT(60), <1>7, <1>9, <4>3, <5>1, <6>1
        <5>2. CASE ~broken
          <6>1. Holds(op)'
            BY Zenon, <1>2, <4>2, <5>2 DEF Holds
          <6>2. wire' = From(0, acked + 1)
            BY ZenonT(60), <1>6, <1>7, <1>8, <4>1, <4>3, <5>2, Meet
          <6> QED
            BY Zenon, <6>1, <6>2
        <5> QED
          BY Zenon, <5>1, <5>2
      <4> QED
        BY ZenonT(60), <1>2, <1>3, <3>1, <3>3, <4>4
    <3> QED
      BY Zenon, <3>2, <3>3
  <2> QED
    BY Zenon, <1>2, <2>1 DEF Writing
<1>15. Connecting'
  <2>1. CASE op # "connect"
    BY Zenon, <1>2, <1>5, <2>1 DEF AsyncInv, Connecting
  <2>2. CASE op = "connect"
    <3>1. op \notin Readers /\ op \in ops
      BY <2>2 DEF Readers
    <3>2. Writable
      BY Zenon, <1>1, <3>1, ReadyFor DEF CompleteEnd
    <3>3. conn \in {"up", "refused"}
      BY ZenonT(60), <1>2, <2>2, <3>1, <3>2 DEF AsyncInv, Connecting, Writable
    <3>4. ~broken
      BY Zenon, <2>2, <3>1 DEF AsyncInv, Connecting
    <3>5. conn # "none" /\ (conn = "refused" => conn # "up")
      BY <3>3
    <3>6. /\ task'["connect"].over = "ok" => conn = "up"
          /\ task'["connect"].over = "failed" => conn = "refused"
      BY Zenon, <1>2, <2>2, <3>3, <3>4
    <3> QED
      BY ZenonT(60), <1>2, <1>3, <2>2, <3>1, <3>4, <3>5, <3>6 DEF AsyncInv, Connecting
  <2> QED
    BY Zenon, <2>1, <2>2
<1> QED
  BY Zenon, <1>10, <1>11, <1>12, <1>13, <1>14, <1>15 DEF AsyncInv

-----------------------------------------------------------------------------
(* The theorems                                                            *)

\* The invariant holds before the first call.
LEMMA Initially ==
  ASSUME Init
  PROVE  AsyncInv
<1>1. /\ os \in Systems /\ ops \in Scenarios /\ attached = FALSE
      /\ arrived = 0 /\ taken = 0 /\ conn = "none" /\ wire = << >> /\ drained = 0 /\ broken = FALSE
      /\ port = << >> /\ task = [op \in ops |-> Idle] /\ st = [op \in ops |-> "call"]
      /\ got = << >> /\ iov \in Vectors /\ acked = 0
  BY Zenon DEF Init
<1>2. Idle \in Tasks /\ "call" \in States /\ Idle.active = FALSE /\ Idle.over = "none" /\ Idle.items = << >>
  BY DEF Idle, Tasks, States
<1>3. \A op \in ops : task[op] = Idle /\ st[op] = "call"
  BY <1>1
<1>4. iov \in Seq(Nat) /\ Room \in Nat
  BY <1>1, AsyncIOAssumption
<1>5. From(0, 0) = << >>
  BY DEF From
<1>6. Types
  <2>1. task \in [ops -> Tasks] /\ st \in [ops -> States]
    BY <1>1, <1>2
  <2>2. /\ arrived \in Nat /\ taken \in 0..arrived /\ acked \in Nat
        /\ wire \in Seq(Nat) /\ port \in Seq(ops) /\ got \in Seq(Nat)
        /\ drained \in 0..Len(wire) /\ Len(wire) - drained <= Room
    BY <1>1, <1>4
  <2> QED
    BY Zenon, <1>1, <1>4, <2>1, <2>2 DEF Types
<1>7. \A op \in ops : ~Holds(op) /\ Held(op) = << >>
  BY Zenon, <1>2, <1>3 DEF Holds, Held
<1>8. Standing
  BY Zenon, <1>2, <1>3 DEF Standing
<1>9. NoLostWakeup
  BY Zenon, <1>3 DEF NoLostWakeup
<1>10. Reading
  <2>1. got \o << >> = << >>
    BY <1>1
  <2> QED
    BY Zenon, <1>1, <1>2, <1>3, <1>5, <1>7, <2>1 DEF Reading
<1>11. Writing
  <2>1. 0 + 0 = 0 /\ Left(iov) = 0 + Left(iov)
    <3>1. Left(iov) \in Nat
      BY Zenon, <1>4, LeftIsNat
    <3> QED
      BY <3>1
  <2>2. \E v \in Vectors : Left(v) = acked + Left(iov)
    BY Zenon, <1>1, <2>1
  <2> QED
    BY ZenonT(60), <1>1, <1>2, <1>3, <1>5, <1>7, <2>1, <2>2 DEF Writing
<1>12. Connecting
  BY Zenon, <1>1, <1>2, <1>3 DEF Connecting
<1> QED
  BY ZenonT(60), <1>6, <1>8, <1>9, <1>10, <1>11, <1>12 DEF AsyncInv

\* Every step keeps the invariant.
LEMMA StepKeeps ==
  ASSUME AsyncInv, [Next]_vars
  PROVE  AsyncInv'
<1>1. ASSUME NEW op \in ops, UnixCall(op) \/ WinCall(op) \/ Arm(op)
      PROVE  AsyncInv'
  <2>1. Only(op) /\ Outcome(op)
    BY Zenon, <1>1, UnixOutcome, WinOutcome, ArmOutcome
  <2> QED
    BY ZenonT(60), <2>1, CallTypes, CallStanding, CallWakes, CallReading, CallWriting, CallConnecting DEF AsyncInv
<1>2. CASE Kernel
  BY ZenonT(60), <1>2, ArriveKeeps, DrainKeeps, EstablishKeeps, BreakKeeps, CompleteKeeps DEF Kernel
<1>3. CASE WaitTimeout
  BY Zenon, <1>3, OthersKeep DEF WaitTimeout
<1> QED
  BY Zenon, <1>1, <1>2, <1>3, AttachKeeps, WaitKeeps, OthersKeep DEF Next

\* The invariant holds always.
LEMMA AsyncInvariant == Spec => []AsyncInv
<1>1. Init => AsyncInv
  BY Zenon, Initially
<1>2. AsyncInv /\ [Next]_vars => AsyncInv'
  BY Zenon, StepKeeps
<1> QED
  BY <1>1, <1>2, PTL DEF Spec

\* An operation that returned FFSOCK_EINPROGRESS and could complete has an event in the
\* kernel queue, or a request that is to complete or has its packet in the port, however
\* the calls, ffkq_wait() and the kernel interleave.
THEOREM WakeupsAreKept == Spec => []NoLostWakeup
<1>1. AsyncInv => NoLostWakeup
  BY Zenon DEF AsyncInv
<1> QED
  BY <1>1, AsyncInvariant, PTL

\* The items read and the bytes sent reach the other side once and in order, for any
\* number of items, any vectors of buffers and any size of the send buffer.
THEOREM StreamsAreIntact == Spec => []Intact
<1>1. AsyncInv => ReadOnce
  BY Zenon DEF AsyncInv, Reading, ReadOnce, Held, Holds
<1>2. AsyncInv => WrittenOnce
  BY Zenon DEF AsyncInv, Writing, WrittenOnce, Holds, Senders
<1>3. AsyncInv => Intact
  BY Zenon, <1>1, <1>2 DEF Intact
<1> QED
  BY <1>3, AsyncInvariant, PTL

\* ffsock_connect_async() reports a connection exactly if there is one: the event that
\* makes the caller call again tells how the connection ended.
THEOREM ConnectsAreTrue == Spec => []ConnectTruth
<1>1. AsyncInv => ConnectTruth
  <2>1. "up" # "none" /\ "up" # "refused"
    OBVIOUS
  <2> QED
    BY Zenon, <2>1 DEF AsyncInv, Connecting, ConnectTruth
<1> QED
  BY <1>1, AsyncInvariant, PTL

=============================================================================
