----------------------------- MODULE PathsProofs -----------------------------
(***************************************************************************)
(* Theorems about ffpath_normalize(), for any path, any names, any size of *)
(* the destination and any flags: the result is in normal form, is not     *)
(* longer than the source and leads where the source leads.                *)
(***************************************************************************)
EXTENDS Paths, SequenceTheorems, WellFoundedInduction, TLAPS

-----------------------------------------------------------------------------
(* Induction, with a set in the place of a predicate                       *)

\* A set of natural numbers with 0 in it and the successor of each of its members.
LEMMA Induction ==
  ASSUME NEW T, 0 \in T, \A n \in Nat : n \in T => n + 1 \in T
  PROVE  Nat \subseteq T
<1> SUFFICES ASSUME Nat \ T # {} PROVE FALSE
  OBVIOUS
<1> DEFINE R == OpToRel(<, Nat)
<1>1. IsWellFoundedOn(R, Nat)
  BY Zenon, NatLessThanWellFounded
<1>2. R = {ss \in Nat \X Nat : ss[1] < ss[2]}
  BY DEF OpToRel
<1>3. \A x, y \in Nat : <<y, x>> \in R <=> y < x
  BY Zenon, <1>2
<1> HIDE DEF R
<1>4. \E x \in Nat \ T : \A y \in Nat \ T : ~ (<<y, x>> \in R)
  BY <1>1, WFMin, Zenon
<1>5. PICK n \in Nat \ T : \A y \in Nat \ T : ~ (<<y, n>> \in R)
  BY <1>4
<1>6. \A y \in Nat \ T : ~(y < n)
  BY Zenon, <1>3, <1>5
<1>7. n - 1 \in Nat /\ n - 1 < n
  BY <1>5
<1>8. n - 1 \in T
  BY <1>6, <1>7
<1> QED
  BY <1>5, <1>7, <1>8

\* A function on 0..n may be defined by its first value and by steps.
Follows(g, n, base, step) == g[0] = base /\ \A i \in 1..n : g[i] = step[i][g[i - 1]]

\* Such a function exists.
LEMMA Recursion ==
  ASSUME NEW S, NEW base \in S, NEW n \in Nat, NEW step \in [1..n -> [S -> S]]
  PROVE  \E g \in [0..n -> S] : Follows(g, n, base, step)
<1> DEFINE Upto(g, m) == g[0] = base /\ \A i \in 1..m : g[i] = step[i][g[i - 1]]
           T == {m \in Nat : m <= n => \E g \in [0..m -> S] : Upto(g, m)}
<1>1. 0 \in T
  <2>1. [i \in 0..0 |-> base] \in [0..0 -> S] /\ Upto([i \in 0..0 |-> base], 0)
    OBVIOUS
  <2> QED
    BY Zenon, <2>1
<1>2. ASSUME NEW m \in Nat, m \in T PROVE m + 1 \in T
  <2> SUFFICES ASSUME m + 1 <= n PROVE \E g \in [0..(m + 1) -> S] : Upto(g, m + 1)
    <3> HIDE DEF Upto
    <3> QED
      BY <1>2
  <2>1. PICK g \in [0..m -> S] : Upto(g, m)
    BY <1>2
  <2>2. step[m + 1] \in [S -> S] /\ g[m] \in S
    OBVIOUS
  <2> DEFINE h == [i \in 0..(m + 1) |-> IF i = m + 1 THEN step[m + 1][g[m]] ELSE g[i]]
  <2>3. h \in [0..(m + 1) -> S]
    BY <2>2
  <2>4. \A i \in 0..m : h[i] = g[i]
    OBVIOUS
  <2>5. h[m + 1] = step[m + 1][g[m]]
    OBVIOUS
  <2> HIDE DEF h
  <2>6. \A i \in 1..(m + 1) : h[i] = step[i][h[i - 1]]
    <3> TAKE i \in 1..(m + 1)
    <3>1. CASE i = m + 1
      BY <2>4, <2>5, <3>1
    <3>2. CASE i # m + 1
      <4>1. i \in 1..m /\ i \in 0..m /\ i - 1 \in 0..m
        BY <3>2
      <4> QED
        BY <2>1, <2>4, <4>1
    <3> QED
      BY <3>1, <3>2
  <2> QED
    BY <2>1, <2>3, <2>4, <2>6
<1> HIDE DEF T
<1>3. Nat \subseteq T
  BY <1>1, <1>2, Induction
<1> QED
  BY <1>3 DEF T, Follows

\* The values of such a function stay in the set.
LEMMA Values ==
  ASSUME NEW S, NEW n \in Nat, NEW f, f[0] \in S, \A i \in 1..n : f[i - 1] \in S => f[i] \in S
  PROVE  \A i \in 0..n : f[i] \in S
<1> DEFINE T == {m \in Nat : m <= n => f[m] \in S}
<1>1. 0 \in T
  OBVIOUS
<1>2. ASSUME NEW m \in Nat, m \in T PROVE m + 1 \in T
  <2> SUFFICES ASSUME m + 1 <= n PROVE f[m + 1] \in S
    BY <1>2
  <2>1. m + 1 \in 1..n /\ (m + 1) - 1 = m /\ f[m] \in S
    BY <1>2
  <2> QED
    BY <2>1
<1> HIDE DEF T
<1>3. Nat \subseteq T
  BY <1>1, <1>2, Induction
<1> QED
  BY <1>3 DEF T

Alike(f, g, n) == \A i \in 0..n : f[i] = g[i]
StepAlike(f, g, n) == f[0] = g[0] /\ \A i \in 1..n : f[i - 1] = g[i - 1] => f[i] = g[i]

\* Two functions that begin alike and step alike are alike.
LEMMA Agree ==
  ASSUME NEW n \in Nat, NEW f, NEW g, StepAlike(f, g, n)
  PROVE  Alike(f, g, n)
<1> DEFINE T == {m \in Nat : m <= n => f[m] = g[m]}
<1>1. 0 \in T
  BY DEF StepAlike
<1>2. ASSUME NEW m \in Nat, m \in T PROVE m + 1 \in T
  <2> SUFFICES ASSUME m + 1 <= n PROVE f[m + 1] = g[m + 1]
    BY <1>2
  <2>1. m + 1 \in 1..n /\ (m + 1) - 1 = m /\ f[m] = g[m]
    BY <1>2
  <2> QED
    BY <2>1 DEF StepAlike
<1> HIDE DEF T
<1>3. Nat \subseteq T
  BY <1>1, <1>2, Induction
<1> QED
  BY <1>3 DEF T, Alike

\* A set of numbers up to n has a largest one.
LEMMA Largest ==
  ASSUME NEW n \in Nat, NEW S \in SUBSET (0..n), S # {}
  PROVE  \E x \in S : \A y \in S : y <= x
<1> SUFFICES ASSUME \A x \in S : \E y \in S : ~(y <= x) PROVE FALSE
  OBVIOUS
<1> DEFINE T == {m \in Nat : \E y \in S : y >= m}
<1>1. \A y \in S : y \in 0..n
  OBVIOUS
<1>2. 0 \in T
  <2>1. PICK y \in S : TRUE
    BY Zenon
  <2>2. y >= 0
    BY <1>1, <2>1
  <2> QED
    BY <2>2
<1>3. ASSUME NEW m \in Nat, m \in T PROVE m + 1 \in T
  <2>1. PICK y \in S : y >= m
    BY <1>3
  <2>2. PICK z \in S : ~(z <= y)
    OBVIOUS
  <2>3. z >= m + 1
    BY <1>1, <2>1, <2>2
  <2> QED
    BY <2>3
<1> HIDE DEF T
<1>4. Nat \subseteq T
  BY <1>2, <1>3, Induction
<1>5. n + 1 \in T
  BY <1>4
<1>6. PICK y \in S : y >= n + 1
  BY <1>5 DEF T
<1> QED
  BY <1>1, <1>6

-----------------------------------------------------------------------------
(* What holds of every path                                                *)

PartNames == {"", ".", "..", "c:"} \cup Names
Seps == {"", "/", "\\"}
Parts == [name : PartNames, sep : Seps]
Roots == {"", "/", "c:", "simple"}
Directories == PartNames \ {"", ".", ".."}
Places == [root : Roots, ups : Nat, names : Seq(Directories)]

\* The variables of ffpath_normalize() and the lengths of its source and result.
Types ==
  /\ mode \in Modes /\ cap \in Caps /\ ret \in {"run", "done", "error"}
  /\ used \in Nat /\ dst \in Seq(Parts) /\ place \in Places

\* Which leading parts are still skipped: path.h:256 and 266, then 277 and 286.
Standing ==
  /\ simplify = (Has(mode, "SIMPLE") \/ used > 0)
  /\ skip_disk <=> DiskLetter(mode) /\ Has(mode, "SIMPLE") /\ first
  /\ first => dst = <<>> /\ place = Start(mode) /\ (used = 0 \/ Has(mode, "SIMPLE"))
  /\ used = 0 => first
  /\ Has(mode, "SIMPLE") => place.root = "simple"

\* Every part written but the last of the source ends with a slash that
\* path.h:290 finds again, and what is written leads to the same place.
Leading ==
  SplitsAsForced(mode) =>
    /\ ret = "run" => \A i \in DOMAIN dst : dst[i].sep \in slashes(mode)
    /\ SamePlace

PathsInv == Types /\ Standing /\ Normal /\ Fits /\ Leading

-----------------------------------------------------------------------------
(* Lengths                                                                 *)

\* The length of a part is a number.
LEMMA PartLength ==
  ASSUME NEW p
  PROVE  LengthOf(p) \in Nat
<1>1. Length(p.name) \in Nat
  BY DEF Length
<1> DEFINE s == IF p.sep = "" THEN 0 ELSE 1
<1>2. s \in Nat
  OBVIOUS
<1>3. LengthOf(p) = Length(p.name) + s
  BY Zenon DEF LengthOf
<1> HIDE DEF s
<1> QED
  BY <1>1, <1>2, <1>3

\* Converting the slash of a part does not change its length.
LEMMA SepLength ==
  ASSUME NEW name, NEW sep \in Seps
  PROVE  /\ Sep(sep) \in Seps /\ (Sep(sep) = "" <=> sep = "")
         /\ LengthOf([name |-> name, sep |-> Sep(sep)]) = LengthOf([name |-> name, sep |-> sep])
<1>1. Sep(sep) \in Seps /\ (Sep(sep) = "" <=> sep = "")
  <2>1. "" # "/" /\ "" # "\\"
    BY Zenon
  <2> QED
    BY Zenon, <2>1 DEF Sep, Seps
<1> DEFINE p == [name |-> name, sep |-> Sep(sep)]
           q == [name |-> name, sep |-> sep]
<1>2. p.name = name /\ q.name = name /\ p.sep = Sep(sep) /\ q.sep = sep
  OBVIOUS
<1> HIDE DEF p, q
<1>3. LengthOf(p) = LengthOf(q)
  BY Zenon, <1>1, <1>2 DEF LengthOf
<1> QED
  BY <1>1, <1>3 DEF p, q

\* The lengths of the first parts of a path.
LEMMA Sums ==
  ASSUME NEW d \in Seq(Parts)
  PROVE  \E g \in [0..Len(d) -> Nat] :
           /\ Written(d) = g[Len(d)] /\ g[0] = 0
           /\ \A i \in 1..Len(d) : g[i] = g[i - 1] + LengthOf(d[i])
<1>1. PICK n \in Nat : n = Len(d)
  BY LenProperties
<1>2. PICK len \in [1..n -> Nat] : \A i \in 1..n : len[i] = LengthOf(d[i])
  <2> DEFINE l == [i \in 1..n |-> LengthOf(d[i])]
  <2>1. l \in [1..n -> Nat] /\ \A i \in 1..n : l[i] = LengthOf(d[i])
    BY PartLength
  <2> QED
    BY Zenon, <2>1
<1>3. PICK step \in [1..n -> [Nat -> Nat]] : \A i \in 1..n, x \in Nat : step[i][x] = x + len[i]
  <2> DEFINE s == [i \in 1..n |-> [x \in Nat |-> x + len[i]]]
  <2>1. s \in [1..n -> [Nat -> Nat]] /\ \A i \in 1..n, x \in Nat : s[i][x] = x + len[i]
    OBVIOUS
  <2> QED
    BY Zenon, <2>1
<1>4. PICK g \in [0..n -> Nat] : g[0] = 0 /\ \A i \in 1..n : g[i] = step[i][g[i - 1]]
  <2>1. 0 \in Nat
    OBVIOUS
  <2>2. \E g \in [0..n -> Nat] : Follows(g, n, 0, step)
    BY <2>1, Recursion, Zenon
  <2> QED
    BY Zenon, <2>2 DEF Follows
<1>5. \A i \in 1..n : g[i] = g[i - 1] + LengthOf(d[i])
  <2> TAKE i \in 1..n
  <2>1. i - 1 \in 0..n /\ g[i - 1] \in Nat
    OBVIOUS
  <2> QED
    BY Zenon, <1>2, <1>3, <1>4, <2>1
<1> DEFINE Sum(f) == [i \in 0..n |-> IF i = 0 THEN 0 ELSE f[i - 1] + LengthOf(d[i])]
           f == CHOOSE h : h = Sum(h)
<1>6. g = Sum(g)
  <2>1. \A i \in 0..n : g[i] = IF i = 0 THEN 0 ELSE g[i - 1] + LengthOf(d[i])
    BY <1>4, <1>5
  <2> QED
    BY <2>1
<1>7. f = Sum(f)
  <2> HIDE DEF Sum
  <2> QED
    BY Zenon, <1>6
<1>8. Written(d) = f[n]
  BY <1>1 DEF Written
<1> HIDE DEF f
<1>9. \A i \in 0..n : f[i] = IF i = 0 THEN 0 ELSE f[i - 1] + LengthOf(d[i])
  BY Zenon, <1>7
<1>10. \A i \in 0..n : f[i] \in Nat
  <2>1. \A i \in 1..n : f[i - 1] \in Nat => f[i] \in Nat
    <3> SUFFICES ASSUME NEW i \in 1..n, f[i - 1] \in Nat PROVE f[i] \in Nat
      BY Zenon
    <3>1. i \in 0..n /\ i # 0
      OBVIOUS
    <3>2. LengthOf(d[i]) \in Nat /\ f[i] = f[i - 1] + LengthOf(d[i])
      BY Zenon, <1>9, <3>1, PartLength
    <3>3. \A a, b \in Nat : a + b \in Nat
      OBVIOUS
    <3> QED
      BY <3>2, <3>3, Zenon
  <2>2. f[0] \in Nat
    BY <1>9
  <2> QED
    BY <2>1, <2>2, Values, Zenon
<1>11. f \in [0..n -> Nat]
  BY Zenon, <1>7, <1>10
<1>12. f[0] = 0 /\ \A i \in 1..n : f[i] = f[i - 1] + LengthOf(d[i])
  BY <1>9
<1> QED
  BY Zenon, <1>1, <1>8, <1>11, <1>12

\* The length of a path is a number, and the empty path has none.
LEMMA WrittenIsNat ==
  ASSUME NEW d \in Seq(Parts)
  PROVE  Written(d) \in Nat /\ (d = <<>> => Written(d) = 0)
<1>1. PICK g \in [0..Len(d) -> Nat] : Written(d) = g[Len(d)] /\ g[0] = 0
  BY Sums, Zenon
<1>2. Len(d) \in 0..Len(d) /\ (d = <<>> => Len(d) = 0)
  BY LenProperties
<1> QED
  BY Zenon, <1>1, <1>2

\* A part adds its length.
LEMMA WrittenAppend ==
  ASSUME NEW d \in Seq(Parts), NEW p \in Parts
  PROVE  Written(Append(d, p)) = Written(d) + LengthOf(p)
<1> DEFINE e == Append(d, p)
<1>1. /\ e \in Seq(Parts) /\ Len(e) = Len(d) + 1 /\ e[Len(d) + 1] = p
      /\ \A i \in 1..Len(d) : e[i] = d[i]
  BY AppendProperties
<1> HIDE DEF e
<1>2. PICK n \in Nat : n = Len(d)
  BY LenProperties
<1>3. PICK g \in [0..n -> Nat] :
        /\ Written(d) = g[n] /\ g[0] = 0
        /\ \A i \in 1..n : g[i] = g[i - 1] + LengthOf(d[i])
  BY Zenon, <1>2, Sums
<1>4. PICK l \in Nat : l = n + 1
  OBVIOUS
<1>5. PICK h \in [0..l -> Nat] :
        /\ Written(e) = h[l] /\ h[0] = 0
        /\ \A i \in 1..l : h[i] = h[i - 1] + LengthOf(e[i])
  <2>1. Len(e) = l
    BY Zenon, <1>1, <1>2, <1>4
  <2> QED
    BY Zenon, <1>1, <2>1, Sums
<1>6. \A i \in 0..n : g[i] = h[i]
  <2>1. \A i \in 1..n : g[i - 1] = h[i - 1] => g[i] = h[i]
    BY <1>1, <1>2, <1>3, <1>5, <1>4
  <2>2. g[0] = h[0]
    BY <1>3, <1>5
  <2>3. StepAlike(g, h, n)
    BY Zenon, <2>1, <2>2 DEF StepAlike
  <2>4. Alike(g, h, n)
    BY Zenon, <2>3, Agree
  <2> QED
    BY Zenon, <2>4 DEF Alike
<1>7. n \in 0..n /\ l \in 1..l /\ l - 1 = n /\ l = n + 1
  BY <1>4
<1>8. Written(e) = Written(d) + LengthOf(p)
  <2>1. h[l] = h[l - 1] + LengthOf(e[l])
    BY Zenon, <1>5, <1>7
  <2>2. h[l - 1] = g[n] /\ e[l] = p
    BY Zenon, <1>1, <1>2, <1>6, <1>7
  <2> QED
    BY Zenon, <1>3, <1>5, <2>1, <2>2
<1> QED
  BY <1>8 DEF e

\* Dropping parts from the end does not make a path longer.
LEMMA WrittenPrefix ==
  ASSUME NEW d \in Seq(Parts), NEW m \in 0..Len(d)
  PROVE  Written(SubSeq(d, 1, m)) <= Written(d)
<1> DEFINE e == SubSeq(d, 1, m)
<1>1. PICK n \in Nat : n = Len(d) /\ m \in 0..n
  BY LenProperties
<1>2. e \in Seq(Parts) /\ Len(e) = m /\ \A i \in 1..m : e[i] = d[i]
  BY <1>1, SubSeqProperties
<1> HIDE DEF e
<1>3. PICK g \in [0..n -> Nat] :
        /\ Written(d) = g[n] /\ g[0] = 0
        /\ \A i \in 1..n : g[i] = g[i - 1] + LengthOf(d[i])
  BY Zenon, <1>1, Sums
<1>4. PICK h \in [0..m -> Nat] :
        /\ Written(e) = h[m] /\ h[0] = 0
        /\ \A i \in 1..m : h[i] = h[i - 1] + LengthOf(e[i])
  BY Zenon, <1>2, Sums
<1>5. m \in Nat /\ m \in 0..m /\ \A i \in 1..m : i \in 1..n
  BY <1>1
<1>6. \A i \in 0..m : g[i] = h[i]
  <2>1. \A i \in 1..m : g[i - 1] = h[i - 1] => g[i] = h[i]
    BY Zenon, <1>2, <1>3, <1>4, <1>5
  <2>2. g[0] = h[0]
    BY Zenon, <1>3, <1>4
  <2>3. StepAlike(g, h, m)
    BY Zenon, <2>1, <2>2 DEF StepAlike
  <2>4. Alike(g, h, m)
    BY Zenon, <1>5, <2>3, Agree
  <2> QED
    BY Zenon, <2>4 DEF Alike
<1>7. m \in 0..n /\ n \in 0..n /\ n \in m..n
  BY <1>1
<1> DEFINE S == {x \in Nat : x >= g[m]}
<1>8. \A i \in m..n : g[i] \in S
  <2> DEFINE f == [i \in 0..(n - m) |-> g[m + i]]
  <2>1. n - m \in Nat
    BY <1>1
  <2>2. f[0] \in S
    BY <1>1
  <2>3. \A i \in 1..(n - m) : f[i - 1] \in S => f[i] \in S
    <3> SUFFICES ASSUME NEW i \in 1..(n - m), f[i - 1] \in S PROVE f[i] \in S
      BY Zenon
    <3>1. m + i \in 1..n /\ m + i \in 0..n /\ i - 1 \in 0..(n - m) /\ i \in 0..(n - m)
          /\ m + (i - 1) = (m + i) - 1 /\ (m + i) - 1 \in 0..n
      BY <1>1
    <3>2. f[i] = g[m + i] /\ f[i - 1] = g[(m + i) - 1]
      BY <3>1
    <3>3. g[m + i] = g[(m + i) - 1] + LengthOf(d[m + i]) /\ LengthOf(d[m + i]) \in Nat
      BY Zenon, <1>3, <3>1, PartLength
    <3> DEFINE a == g[(m + i) - 1]
               b == LengthOf(d[m + i])
    <3>4. g[m] \in Nat /\ a \in Nat /\ b \in Nat /\ a >= g[m]
      BY Zenon, <1>7, <3>1, <3>2, <3>3
    <3>5. f[i] = a + b
      BY Zenon, <3>2, <3>3
    <3> HIDE DEF a, b, f
    <3>6. a + b \in Nat /\ a + b >= g[m]
      BY <3>4
    <3> QED
      BY Zenon, <3>5, <3>6
  <2> HIDE DEF S, f
  <2>4. \A i \in 0..(n - m) : f[i] \in S
    BY <2>1, <2>2, <2>3, Values, Zenon
  <2>5. \A i \in m..n : i - m \in 0..(n - m) /\ f[i - m] = g[i]
    BY <1>1 DEF f
  <2> QED
    BY Zenon, <2>4, <2>5
<1>9. g[n] >= g[m] /\ g[n] \in Nat /\ g[m] \in Nat
  BY Zenon, <1>7, <1>8
<1>10. Written(e) = g[m] /\ Written(d) = g[n]
  BY Zenon, <1>3, <1>4, <1>5, <1>6
<1>11. Written(e) <= Written(d)
  BY <1>9, <1>10
<1> QED
  BY <1>11 DEF e

-----------------------------------------------------------------------------
(* Where a path leads                                                      *)

Up(p) == [p EXCEPT !.names = SubSeq(@, 1, Len(@) - 1)]
Out(p) == [p EXCEPT !.ups = @ + 1]
Down(p, name) == [p EXCEPT !.names = Append(@, name)]
Rooted(root) == [Here EXCEPT !.root = root]

\* What each kind of part does.
LEMMA GoIs ==
  ASSUME NEW p, NEW name
  PROVE  /\ name \in {"", "."} => Go(p, name) = p
         /\ p.names # <<>> => Go(p, "..") = Up(p)
         /\ p.names = <<>> => Go(p, "..") = IF p.root = "" THEN Out(p) ELSE p
         /\ name \notin {"", ".", ".."} => Go(p, name) = Down(p, name)
<1>1. ".." # "" /\ ".." # "." /\ ".." \notin {"", "."}
  BY Zenon
<1>2. name \in {"", "."} => Go(p, name) = p
  BY Zenon, <1>1 DEF Go
<1>3. p.names # <<>> => Go(p, "..") = Up(p)
  BY Zenon, <1>1 DEF Go, Up
<1>4. p.names = <<>> => Go(p, "..") = IF p.root = "" THEN Out(p) ELSE p
  BY Zenon, <1>1 DEF Go, Out
<1>5. name \notin {"", ".", ".."} => Go(p, name) = Down(p, name)
  BY Zenon, <1>1 DEF Go, Down
<1> QED
  BY Zenon, <1>2, <1>3, <1>4, <1>5

\* A part leads from a place to a place.
LEMMA GoType ==
  ASSUME NEW p \in Places, NEW name \in PartNames
  PROVE  Go(p, name) \in Places
<1>1. p.names \in Seq(Directories) /\ p.ups \in Nat /\ p.root \in Roots
  BY DEF Places
<1>2. CASE name \in {"", "."}
  BY Zenon, <1>2, GoIs
<1>3. CASE name = ".." /\ p.names # <<>>
  <2>1. Go(p, name) = Up(p)
    BY Zenon, <1>3, GoIs
  <2>2. Len(p.names) - 1 \in 0..Len(p.names) /\ SubSeq(p.names, 1, Len(p.names) - 1) \in Seq(Directories)
    <3> DEFINE q == p.names
    <3>1. q \in Seq(Directories) /\ q # <<>>
      BY <1>1, <1>3
    <3> HIDE DEF q
    <3>2. Len(q) - 1 \in 0..Len(q)
      BY <3>1
    <3>3. SubSeq(q, 1, Len(q) - 1) \in Seq(Directories)
      BY <3>1, <3>2, SubSeqProperties
    <3> QED
      BY <3>2, <3>3 DEF q
  <2>3. Up(p) \in Places
    BY <1>1, <2>2 DEF Up, Places
  <2> QED
    BY Zenon, <2>1, <2>3
<1>4. CASE name = ".." /\ p.names = <<>>
  <2>1. Go(p, name) = Out(p) \/ Go(p, name) = p
    BY Zenon, <1>4, GoIs
  <2>2. Out(p) \in Places
    BY <1>1 DEF Out, Places
  <2> QED
    BY Zenon, <2>1, <2>2
<1>5. CASE name \notin {"", ".", ".."}
  <2>1. Go(p, name) = Down(p, name)
    BY Zenon, <1>5, GoIs
  <2>2. name \in Directories
    BY Zenon, <1>5 DEF Directories
  <2>3. Append(p.names, name) \in Seq(Directories)
    BY <1>1, <2>2, AppendProperties
  <2>4. Down(p, name) \in Places
    BY <1>1, <2>3 DEF Down, Places
  <2> QED
    BY Zenon, <2>1, <2>4
<1> QED
  BY Zenon, <1>2, <1>3, <1>4, <1>5

\* What going down changes.
LEMMA DownIs ==
  ASSUME NEW p \in Places, NEW name
  PROVE  Down(p, name) = [root |-> p.root, ups |-> p.ups, names |-> Append(p.names, name)]
<1>1. p \in [root : Roots, ups : Nat, names : Seq(Directories)]
  BY DEF Places
<1> DEFINE s == Append(p.names, name)
<1>2. Down(p, name) = [p EXCEPT !.names = s]
  BY DEF Down
<1> HIDE DEF s
<1>3. [p EXCEPT !.names = s] = [root |-> p.root, ups |-> p.ups, names |-> s]
  BY <1>1
<1> QED
  BY <1>2, <1>3 DEF s

\* Going down and up again leads back.
LEMMA DownAndUp ==
  ASSUME NEW p \in Places, NEW name \in Directories
  PROVE  Go(Go(p, name), "..") = p
<1>1. Go(p, name) = Down(p, name)
  BY Zenon, GoIs DEF Directories
<1> DEFINE q == Down(p, name)
           s == p.names
<1>2. s \in Seq(Directories) /\ q.names = Append(s, name) /\ p = [root |-> p.root, ups |-> p.ups, names |-> s]
      /\ q = [root |-> p.root, ups |-> p.ups, names |-> Append(s, name)]
  <2>1. s \in Seq(Directories) /\ p = [root |-> p.root, ups |-> p.ups, names |-> s]
    BY DEF Places
  <2>2. q = [root |-> p.root, ups |-> p.ups, names |-> Append(s, name)]
    BY DownIs
  <2> HIDE DEF q
  <2>3. q.names = Append(s, name)
    BY <2>2
  <2> QED
    BY <2>1, <2>2, <2>3
<1>3. Append(s, name) # <<>> /\ SubSeq(Append(s, name), 1, Len(Append(s, name)) - 1) = s
  <2> HIDE DEF s
  <2>1. Append(s, name) \in Seq(Directories) /\ Append(s, name) # <<>>
        /\ Len(Append(s, name)) = Len(s) + 1 /\ Len(s) \in Nat
        /\ \A i \in 1..Len(s) : Append(s, name)[i] = s[i]
    BY <1>2, AppendProperties, LenProperties
  <2> DEFINE t == SubSeq(Append(s, name), 1, Len(s))
  <2>2. t \in Seq(Directories) /\ Len(t) = Len(s) /\ \A i \in 1..Len(s) : t[i] = s[i]
    BY <2>1, SubSeqProperties
  <2>3. t = s
    <3> HIDE DEF t
    <3> QED
      BY <1>2, <2>2, SeqEqual
  <2>4. Len(Append(s, name)) - 1 = Len(s)
    BY <2>1
  <2> QED
    BY <2>1, <2>3, <2>4
<1>4. Up(q) = p
  BY <1>2, <1>3 DEF Up
<1>5. Go(q, "..") = Up(q)
  BY Zenon, <1>2, <1>3, GoIs
<1> QED
  BY Zenon, <1>1, <1>4, <1>5

\* The beginning is a place, and so is a root.
LEMMA StartType ==
  /\ Start(mode) \in Places /\ Here \in Places /\ Here.names = <<>> /\ Start(mode).names = <<>>
  /\ Here.root = "" /\ \A root \in Roots : Rooted(root) \in Places
  /\ Has(mode, "SIMPLE") => Start(mode) = Rooted("simple")
  /\ ~Has(mode, "SIMPLE") => Start(mode) = Here
<1> DEFINE r == ""
<1>1. r \in Roots /\ "simple" \in Roots
  BY Zenon DEF Roots
<1>2. Here = [root |-> r, ups |-> 0, names |-> <<>>]
  BY Zenon DEF Here
<1> HIDE DEF r
<1>3. Here \in Places /\ Here.names = <<>> /\ Here.root = r
  BY <1>1, <1>2 DEF Places
<1>4. \A root \in Roots : Rooted(root) \in Places /\ Rooted(root).names = <<>>
  <2> TAKE root \in Roots
  <2>1. Rooted(root) = [root |-> root, ups |-> 0, names |-> <<>>]
    BY <1>2 DEF Rooted
  <2>2. <<>> \in Seq(Directories)
    OBVIOUS
  <2> QED
    BY <2>1, <2>2 DEF Places
<1>5. /\ Has(mode, "SIMPLE") => Start(mode) = Rooted("simple")
      /\ ~Has(mode, "SIMPLE") => Start(mode) = Here
  BY Zenon DEF Start, Rooted
<1>6. Start(mode) \in Places /\ Start(mode).names = <<>>
  BY Zenon, <1>1, <1>3, <1>4, <1>5
<1> QED
  BY Zenon, <1>3, <1>4, <1>5, <1>6 DEF r

\* No part leads away from the root.
LEMMA GoRoot ==
  ASSUME NEW p \in Places, NEW name \in PartNames
  PROVE  Go(p, name).root = p.root
<1>1. p.root = Up(p).root /\ p.root = Out(p).root
  <2>1. \A q, n : p.root = [p EXCEPT !.names = n].root /\ p.root = [p EXCEPT !.ups = q].root
    BY DEF Places
  <2> QED
    BY Zenon, <2>1 DEF Up, Out
<1>2. p.root = Down(p, name).root
  <2> DEFINE n == Append(p.names, name)
  <2>1. Down(p, name) = [root |-> p.root, ups |-> p.ups, names |-> n]
    BY Zenon, DownIs
  <2> HIDE DEF n
  <2> QED
    BY <2>1
<1>3. Go(p, name) \in {p, Up(p), Out(p), Down(p, name)}
  <2>1. name \in {"", "."} \/ name = ".." \/ name \notin {"", ".", ".."}
    BY Zenon
  <2> QED
    BY Zenon, <2>1, GoIs
<1> QED
  BY Zenon, <1>1, <1>2, <1>3

\* The roots of the places at which a path begins.
LEMMA Begins ==
  /\ Start(mode).root # "c:"
  /\ Has(mode, "SIMPLE") => Start(mode).root = "simple"
<1>1. Rooted("simple").root = "simple" /\ "simple" # "c:"
  BY DEF Rooted, Here
<1>2. "" # "c:"
  BY Zenon
<1> QED
  BY Zenon, <1>1, <1>2, StartType

\* The first part, by its kind.
LEMMA GoFirstIs ==
  ASSUME NEW name
  PROVE  /\ Has(mode, "SIMPLE") /\ DiskLetter(mode) /\ name = "c:" => GoFirst(mode, name) = Start(mode)
         /\ ~Has(mode, "SIMPLE") /\ name = "" => GoFirst(mode, name) = Rooted("/")
         /\ ~Has(mode, "SIMPLE") /\ DiskLetter(mode) /\ name = "c:" => GoFirst(mode, name) = Rooted("c:")
         /\ ~(~Has(mode, "SIMPLE") /\ name = "") /\ ~(DiskLetter(mode) /\ name = "c:") => GoFirst(mode, name) = Go(Start(mode), name)
<1>1. "" # "c:"
  BY Zenon
<1>2. /\ Has(mode, "SIMPLE") => Start(mode) = Rooted("simple")
      /\ ~Has(mode, "SIMPLE") => Start(mode) = Here
  BY Zenon, StartType
<1>3. Has(mode, "SIMPLE") /\ DiskLetter(mode) /\ name = "c:" => GoFirst(mode, name) = Start(mode)
  BY Zenon, <1>1, <1>2 DEF GoFirst, Rooted
<1>4. ~Has(mode, "SIMPLE") /\ name = "" => GoFirst(mode, name) = Rooted("/")
  BY Zenon, <1>1, <1>2 DEF GoFirst, Rooted
<1>5. ~Has(mode, "SIMPLE") /\ DiskLetter(mode) /\ name = "c:" => GoFirst(mode, name) = Rooted("c:")
  BY Zenon, <1>1, <1>2 DEF GoFirst, Rooted
<1>6. ~(~Has(mode, "SIMPLE") /\ name = "") /\ ~(DiskLetter(mode) /\ name = "c:") => GoFirst(mode, name) = Go(Start(mode), name)
  BY Zenon, <1>1, <1>2 DEF GoFirst, Rooted
<1> QED
  BY Zenon, <1>3, <1>4, <1>5, <1>6

\* The first part leads to a place.
LEMMA GoFirstType ==
  ASSUME NEW name \in PartNames
  PROVE  GoFirst(mode, name) \in Places
<1>1. "/" \in Roots /\ "c:" \in Roots
  BY Zenon DEF Roots
<1>2. GoFirst(mode, name) \in {Start(mode), Rooted("/"), Rooted("c:"), Go(Start(mode), name)}
  BY Zenon, GoFirstIs
<1>3. Start(mode) \in Places /\ Rooted("/") \in Places /\ Rooted("c:") \in Places
  BY Zenon, <1>1, StartType
<1>4. Go(Start(mode), name) \in Places
  BY Zenon, <1>3, GoType
<1> QED
  BY Zenon, <1>2, <1>3, <1>4

\* The places on the way.
LEMMA Way ==
  ASSUME NEW d \in Seq(Parts)
  PROVE  \E g \in [0..Len(d) -> Places] :
           /\ Walk(mode, d) = g[Len(d)] /\ g[0] = Start(mode)
           /\ \A i \in 1..Len(d) : g[i] = IF i = 1 THEN GoFirst(mode, d[1].name) ELSE Go(g[i - 1], d[i].name)
<1>1. PICK n \in Nat : n = Len(d)
  BY LenProperties
<1>2. \A i \in 1..n : d[i].name \in PartNames
  <2> TAKE i \in 1..n
  <2>1. d[i] \in Parts
    BY <1>1, ElementOfSeq
  <2> QED
    BY <2>1 DEF Parts
<1> DEFINE Then(i, x) == IF i = 1 THEN GoFirst(mode, d[1].name) ELSE Go(x, d[i].name)
<1>3. ASSUME NEW i \in 1..n, NEW x \in Places PROVE Then(i, x) \in Places
  BY Zenon, <1>2, GoFirstType, GoType
<1> HIDE DEF Then
<1>4. PICK step \in [1..n -> [Places -> Places]] : \A i \in 1..n, x \in Places : step[i][x] = Then(i, x)
  <2> DEFINE s == [i \in 1..n |-> [x \in Places |-> Then(i, x)]]
  <2>1. s \in [1..n -> [Places -> Places]] /\ \A i \in 1..n, x \in Places : s[i][x] = Then(i, x)
    BY Zenon, <1>3
  <2> QED
    BY Zenon, <2>1
<1>5. PICK g \in [0..n -> Places] : g[0] = Start(mode) /\ \A i \in 1..n : g[i] = step[i][g[i - 1]]
  <2>1. \E g \in [0..n -> Places] : Follows(g, n, Start(mode), step)
    BY StartType, Recursion, Zenon
  <2> QED
    BY Zenon, <2>1 DEF Follows
<1>6. \A i \in 1..n : g[i] = Then(i, g[i - 1])
  <2> TAKE i \in 1..n
  <2>1. i - 1 \in 0..n
    OBVIOUS
  <2>2. g[i - 1] \in Places
    BY Zenon, <2>1
  <2> QED
    BY Zenon, <1>4, <1>5, <2>2
<1> DEFINE At(f) == [i \in 0..Len(d) |-> IF i = 0 THEN Start(mode) ELSE Then(i, f[i - 1])]
           f == CHOOSE h : h = At(h)
<1>7. Walk(mode, d) = f[Len(d)]
  BY DEF Walk, Then
<1>8. g = At(g)
  <2>1. \A i \in 0..n : i = 0 \/ i \in 1..n
    OBVIOUS
  <2>2. \A i \in 0..n : g[i] = IF i = 0 THEN Start(mode) ELSE Then(i, g[i - 1])
    BY Zenon, <1>5, <1>6, <2>1
  <2> QED
    BY Zenon, <1>1, <2>2
<1>9. f = At(f)
  <2> HIDE DEF At
  <2> QED
    BY Zenon, <1>8
<1> HIDE DEF f
<1>10. f[0] = Start(mode) /\ \A i \in 1..n : f[i] = Then(i, f[i - 1])
  <2>1. 0 \in 0..n /\ \A i \in 1..n : i \in 0..n /\ i # 0
    OBVIOUS
  <2>2. \A i \in 0..n : f[i] = IF i = 0 THEN Start(mode) ELSE Then(i, f[i - 1])
    BY Zenon, <1>1, <1>9
  <2> QED
    BY Zenon, <2>1, <2>2
<1>11. \A i \in 0..n : f[i] \in Places
  <2>1. \A i \in 1..n : f[i - 1] \in Places => f[i] \in Places
    BY Zenon, <1>3, <1>10
  <2>2. f[0] \in Places
    BY Zenon, <1>10, StartType
  <2> QED
    BY <2>1, <2>2, Values, Zenon
<1>12. f \in [0..n -> Places]
  BY Zenon, <1>1, <1>9, <1>11
<1> QED
  BY Zenon, <1>1, <1>7, <1>10, <1>12 DEF Then

\* A path leads to a place, the empty one to the beginning.
LEMMA WalkType ==
  ASSUME NEW d \in Seq(Parts)
  PROVE  Walk(mode, d) \in Places /\ (d = <<>> => Walk(mode, d) = Start(mode))
<1>1. PICK g \in [0..Len(d) -> Places] : Walk(mode, d) = g[Len(d)] /\ g[0] = Start(mode)
  BY Way, Zenon
<1>2. Len(d) \in 0..Len(d) /\ (d = <<>> => Len(d) = 0)
  BY LenProperties
<1> QED
  BY Zenon, <1>1, <1>2

\* A part more leads on from where the path led.
LEMMA WalkAppend ==
  ASSUME NEW d \in Seq(Parts), NEW p \in Parts
  PROVE  Walk(mode, Append(d, p)) = IF d = <<>> THEN GoFirst(mode, p.name) ELSE Go(Walk(mode, d), p.name)
<1> DEFINE e == Append(d, p)
<1>1. /\ e \in Seq(Parts) /\ Len(e) = Len(d) + 1 /\ e[Len(d) + 1] = p
      /\ \A i \in 1..Len(d) : e[i] = d[i]
  BY AppendProperties
<1> HIDE DEF e
<1>2. PICK n \in Nat : n = Len(d) /\ (n = 0 <=> d = <<>>)
  BY LenProperties, EmptySeq
<1>3. PICK g \in [0..n -> Places] :
        /\ Walk(mode, d) = g[n] /\ g[0] = Start(mode)
        /\ \A i \in 1..n : g[i] = IF i = 1 THEN GoFirst(mode, d[1].name) ELSE Go(g[i - 1], d[i].name)
  BY Zenon, <1>2, Way
<1>4. PICK l \in Nat : l = n + 1
  OBVIOUS
<1>5. PICK h \in [0..l -> Places] :
        /\ Walk(mode, e) = h[l] /\ h[0] = Start(mode)
        /\ \A i \in 1..l : h[i] = IF i = 1 THEN GoFirst(mode, e[1].name) ELSE Go(h[i - 1], e[i].name)
  <2>1. Len(e) = l
    BY Zenon, <1>1, <1>2, <1>4
  <2> QED
    BY Zenon, <1>1, <2>1, Way
<1>6. \A i \in 0..n : g[i] = h[i]
  <2>1. \A i \in 1..n : i \in 1..l /\ 1 \in 1..n
    BY <1>4
  <2>2. \A i \in 1..n : g[i - 1] = h[i - 1] => g[i] = h[i]
    <3> TAKE i \in 1..n
    <3> HAVE g[i - 1] = h[i - 1]
    <3>1. e[i] = d[i] /\ e[1] = d[1]
      BY Zenon, <1>1, <1>2, <2>1
    <3>2. g[i] = IF i = 1 THEN GoFirst(mode, d[1].name) ELSE Go(g[i - 1], d[i].name)
      BY Zenon, <1>3
    <3>3. h[i] = IF i = 1 THEN GoFirst(mode, e[1].name) ELSE Go(h[i - 1], e[i].name)
      BY Zenon, <1>5, <2>1
    <3> QED
      BY Zenon, <3>1, <3>2, <3>3
  <2>3. StepAlike(g, h, n)
    BY Zenon, <1>3, <1>5, <2>2 DEF StepAlike
  <2>4. Alike(g, h, n)
    BY Zenon, <2>3, Agree
  <2> QED
    BY Zenon, <2>4 DEF Alike
<1>7. n \in 0..n /\ l \in 1..l /\ l - 1 = n /\ (l = 1 <=> n = 0) /\ e[l] = p
  BY <1>1, <1>2, <1>4
<1>8. Walk(mode, e) = IF n = 0 THEN GoFirst(mode, p.name) ELSE Go(Walk(mode, d), p.name)
  <2>1. h[l] = IF l = 1 THEN GoFirst(mode, e[1].name) ELSE Go(h[l - 1], e[l].name)
    BY Zenon, <1>5, <1>7
  <2>2. h[l - 1] = Walk(mode, d)
    BY Zenon, <1>3, <1>6, <1>7
  <2>3. CASE n = 0
    BY Zenon, <1>5, <1>7, <2>1, <2>3
  <2>4. CASE n # 0
    BY Zenon, <1>5, <1>7, <2>1, <2>2, <2>4
  <2> QED
    BY Zenon, <2>3, <2>4
<1> QED
  BY Zenon, <1>2, <1>8 DEF e

-----------------------------------------------------------------------------
(* What ".." does                                                          *)

\* The place of the last slash before the last part, and whether that part
\* is all that follows it (path.h:290-294 and 310-312).
Slashes(d) == {0} \cup {i \in 1 .. Len(d) - 1 : d[i].sep \in slashes(mode)}
Slash(d) == Max(Slashes(d))
LastIs(d, name) == Slash(d) + 1 = Len(d) /\ d[Len(d)].name = name

\* The slash is one of those in the path, or there is none; the part is found.
LEMMA SlashIs ==
  ASSUME NEW d \in Seq(Parts), d # <<>>
  PROVE  /\ Slash(d) \in Slashes(d) /\ \A i \in Slashes(d) : i <= Slash(d)
         /\ Slash(d) \in 0..(Len(d) - 1) /\ Len(d) \in Nat /\ Len(d) >= 1
<1>1. Len(d) \in Nat /\ Len(d) >= 1
  BY LenProperties, EmptySeq
<1> DEFINE n == Len(d) - 1
<1>2. n \in Nat /\ Slashes(d) \subseteq 0..n /\ 0 \in Slashes(d)
  BY <1>1 DEF Slashes
<1> HIDE DEF n
<1>3. Slashes(d) \in SUBSET (0..n) /\ Slashes(d) # {}
  BY Zenon, <1>2
<1>4. \E x \in Slashes(d) : \A y \in Slashes(d) : y <= x
  BY Zenon, <1>2, <1>3, Largest
<1>5. \A x \in Slashes(d), y \in Slashes(d) : x >= y <=> y <= x
  BY <1>2
<1>6. Slash(d) \in Slashes(d) /\ \A i \in Slashes(d) : i <= Slash(d)
  BY Zenon, <1>4, <1>5 DEF Slash, Max
<1>7. Slash(d) \in 0..(Len(d) - 1)
  BY Zenon, <1>3, <1>6 DEF n
<1> QED
  BY Zenon, <1>1, <1>6, <1>7

\* If every part ends with a slash, the slash looked for is that of the part before.
LEMMA SlashBefore ==
  ASSUME NEW d \in Seq(Parts), d # <<>>, \A i \in DOMAIN d : d[i].sep \in slashes(mode)
  PROVE  Slash(d) = Len(d) - 1
<1>1. /\ Slash(d) \in Slashes(d) /\ \A i \in Slashes(d) : i <= Slash(d)
      /\ Slash(d) \in 0..(Len(d) - 1) /\ Len(d) \in Nat /\ Len(d) >= 1
  BY Zenon, SlashIs
<1>2. Len(d) - 1 \in Slashes(d)
  <2>1. CASE Len(d) - 1 = 0
    BY Zenon, <2>1 DEF Slashes
  <2>2. CASE Len(d) - 1 # 0
    <3>1. Len(d) - 1 \in 1..(Len(d) - 1) /\ Len(d) - 1 \in DOMAIN d
      <4>1. DOMAIN d = 1..Len(d)
        BY LenProperties
      <4> QED
        BY <1>1, <2>2, <4>1
    <3> QED
      BY Zenon, <3>1 DEF Slashes
  <2> QED
    BY Zenon, <2>1, <2>2
<1>3. Len(d) - 1 <= Slash(d)
  BY Zenon, <1>1, <1>2
<1> QED
  BY <1>1, <1>3

\* What follows the slash.
LEMMA Follow ==
  ASSUME NEW d \in Seq(Parts), d # <<>>, NEW name
  PROVE  (/\ Len(SubSeq(d, Slash(d) + 1, Len(d))) = 1
          /\ SubSeq(d, Slash(d) + 1, Len(d))[1].name = name) <=> LastIs(d, name)
<1>1. Slash(d) \in 0..(Len(d) - 1) /\ Len(d) \in Nat /\ Len(d) >= 1
  BY Zenon, SlashIs
<1> DEFINE s == Slash(d) + 1
           e == SubSeq(d, s, Len(d))
<1>2. s \in 1..Len(d)
  BY <1>1
<1> HIDE DEF s
<1>3. Len(e) = Len(d) - s + 1 /\ \A i \in 1..(Len(d) - s + 1) : e[i] = d[s + i - 1]
  BY <1>1, <1>2, SubSeqProperties
<1> HIDE DEF e
<1>4. Len(e) = 1 <=> s = Len(d)
  BY <1>1, <1>2, <1>3
<1>5. s = Len(d) => e[1] = d[Len(d)]
  BY <1>1, <1>2, <1>3
<1>6. (Len(e) = 1 /\ e[1].name = name) <=> (s = Len(d) /\ d[Len(d)].name = name)
  BY Zenon, <1>4, <1>5
<1> QED
  BY Zenon, <1>6 DEF e, s, LastIs

\* The branches of path.h:288-322.
LEMMA DotdotIs ==
  ASSUME NEW d \in Seq(Parts)
  PROVE  /\ d = <<>> => Dotdot(d) = [dst |-> d, add |-> ~Has(mode, "SIMPLE")]
         /\ d # <<>> =>
              /\ LastIs(d, "..") => Dotdot(d) = [dst |-> d, add |-> TRUE]
              /\ ~LastIs(d, "..") /\ Slash(d) > 0 =>
                   Dotdot(d) = [dst |-> SubSeq(d, 1, Slash(d)), add |-> FALSE]
              /\ LastIs(d, ".") /\ Slash(d) = 0 => Dotdot(d) = [dst |-> <<>>, add |-> TRUE]
              /\ ~LastIs(d, "..") /\ ~LastIs(d, ".") /\ Slash(d) = 0 =>
                   Dotdot(d) = [dst |-> IF LastIs(d, "") \/ (DiskLetter(mode) /\ d[Len(d)].name = "c:")
                                        THEN d ELSE <<>>, add |-> FALSE]
<1> DEFINE n == Len(d)
           slash == Slash(d)
           Is(name) == LastIs(d, name)
           D == CASE n = 0                     -> [dst |-> d, add |-> ~Has(mode, "SIMPLE")]
                  [] n > 0 /\ Is("..")         -> [dst |-> d, add |-> TRUE]
                  [] n > 0 /\ slash > 0 /\ ~Is("..") -> [dst |-> SubSeq(d, 1, slash), add |-> FALSE]
                  [] n > 0 /\ slash = 0 /\ Is(".")   -> [dst |-> <<>>, add |-> TRUE]
                  [] n > 0 /\ slash = 0 /\ (Is("") \/ (DiskLetter(mode) /\ d[n].name = "c:")) ->
                                                  [dst |-> d, add |-> FALSE]
                  [] OTHER                     -> [dst |-> <<>>, add |-> FALSE]
<1>1. CASE d = <<>>
  <2>1. Len(d) = 0 /\ ~(Len(d) > 0)
    BY <1>1
  <2> QED
    BY Zenon, <1>1, <2>1 DEF Dotdot
<1>2. CASE d # <<>>
  <2>1. Dotdot(d) = D
    BY Zenon, <1>2, Follow DEF Dotdot, Slash, Slashes
  <2>2. n > 0 /\ n # 0 /\ slash \in Nat /\ ~(slash > 0 /\ slash = 0) /\ (slash > 0 \/ slash = 0)
    BY <1>2, SlashIs
  <2>3. /\ Is("..") => d[n].name = ".." /\ ~Is(".") /\ ~Is("") /\ d[n].name # "c:"
        /\ Is(".") => d[n].name = "." /\ ~Is("..") /\ ~Is("") /\ d[n].name # "c:"
    <3>1. ".." # "." /\ ".." # "" /\ ".." # "c:" /\ "." # "" /\ "." # "c:"
      BY Zenon
    <3> QED
      BY Zenon, <3>1 DEF LastIs
  <2> HIDE DEF n, slash, Is
  <2>4. Is("..") => D = [dst |-> d, add |-> TRUE]
    BY Zenon, <2>2, <2>3
  <2>5. ~Is("..") /\ slash > 0 => D = [dst |-> SubSeq(d, 1, slash), add |-> FALSE]
    BY Zenon, <2>2, <2>3
  <2>6. Is(".") /\ slash = 0 => D = [dst |-> <<>>, add |-> TRUE]
    BY Zenon, <2>2, <2>3
  <2>7. ~Is("..") /\ ~Is(".") /\ slash = 0 =>
          D = [dst |-> IF Is("") \/ (DiskLetter(mode) /\ d[n].name = "c:") THEN d ELSE <<>>, add |-> FALSE]
    <3>1. ~Is("..") /\ ~Is(".") /\ slash = 0 /\ (Is("") \/ (DiskLetter(mode) /\ d[n].name = "c:")) =>
            D = [dst |-> d, add |-> FALSE]
      BY Zenon, <2>2
    <3>2. ~Is("..") /\ ~Is(".") /\ slash = 0 /\ ~(Is("") \/ (DiskLetter(mode) /\ d[n].name = "c:")) =>
            D = [dst |-> <<>>, add |-> FALSE]
      BY Zenon, <2>2
    <3> QED
      BY Zenon, <3>1, <3>2
  <2> HIDE DEF D
  <2> QED
    BY Zenon, <1>2, <2>1, <2>4, <2>5, <2>6, <2>7 DEF n, slash, Is
<1> QED
  BY Zenon, <1>1, <1>2

\* ".." leaves the beginning of the path; it is written only if nothing, or
\* another "..", or a single "." was written before.
LEMMA DotdotCuts ==
  ASSUME NEW d \in Seq(Parts)
  PROVE  /\ \E m \in 0..Len(d) : Dotdot(d).dst = SubSeq(d, 1, m)
         /\ Dotdot(d).add =>
              \/ Dotdot(d).dst = <<>> /\ d = <<>> /\ ~Has(mode, "SIMPLE")
              \/ Dotdot(d).dst = d /\ d # <<>> /\ d[Len(d)].name = ".."
              \/ Dotdot(d).dst = <<>> /\ Len(d) = 1 /\ d[1].name = "."
<1>1. Len(d) \in Nat /\ 0 \in 0..Len(d) /\ Len(d) \in 0..Len(d) /\ SubSeq(d, 1, Len(d)) = d /\ SubSeq(d, 1, 0) = <<>>
  <2>1. Len(d) \in Nat /\ 0 \in 0..Len(d) /\ Len(d) \in 0..Len(d)
    BY LenProperties
  <2>2. SubSeq(d, 1, 0) = <<>>
    BY SubSeqEmpty
  <2>3. SubSeq(d, 1, Len(d)) = d
    BY SubSeqFull
  <2> QED
    BY Zenon, <2>1, <2>2, <2>3
<1> DEFINE e == Dotdot(d).dst
           add == Dotdot(d).add
<1>2. ASSUME NEW x, NEW y, Dotdot(d) = [dst |-> x, add |-> y] PROVE e = x /\ add = y
  BY <1>2
<1> HIDE DEF e, add
<1>3. CASE d = <<>>
  <2>1. e = d /\ add = ~Has(mode, "SIMPLE")
    BY Zenon, <1>2, <1>3, DotdotIs
  <2> QED
    BY Zenon, <1>1, <1>3, <2>1 DEF e, add
<1>4. CASE d # <<>> /\ LastIs(d, "..")
  <2>1. e = d /\ add = TRUE
    BY Zenon, <1>2, <1>4, DotdotIs
  <2> QED
    BY Zenon, <1>1, <1>4, <2>1 DEF e, add, LastIs
<1>5. CASE d # <<>> /\ ~LastIs(d, "..") /\ Slash(d) > 0
  <2>1. e = SubSeq(d, 1, Slash(d)) /\ add = FALSE
    BY Zenon, <1>2, <1>5, DotdotIs
  <2>2. Slash(d) \in 0..Len(d)
    BY <1>5, SlashIs
  <2> QED
    BY Zenon, <2>1, <2>2 DEF e, add
<1>6. CASE d # <<>> /\ LastIs(d, ".") /\ Slash(d) = 0
  <2>1. e = <<>> /\ add = TRUE
    BY Zenon, <1>2, <1>6, DotdotIs
  <2>2. Len(d) = 1 /\ d[1].name = "."
    <3>1. 0 + 1 = 1
      OBVIOUS
    <3> QED
      BY Zenon, <1>6, <3>1 DEF LastIs
  <2> QED
    BY Zenon, <1>1, <2>1, <2>2 DEF e, add
<1>7. CASE d # <<>> /\ ~LastIs(d, "..") /\ ~LastIs(d, ".") /\ Slash(d) = 0
  <2>1. (e = d \/ e = <<>>) /\ add = FALSE
    BY Zenon, <1>2, <1>7, DotdotIs
  <2> QED
    BY Zenon, <1>1, <2>1 DEF e, add
<1>8. d # <<>> => Slash(d) > 0 \/ Slash(d) = 0
  BY SlashIs
<1> QED
  BY Zenon, <1>3, <1>4, <1>5, <1>6, <1>7, <1>8

\* A path is its last part after the parts before.
LEMMA LastPart ==
  ASSUME NEW d \in Seq(Parts), d # <<>>
  PROVE  /\ SubSeq(d, 1, Len(d) - 1) \in Seq(Parts) /\ d[Len(d)] \in Parts /\ d[Len(d)].name \in PartNames
         /\ Len(d) \in DOMAIN d /\ (SubSeq(d, 1, Len(d) - 1) = <<>> <=> Len(d) = 1)
         /\ d = Append(SubSeq(d, 1, Len(d) - 1), d[Len(d)])
<1>1. PICK n \in Nat : n = Len(d) /\ n >= 1 /\ DOMAIN d = 1..n
  BY LenProperties, EmptySeq
<1> DEFINE e == SubSeq(d, 1, n - 1)
<1>2. e \in Seq(Parts) /\ Len(e) = n - 1 /\ \A i \in 1..(n - 1) : e[i] = d[i]
  BY <1>1, SubSeqProperties
<1>3. n \in 1..n /\ d[n] \in Parts
  BY <1>1, ElementOfSeq
<1> HIDE DEF e
<1> DEFINE f == Append(e, d[n])
<1>4. f \in Seq(Parts) /\ Len(f) = Len(e) + 1 /\ f[Len(e) + 1] = d[n] /\ \A i \in 1..Len(e) : f[i] = e[i]
  BY <1>2, <1>3, AppendProperties
<1> HIDE DEF f
<1>5. Len(f) = Len(d) /\ \A i \in 1..Len(d) : f[i] = d[i]
  BY <1>1, <1>2, <1>4
<1>6. d = f
  BY <1>4, <1>5, SeqEqual
<1>7. e = <<>> <=> n = 1
  BY <1>1, <1>2, EmptySeq
<1>8. d[n].name \in PartNames
  BY <1>3 DEF Parts
<1> QED
  BY Zenon, <1>1, <1>2, <1>3, <1>6, <1>7, <1>8 DEF e, f

\* There is no way up from a root.
LEMMA RootStays ==
  ASSUME NEW root \in Roots, root # ""
  PROVE  Go(Rooted(root), "..") = Rooted(root)
<1>1. Rooted(root).names = <<>> /\ Rooted(root).root = root
  BY DEF Rooted, Here
<1> QED
  BY Zenon, <1>1, GoIs

\* A path in normal form, its drive aside.
NormalOf(d) ==
  \A i \in DOMAIN d :
    /\ d[i].name \in {"", "."} => i = 1 /\ ~Has(mode, "SIMPLE")
    /\ d[i].name = ".." => ~Has(mode, "SIMPLE") /\ \A j \in 1 .. i : d[j].name = ".."

\* A simple path without a drive.
DriveOf(d) == d[1].name = "c:" => ~(Has(mode, "SIMPLE") /\ DiskLetter(mode))

\* If every part written ends with a slash that is found again, what ".."
\* makes of them leads up from where they led.
LEMMA DotdotLeads ==
  ASSUME NEW d \in Seq(Parts), d # <<>>, \A i \in DOMAIN d : d[i].sep \in slashes(mode), NormalOf(d), DriveOf(d),
         NEW p \in Parts, p.name = ".."
  PROVE  Go(Walk(mode, d), "..") =
           IF Dotdot(d).add THEN Walk(mode, Append(Dotdot(d).dst, p)) ELSE Walk(mode, Dotdot(d).dst)
<1> DEFINE n == Len(d)
           f == SubSeq(d, 1, n - 1)
           name == d[n].name
           e == Dotdot(d).dst
           add == Dotdot(d).add
<1>1. f \in Seq(Parts) /\ d[n] \in Parts /\ name \in PartNames /\ n \in DOMAIN d /\ (f = <<>> <=> n = 1)
      /\ d = Append(f, d[n])
  BY Zenon, LastPart
<1>2. Slash(d) = n - 1 /\ n \in Nat /\ n >= 1
  BY SlashBefore, SlashIs
<1>3. \A x : LastIs(d, x) <=> name = x
  <2>1. n - 1 + 1 = n
    BY <1>2
  <2> QED
    BY Zenon, <1>2, <2>1 DEF LastIs
<1>4. Walk(mode, d) = IF f = <<>> THEN GoFirst(mode, name) ELSE Go(Walk(mode, f), name)
  <2> HIDE DEF n, f
  <2> QED
    BY Zenon, <1>1, WalkAppend
<1>5. ASSUME NEW x, NEW y, Dotdot(d) = [dst |-> x, add |-> y] PROVE e = x /\ add = y
  BY <1>5
<1>6. Walk(mode, <<>>) = Start(mode) /\ Start(mode) \in Places
  <2>1. <<>> \in Seq(Parts)
    OBVIOUS
  <2> QED
    BY Zenon, <2>1, WalkType, StartType
<1>7. name \in {"", "."} => n = 1 /\ ~Has(mode, "SIMPLE")
  BY Zenon, <1>1 DEF NormalOf
<1>8. n = 1 /\ name = "c:" => ~(Has(mode, "SIMPLE") /\ DiskLetter(mode))
  BY Zenon DEF DriveOf
<1>9. ".." # "" /\ ".." # "." /\ ".." # "c:" /\ "." # "c:" /\ "." # "" /\ "" # "c:"
  BY Zenon
<1>10. n = 1 => Slash(d) = 0
  BY <1>2
<1> HIDE DEF n, f, name, e, add
<1>11. CASE name = ".."
  <2>1. e = d /\ add = TRUE
    BY Zenon, <1>3, <1>5, <1>11, DotdotIs
  <2>2. Walk(mode, Append(d, p)) = Go(Walk(mode, d), "..")
    BY Zenon, WalkAppend
  <2> QED
    BY Zenon, <2>1, <2>2 DEF e, add
<1>12. CASE name # ".." /\ n # 1
  <2>1. Slash(d) > 0
    BY <1>2, <1>12
  <2>2. e = f /\ add = FALSE
    BY Zenon, <1>2, <1>3, <1>5, <1>12, <2>1, DotdotIs DEF f
  <2>3. name \in Directories
    BY Zenon, <1>1, <1>7, <1>12 DEF Directories
  <2>4. Walk(mode, f) \in Places
    BY Zenon, <1>1, WalkType
  <2>5. Go(Walk(mode, d), "..") = Walk(mode, f)
    BY Zenon, <1>1, <1>4, <1>12, <2>3, <2>4, DownAndUp
  <2> QED
    BY Zenon, <2>2, <2>5 DEF e, add
<1>13. CASE n = 1 /\ name = "."
  <2>1. e = <<>> /\ add = TRUE
    BY Zenon, <1>3, <1>5, <1>10, <1>13, DotdotIs
  <2>2. Walk(mode, d) = Start(mode)
    BY Zenon, <1>1, <1>4, <1>9, <1>13, GoFirstIs, GoIs
  <2>3. <<>> \in Seq(Parts)
    OBVIOUS
  <2>4. Walk(mode, Append(<<>>, p)) = GoFirst(mode, "..")
    BY Zenon, <2>3, WalkAppend
  <2>5. GoFirst(mode, "..") = Go(Start(mode), "..")
    BY Zenon, <1>9, GoFirstIs
  <2> QED
    BY Zenon, <2>1, <2>2, <2>4, <2>5 DEF e, add
<1>14. CASE n = 1 /\ (name = "" \/ (DiskLetter(mode) /\ name = "c:"))
  <2>1. e = d /\ add = FALSE
    BY Zenon, <1>3, <1>5, <1>9, <1>10, <1>14, DotdotIs DEF name, n
  <2>2. Walk(mode, d) = Rooted("/") \/ Walk(mode, d) = Rooted("c:")
    BY Zenon, <1>1, <1>4, <1>7, <1>8, <1>14, GoFirstIs
  <2>3. "/" \in Roots /\ "c:" \in Roots /\ "/" # "" /\ "c:" # ""
    BY Zenon DEF Roots
  <2>4. Go(Walk(mode, d), "..") = Walk(mode, d)
    BY Zenon, <2>2, <2>3, RootStays
  <2> QED
    BY Zenon, <2>1, <2>4 DEF e, add
<1>15. CASE n = 1 /\ name \notin {"", ".", ".."} /\ ~(DiskLetter(mode) /\ name = "c:")
  <2>1. e = <<>> /\ add = FALSE
    BY Zenon, <1>3, <1>5, <1>10, <1>15, DotdotIs DEF name, n
  <2>2. name \in Directories
    BY Zenon, <1>1, <1>15 DEF Directories
  <2>3. Walk(mode, d) = Go(Start(mode), name)
    BY Zenon, <1>1, <1>4, <1>15, GoFirstIs
  <2>4. Go(Walk(mode, d), "..") = Start(mode)
    BY Zenon, <1>6, <2>2, <2>3, DownAndUp
  <2> QED
    BY Zenon, <1>6, <2>1, <2>4 DEF e, add
<1> QED
  BY Zenon, <1>11, <1>12, <1>13, <1>14, <1>15

-----------------------------------------------------------------------------
(* The result stays in normal form                                         *)

\* The beginning of a path in normal form is in normal form, and its parts
\* end with the slashes they ended with.
LEMMA NormalCut ==
  ASSUME NEW d \in Seq(Parts), NEW m \in 0..Len(d)
  PROVE  /\ SubSeq(d, 1, m) \in Seq(Parts)
         /\ NormalOf(d) => NormalOf(SubSeq(d, 1, m))
         /\ (\A i \in DOMAIN d : d[i].sep \in slashes(mode)) =>
              \A i \in DOMAIN SubSeq(d, 1, m) : SubSeq(d, 1, m)[i].sep \in slashes(mode)
<1> DEFINE e == SubSeq(d, 1, m)
<1>1. DOMAIN d = 1..Len(d) /\ Len(d) \in Nat
  BY LenProperties
<1>2. e \in Seq(Parts) /\ Len(e) = m /\ \A i \in 1..m : e[i] = d[i]
  BY <1>1, SubSeqProperties
<1> HIDE DEF e
<1>3. DOMAIN e = 1..m
  BY <1>2, LenProperties
<1>4. \A i \in DOMAIN e : i \in DOMAIN d /\ e[i] = d[i] /\ \A j \in 1..i : e[j] = d[j]
  BY <1>1, <1>2, <1>3
<1>5. NormalOf(d) => NormalOf(e)
  BY Zenon, <1>4 DEF NormalOf
<1>6. (\A i \in DOMAIN d : d[i].sep \in slashes(mode)) => \A i \in DOMAIN e : e[i].sep \in slashes(mode)
  BY Zenon, <1>4
<1> QED
  BY Zenon, <1>2, <1>5, <1>6 DEF e

\* What may be added to a path in normal form.
MayFollow(p, d) ==
  /\ p.name \in {"", "."} => d = <<>> /\ ~Has(mode, "SIMPLE")
  /\ p.name = ".." => ~Has(mode, "SIMPLE") /\ \A j \in DOMAIN d : d[j].name = ".."

\* The path is then still in normal form.
LEMMA NormalAppend ==
  ASSUME NEW d \in Seq(Parts), NormalOf(d), NEW p \in Parts, MayFollow(p, d)
  PROVE  NormalOf(Append(d, p))
<1> DEFINE e == Append(d, p)
<1>1. PICK n \in Nat : n = Len(d) /\ DOMAIN d = 1..n /\ (d = <<>> => n = 0)
  BY LenProperties
<1>2. e \in Seq(Parts) /\ Len(e) = n + 1 /\ e[n + 1] = p /\ \A i \in 1..n : e[i] = d[i]
  BY <1>1, AppendProperties
<1> HIDE DEF e
<1>3. DOMAIN e = 1..(n + 1)
  BY <1>2, LenProperties
<1>4. ASSUME NEW i \in DOMAIN e
      PROVE  /\ e[i].name \in {"", "."} => i = 1 /\ ~Has(mode, "SIMPLE")
             /\ e[i].name = ".." => ~Has(mode, "SIMPLE") /\ \A j \in 1 .. i : e[j].name = ".."
  <2>1. CASE i = n + 1
    <3>1. e[i] = p /\ (n = 0 => i = 1)
      BY <1>2, <2>1
    <3>2. \A j \in 1..i : j = i \/ (j \in DOMAIN d /\ e[j] = d[j])
      BY <1>1, <1>2, <2>1
    <3> QED
      BY Zenon, <1>1, <3>1, <3>2 DEF MayFollow
  <2>2. CASE i # n + 1
    <3>1. i \in DOMAIN d /\ e[i] = d[i] /\ \A j \in 1..i : e[j] = d[j]
      BY <1>1, <1>2, <1>3, <2>2
    <3> QED
      BY Zenon, <3>1 DEF NormalOf
  <2> QED
    BY Zenon, <2>1, <2>2
<1>5. NormalOf(e)
  BY Zenon, <1>4 DEF NormalOf
<1> QED
  BY Zenon, <1>5 DEF e

\* Each part is an old one or the one added.
LEMMA AppendAt ==
  ASSUME NEW d \in Seq(Parts), NEW p \in Parts, NEW i \in DOMAIN Append(d, p)
  PROVE  Append(d, p)[i] = p \/ (i \in DOMAIN d /\ Append(d, p)[i] = d[i])
<1> DEFINE e == Append(d, p)
<1>1. e \in Seq(Parts) /\ Len(e) = Len(d) + 1 /\ e[Len(d) + 1] = p /\ \A j \in 1..Len(d) : e[j] = d[j]
  BY AppendProperties
<1> HIDE DEF e
<1>2. DOMAIN e = 1..Len(e) /\ DOMAIN d = 1..Len(d) /\ Len(d) \in Nat
  BY <1>1, LenProperties
<1>3. i \in DOMAIN e
  BY DEF e
<1>4. e[i] = p \/ (i \in DOMAIN d /\ e[i] = d[i])
  BY <1>1, <1>2, <1>3
<1> QED
  BY Zenon, <1>4 DEF e

-----------------------------------------------------------------------------
(* The steps                                                               *)

\* A slash that is converted is still a slash that the path is split by.
LEMMA SepSplits ==
  ASSUME NEW sep \in slashes(mode) \cup {""}
  PROVE  /\ sep \in Seps
         /\ SplitsAsForced(mode) /\ sep # "" => Sep(sep) \in slashes(mode)
<1>1. slashes(mode) = {"/", "\\"} \/ slashes(mode) = {"/"}
  BY Zenon DEF slashes
<1>2. sep \in Seps
  BY Zenon, <1>1 DEF Seps
<1>3. "/" \in slashes(mode)
  BY Zenon, <1>1
<1>4. SplitsAsForced(mode) /\ sep # "" => Sep(sep) \in slashes(mode)
  BY Zenon, <1>3 DEF SplitsAsForced, Sep
<1> QED
  BY Zenon, <1>2, <1>4

\* What becomes of the parts written before a part is written or skipped.
Rest(name) == IF name = ".." THEN Dotdot(dst) ELSE [dst |-> dst, add |-> ~Dropped(name)]

\* Its fields.
LEMMA Fields ==
  ASSUME NEW r, NEW x, NEW y, r = [dst |-> x, add |-> y]
  PROVE  r.dst = x /\ r.add = y
  OBVIOUS

\* It is their beginning.
LEMMA RestCuts ==
  ASSUME Types, NEW name
  PROVE  \E m \in 0..Len(dst) : Rest(name).dst = SubSeq(dst, 1, m)
<1>1. dst \in Seq(Parts)
  BY Zenon DEF Types
<1>2. CASE name = ".."
  BY Zenon, <1>1, <1>2, DotdotCuts DEF Rest
<1>3. CASE name # ".."
  <2>1. Rest(name) = [dst |-> dst, add |-> ~Dropped(name)]
    BY Zenon, <1>3 DEF Rest
  <2>2. Rest(name).dst = dst
    BY Zenon, <2>1, Fields
  <2>3. Len(dst) \in 0..Len(dst) /\ SubSeq(dst, 1, Len(dst)) = dst
    BY <1>1, LenProperties, SubSeqFull
  <2> QED
    BY Zenon, <2>2, <2>3
<1> QED
  BY Zenon, <1>2, <1>3

\* One iteration of the loop: the part read, and whether it is written, does
\* not fit or is skipped.
Iteration(name, sep, part, d) ==
  /\ name \in PartNames /\ sep \in slashes(mode) \cup {""}
  /\ part = [name |-> name, sep |-> Sep(sep)] /\ d = Rest(name).dst
  /\ LengthOf(part) > 0 /\ used' = used + LengthOf(part)
  /\ place' = (IF first THEN GoFirst(mode, name) ELSE Go(place, name))
  /\ first' = (first /\ Has(mode, "SIMPLE") /\ name \in {"", "."})
  /\ late' = (late \/ (~first /\ name = "c:"))
  /\ simplify' = TRUE /\ skip_disk' = (skip_disk /\ name \in {"", "."})
  /\ mode' = mode /\ cap' = cap /\ ret = "run"
  /\ \/ Rest(name).add /\ Written(d) + LengthOf(part) > cap /\ dst' = d /\ ret' = "error"
     \/ Rest(name).add /\ dst' = Append(d, part) /\ ret' = (IF sep = "" THEN "done" ELSE "run")
     \/ ~Rest(name).add /\ dst' = d /\ ret' = (IF sep = "" THEN "done" ELSE "run")

\* The step is such an iteration.
LEMMA StepIs ==
  ASSUME ffpath_normalize
  PROVE  \E name, sep, part, d : Iteration(name, sep, part, d)
<1>1. PICK name \in PartNames, sep \in slashes(mode) \cup {""} :
        /\ LengthOf([name |-> name, sep |-> sep]) > 0
        /\ used' = used + LengthOf([name |-> name, sep |-> sep])
        /\ place' = IF first THEN GoFirst(mode, name) ELSE Go(place, name)
        /\ first' = (first /\ Has(mode, "SIMPLE") /\ name \in {"", "."})
        /\ late' = (late \/ (~first /\ name = "c:"))
        /\ simplify' = TRUE
        /\ skip_disk' = (skip_disk /\ name \in {"", "."})
        /\ IF Rest(name).add THEN Write(Rest(name).dst, name, sep) ELSE Skip(Rest(name).dst, sep)
  BY Zenon DEF ffpath_normalize, PartNames, Rest
<1>2. mode' = mode /\ cap' = cap /\ ret = "run"
  BY Zenon DEF ffpath_normalize
<1> DEFINE part == [name |-> name, sep |-> Sep(sep)]
           d == Rest(name).dst
<1>3. LengthOf(part) = LengthOf([name |-> name, sep |-> sep])
  BY Zenon, SepSplits, SepLength
<1>4. \/ Rest(name).add /\ Written(d) + LengthOf(part) > cap /\ dst' = d /\ ret' = "error"
      \/ Rest(name).add /\ dst' = Append(d, part) /\ ret' = (IF sep = "" THEN "done" ELSE "run")
      \/ ~Rest(name).add /\ dst' = d /\ ret' = (IF sep = "" THEN "done" ELSE "run")
  BY Zenon, <1>1 DEF Write, Skip
<1>5. Iteration(name, sep, part, d)
  <2> HIDE DEF d
  <2> QED
    BY Zenon, <1>1, <1>2, <1>3, <1>4 DEF Iteration, d
<1> QED
  BY Zenon, <1>5

\* What an iteration writes is in normal form (path.h:272-286 drop the other parts).
LEMMA PartMayFollow ==
  ASSUME PathsInv, NEW name, NEW sep, NEW part, NEW d, Iteration(name, sep, part, d), Rest(name).add
  PROVE  MayFollow(part, d)
<1>1. part = [name |-> name, sep |-> Sep(sep)] /\ d = Rest(name).dst
  BY Zenon DEF Iteration
<1>2. part.name = name
  <2> DEFINE s == Sep(sep)
  <2> HIDE DEF s
  <2>1. part = [name |-> name, sep |-> s]
    BY Zenon, <1>1 DEF s
  <2> QED
    BY <2>1
<1>3. dst \in Seq(Parts) /\ used \in Nat
  BY Zenon DEF PathsInv, Types
<1>4. ".." # "" /\ ".." # "." /\ ".." # "c:" /\ ".." \notin {"", "."} /\ "c:" \notin {"", "."}
  BY Zenon
<1>5. CASE name = ".."
  <2>1. Dotdot(dst).add /\ d = Dotdot(dst).dst
    BY Zenon, <1>1, <1>5 DEF Rest
  <2>2. CASE d = <<>> /\ dst = <<>> /\ ~Has(mode, "SIMPLE")
    <3>1. DOMAIN <<>> = {}
      OBVIOUS
    <3> QED
      BY Zenon, <1>2, <1>4, <1>5, <2>2, <3>1 DEF MayFollow
  <2>3. CASE d = dst /\ dst # <<>> /\ dst[Len(dst)].name = ".."
    <3>1. Len(dst) \in DOMAIN dst /\ DOMAIN dst = 1..Len(dst)
      BY <1>3, <2>3, LastPart, LenProperties
    <3>2. ~Has(mode, "SIMPLE") /\ \A j \in 1..Len(dst) : dst[j].name = ".."
      BY Zenon, <2>3, <3>1 DEF PathsInv, Normal
    <3> QED
      BY Zenon, <1>2, <1>4, <1>5, <2>3, <3>1, <3>2 DEF MayFollow
  <2>4. CASE d = <<>> /\ Len(dst) = 1 /\ dst[1].name = "."
    <3>1. DOMAIN <<>> = {}
      OBVIOUS
    <3>2. 1 \in DOMAIN dst
      BY <1>3, <2>4, LenProperties
    <3>3. ~Has(mode, "SIMPLE")
      BY Zenon, <2>4, <3>2 DEF PathsInv, Normal
    <3> QED
      BY Zenon, <1>2, <1>4, <1>5, <2>4, <3>1, <3>3 DEF MayFollow
  <2> QED
    BY Zenon, <1>3, <2>1, <2>2, <2>3, <2>4, DotdotCuts
<1>6. CASE name # ".."
  <2>1. Rest(name) = [dst |-> dst, add |-> ~Dropped(name)]
    BY Zenon, <1>6 DEF Rest
  <2>2. d = dst /\ ~Dropped(name)
    BY Zenon, <1>1, <2>1, Fields
  <2>3. simplify = (Has(mode, "SIMPLE") \/ used > 0)
    BY Zenon DEF PathsInv, Standing
  <2>4. used > 0 \/ used = 0
    BY <1>3
  <2>5. name \in {"", "."} => dst = <<>> /\ ~Has(mode, "SIMPLE")
    BY Zenon, <2>2, <2>3, <2>4 DEF Dropped, PathsInv, Standing
  <2> QED
    BY Zenon, <1>2, <1>6, <2>2, <2>5 DEF MayFollow
<1> QED
  BY Zenon, <1>5, <1>6

\* A drive that becomes the first part of the result and is not that of the source.
Fronts(name, d) == name = "c:" /\ DiskLetter(mode) /\ ~first /\ d = <<>> /\ place.root # "c:"

\* After an iteration the parts written lead where the parts read lead, if no
\* later drive is their first part.
LEMMA StepLeads ==
  ASSUME PathsInv, SplitsAsForced(mode), NEW name, NEW sep, NEW part, NEW d, Iteration(name, sep, part, d),
         part \in Parts, ~Fronted, ~(Rest(name).add /\ Fronts(name, d))
  PROVE  place' = IF Rest(name).add THEN Walk(mode, Append(d, part)) ELSE Walk(mode, d)
<1>1. part = [name |-> name, sep |-> Sep(sep)] /\ d = Rest(name).dst /\ name \in PartNames
      /\ place' = (IF first THEN GoFirst(mode, name) ELSE Go(place, name)) /\ ret = "run"
  BY Zenon DEF Iteration
<1>2. part.name = name
  <2> DEFINE s == Sep(sep)
  <2> HIDE DEF s
  <2>1. part = [name |-> name, sep |-> s]
    BY Zenon, <1>1 DEF s
  <2> QED
    BY <2>1
<1>3. dst \in Seq(Parts) /\ used \in Nat
  BY Zenon DEF PathsInv, Types
<1>4. "run" # "error"
  OBVIOUS
<1>5. place = Walk(mode, dst) /\ \A i \in DOMAIN dst : dst[i].sep \in slashes(mode)
  BY Zenon, <1>1, <1>4 DEF PathsInv, Leading, SamePlace
<1>6. /\ first => dst = <<>> /\ place = Start(mode) /\ (used = 0 \/ Has(mode, "SIMPLE"))
      /\ used = 0 => first
      /\ skip_disk => DiskLetter(mode) /\ Has(mode, "SIMPLE") /\ first
  BY Zenon DEF PathsInv, Standing
<1>7. <<>> \in Seq(Parts)
  OBVIOUS
<1>8. Walk(mode, <<>>) = Start(mode)
  BY Zenon, <1>7, WalkType
<1>9. ".." # "" /\ ".." # "." /\ ".." # "c:" /\ "" # "c:" /\ "." # "c:" /\ "." # ""
  BY Zenon
<1>10. simplify = (Has(mode, "SIMPLE") \/ used > 0) /\ (used > 0 <=> used # 0)
  <2>1. used > 0 <=> used # 0
    BY <1>3
  <2> QED
    BY Zenon, <2>1 DEF PathsInv, Standing
<1>11. CASE name = ".." /\ dst # <<>>
  <2>1. place' = Go(Walk(mode, dst), "..")
    BY Zenon, <1>1, <1>5, <1>6, <1>11
  <2>2. Rest(name) = Dotdot(dst)
    BY Zenon, <1>11 DEF Rest
  <2>3. NormalOf(dst)
    BY Zenon DEF PathsInv, Normal, NormalOf
  <2>4. DriveOf(dst)
    <3>1. 1 \in DOMAIN dst
      BY <1>3, <1>11, LenProperties, EmptySeq
    <3>2. "simple" # "c:"
      OBVIOUS
    <3> QED
      BY Zenon, <1>11, <3>1, <3>2 DEF PathsInv, Normal, Standing, DriveOf, Fronted
  <2> QED
    BY Zenon, <1>1, <1>2, <1>3, <1>5, <1>11, <2>1, <2>2, <2>3, <2>4, DotdotLeads
<1>12. CASE name = ".." /\ dst = <<>>
  <2>1. Rest(name) = [dst |-> dst, add |-> ~Has(mode, "SIMPLE")]
    BY Zenon, <1>3, <1>12, DotdotIs DEF Rest
  <2>2. d = <<>> /\ (Rest(name).add <=> ~Has(mode, "SIMPLE"))
    BY ZenonT(60), <1>1, <1>12, <2>1, Fields
  <2>3. GoFirst(mode, "..") = Go(Start(mode), "..")
    BY Zenon, <1>9, GoFirstIs
  <2>4. place' = Go(Start(mode), "..")
    BY Zenon, <1>1, <1>5, <1>8, <1>12, <2>3
  <2>5. CASE Has(mode, "SIMPLE")
    <3>1. Start(mode) = Rooted("simple") /\ "simple" \in Roots /\ "simple" # ""
      BY Zenon, <2>5, StartType DEF Roots
    <3> QED
      BY Zenon, <1>8, <2>2, <2>4, <2>5, <3>1, RootStays
  <2>6. CASE ~Has(mode, "SIMPLE")
    <3>1. Walk(mode, Append(<<>>, part)) = GoFirst(mode, "..")
      BY Zenon, <1>2, <1>7, <1>12, WalkAppend
    <3> QED
      BY Zenon, <2>2, <2>3, <2>4, <2>6, <3>1
  <2> QED
    BY Zenon, <2>5, <2>6
<1>13. CASE name # ".."
  <2>1. Rest(name) = [dst |-> dst, add |-> ~Dropped(name)]
    BY Zenon, <1>13 DEF Rest
  <2>2. d = dst /\ (Rest(name).add <=> ~Dropped(name))
    BY Zenon, <1>1, <2>1, Fields
  <2>3. CASE Dropped(name)
    <3>1. simplify /\ (name \in {"", "."} \/ (skip_disk /\ name = "c:"))
      BY Zenon, <2>3 DEF Dropped
    <3>2. CASE name \in {"", "."}
      <4>1. CASE first
        <5>1. GoFirst(mode, name) = Go(Start(mode), name)
          BY Zenon, <1>6, <1>9, <1>10, <3>1, <3>2, <4>1, GoFirstIs
        <5> QED
          BY Zenon, <1>1, <1>5, <1>6, <2>2, <2>3, <3>2, <4>1, <5>1, GoIs
      <4>2. CASE ~first
        BY Zenon, <1>1, <1>5, <2>2, <2>3, <3>2, <4>2, GoIs
      <4> QED
        BY Zenon, <4>1, <4>2
    <3>3. CASE skip_disk /\ name = "c:"
      <4>1. first /\ DiskLetter(mode) /\ Has(mode, "SIMPLE")
        BY Zenon, <1>6, <3>3
      <4>2. GoFirst(mode, name) = Start(mode)
        BY Zenon, <3>3, <4>1, GoFirstIs
      <4> QED
        BY Zenon, <1>1, <1>6, <1>8, <2>2, <2>3, <4>1, <4>2
    <3> QED
      BY Zenon, <3>1, <3>2, <3>3
  <2>4. CASE ~Dropped(name)
    <3>1. Walk(mode, Append(dst, part)) = IF dst = <<>> THEN GoFirst(mode, name) ELSE Go(Walk(mode, dst), name)
      BY Zenon, <1>2, <1>3, WalkAppend
    <3>2. CASE first
      BY Zenon, <1>1, <1>6, <2>2, <2>4, <3>1, <3>2
    <3>3. CASE ~first /\ dst # <<>>
      BY Zenon, <1>1, <1>5, <2>2, <2>4, <3>1, <3>3
    <3>4. CASE ~first /\ dst = <<>>
      <4>1. name # "" /\ ~(DiskLetter(mode) /\ name = "c:")
        <5>1. place.root # "c:"
          BY Zenon, <1>5, <1>8, <3>4, Begins
        <5>2. simplify
          BY Zenon, <1>6, <1>10, <3>4
        <5> QED
          BY Zenon, <2>2, <2>4, <3>4, <5>1, <5>2 DEF Dropped, Fronts
      <4>2. GoFirst(mode, name) = Go(Start(mode), name)
        BY Zenon, <4>1, GoFirstIs
      <4> QED
        BY Zenon, <1>1, <1>5, <1>8, <2>2, <2>4, <3>1, <3>4, <4>2
    <3> QED
      BY Zenon, <3>2, <3>3, <3>4
  <2> QED
    BY Zenon, <2>3, <2>4
<1> QED
  BY Zenon, <1>11, <1>12, <1>13

\* The first part of a path and of its beginnings.
LEMMA Heads ==
  ASSUME NEW d \in Seq(Parts), NEW p \in Parts, NEW m \in 0..Len(d)
  PROVE  /\ Append(d, p) # <<>> /\ Append(d, p)[1] = IF d = <<>> THEN p ELSE d[1]
         /\ SubSeq(d, 1, m) # <<>> => d # <<>> /\ SubSeq(d, 1, m)[1] = d[1]
<1>1. Len(d) \in Nat /\ (d = <<>> <=> Len(d) = 0)
  BY LenProperties, EmptySeq
<1> DEFINE e == Append(d, p)
           f == SubSeq(d, 1, m)
<1>2. e \in Seq(Parts) /\ Len(e) = Len(d) + 1 /\ e[Len(d) + 1] = p /\ \A i \in 1..Len(d) : e[i] = d[i]
  BY AppendProperties
<1>3. f \in Seq(Parts) /\ Len(f) = m /\ \A i \in 1..m : f[i] = d[i]
  BY <1>1, SubSeqProperties
<1> HIDE DEF e, f
<1>4. e # <<>> /\ e[1] = IF d = <<>> THEN p ELSE d[1]
  BY <1>1, <1>2
<1>5. f # <<>> => d # <<>> /\ f[1] = d[1]
  BY <1>1, <1>3, EmptySeq
<1> QED
  BY Zenon, <1>4, <1>5 DEF e, f

\* The shortest beginning.
LEMMA EmptyCut ==
  ASSUME NEW d \in Seq(Parts)
  PROVE  0 \in 0..Len(d)
  BY LenProperties

\* A later drive that is the first part of the result stays there.
LEMMA FrontStays ==
  ASSUME PathsInv, SplitsAsForced(mode), Fronted, ret = "run", NEW name
  PROVE  Rest(name).dst # <<>>
<1>1. dst \in Seq(Parts) /\ dst # <<>> /\ dst[1].name = "c:" /\ DiskLetter(mode)
  BY Zenon DEF PathsInv, Types, Fronted
<1>2. \A i \in DOMAIN dst : dst[i].sep \in slashes(mode)
  BY Zenon DEF PathsInv, Leading
<1>3. CASE name # ".."
  <2>1. Rest(name) = [dst |-> dst, add |-> ~Dropped(name)]
    BY Zenon, <1>3 DEF Rest
  <2> QED
    BY Zenon, <1>1, <2>1, Fields
<1>4. CASE name = ".."
  <2>1. Rest(name) = Dotdot(dst)
    BY Zenon, <1>4 DEF Rest
  <2>2. Slash(dst) = Len(dst) - 1 /\ Len(dst) \in Nat /\ Len(dst) >= 1
    BY <1>1, <1>2, SlashBefore, SlashIs
  <2>3. CASE LastIs(dst, "..")
    <3>1. Dotdot(dst) = [dst |-> dst, add |-> TRUE]
      BY Zenon, <1>1, <2>3, DotdotIs
    <3> QED
      BY Zenon, <1>1, <2>1, <3>1, Fields
  <2>4. CASE ~LastIs(dst, "..") /\ Slash(dst) > 0
    <3>1. Dotdot(dst) = [dst |-> SubSeq(dst, 1, Slash(dst)), add |-> FALSE]
      BY Zenon, <1>1, <2>4, DotdotIs
    <3>2. Len(SubSeq(dst, 1, Slash(dst))) = Slash(dst)
      BY <1>1, <2>2, <2>4, SubSeqProperties
    <3>3. SubSeq(dst, 1, Slash(dst)) # <<>>
      <4>1. Len(<<>>) = 0 /\ ~(0 > 0)
        OBVIOUS
      <4> QED
        BY Zenon, <2>4, <3>2, <4>1
    <3> QED
      BY Zenon, <2>1, <3>1, <3>3, Fields
  <2>5. CASE ~LastIs(dst, "..") /\ ~(Slash(dst) > 0)
    <3>1. Slash(dst) = 0 /\ Len(dst) = 1
      <4>1. ~(Slash(dst) > 0)
        BY Zenon, <2>5
      <4>2. \A l \in Nat : l >= 1 /\ ~(l - 1 > 0) => l - 1 = 0 /\ l = 1
        OBVIOUS
      <4> QED
        BY Zenon, <2>2, <4>1, <4>2
    <3>2. ~LastIs(dst, ".") /\ dst[Len(dst)].name = "c:"
      <4>1. "c:" # "."
        OBVIOUS
      <4> QED
        BY Zenon, <1>1, <3>1, <4>1 DEF LastIs
    <3>3. Dotdot(dst) = [dst |-> dst, add |-> FALSE]
      BY Zenon, <1>1, <2>5, <3>1, <3>2, DotdotIs
    <3> QED
      BY Zenon, <1>1, <2>1, <3>3, Fields
  <2> QED
    BY Zenon, <2>3, <2>4, <2>5
<1> QED
  BY Zenon, <1>3, <1>4

\* What an iteration keeps.
LEMMA StepKeeps ==
  ASSUME PathsInv, ffpath_normalize
  PROVE  PathsInv'
<1>1. PICK name, sep, part, d : Iteration(name, sep, part, d)
  BY Zenon, StepIs
<1>2. /\ name \in PartNames /\ sep \in slashes(mode) \cup {""} /\ part = [name |-> name, sep |-> Sep(sep)]
      /\ d = Rest(name).dst /\ LengthOf(part) > 0 /\ used' = used + LengthOf(part)
      /\ mode' = mode /\ cap' = cap /\ ret = "run"
      /\ simplify' = TRUE /\ skip_disk' = (skip_disk /\ name \in {"", "."})
      /\ place' = (IF first THEN GoFirst(mode, name) ELSE Go(place, name))
      /\ first' = (first /\ Has(mode, "SIMPLE") /\ name \in {"", "."})
      /\ late' = (late \/ (~first /\ name = "c:"))
  BY Zenon, <1>1 DEF Iteration
<1>3. mode \in Modes /\ cap \in Caps /\ used \in Nat /\ dst \in Seq(Parts)
  BY Zenon DEF PathsInv, Types
<1>4. Sep(sep) \in Seps /\ (Sep(sep) = "" <=> sep = "")
  BY Zenon, <1>2, SepSplits, SepLength
<1> DEFINE L == LengthOf(part)
           after == IF sep = "" THEN "done" ELSE "run"
<1>5. part.name = name /\ part.sep = Sep(sep) /\ part \in Parts
  <2> DEFINE s == Sep(sep)
  <2>1. part = [name |-> name, sep |-> s] /\ s \in Seps /\ name \in PartNames
    BY Zenon, <1>2, <1>4
  <2> HIDE DEF s
  <2>2. part.name = name /\ part.sep = s /\ part \in Parts
    BY <2>1 DEF Parts
  <2> QED
    BY Zenon, <2>2 DEF s
<1>6. PICK m \in 0..Len(dst) : d = SubSeq(dst, 1, m)
  BY Zenon, <1>2, RestCuts DEF PathsInv
<1>7. /\ d \in Seq(Parts) /\ NormalOf(d)
      /\ (\A i \in DOMAIN dst : dst[i].sep \in slashes(mode)) => \A i \in DOMAIN d : d[i].sep \in slashes(mode)
  BY Zenon, <1>3, <1>6, NormalCut DEF PathsInv, Normal, NormalOf
<1>8. L \in Nat /\ L > 0 /\ used' = used + L
  BY Zenon, <1>2, PartLength
<1>9. \/ Rest(name).add /\ Written(d) + L > cap /\ dst' = d /\ ret' = "error"
      \/ Rest(name).add /\ dst' = Append(d, part) /\ ret' = after
      \/ ~Rest(name).add /\ dst' = d /\ ret' = after
  BY Zenon, <1>1 DEF Iteration
<1>10. after \in {"run", "done"} /\ after # "error" /\ (after = "run" => sep # "")
  <2>1. "run" # "error" /\ "done" # "error" /\ "done" # "run"
    OBVIOUS
  <2> QED
    BY Zenon, <2>1
<1>11. Append(d, part) \in Seq(Parts)
  BY <1>5, <1>7, AppendProperties
<1> HIDE DEF L, after
<1>12. used' \in Nat /\ used' > 0 /\ used' # 0
  BY <1>3, <1>8
<1>13. Types'
  <2>1. place \in Places
    BY Zenon DEF PathsInv, Types
  <2>2. place' \in Places
    BY Zenon, <1>2, <2>1, GoType, GoFirstType
  <2> QED
    BY Zenon, <1>2, <1>3, <1>7, <1>9, <1>10, <1>11, <1>12, <2>2 DEF Types
<1>14. Standing'
  <2>1. Has(mode, "SIMPLE")' = Has(mode, "SIMPLE") /\ DiskLetter(mode)' = DiskLetter(mode)
        /\ Start(mode)' = Start(mode)
    BY Zenon, <1>2 DEF Has, DiskLetter, Start
  <2>2. skip_disk' <=> DiskLetter(mode) /\ Has(mode, "SIMPLE") /\ first'
    BY Zenon, <1>2 DEF PathsInv, Standing
  <2>3. ASSUME first' PROVE dst' = <<>> /\ place' = Start(mode) /\ Has(mode, "SIMPLE")
    <3>1. first /\ Has(mode, "SIMPLE") /\ name \in {"", "."} /\ dst = <<>> /\ place = Start(mode) /\ simplify
      BY Zenon, <1>2, <2>3 DEF PathsInv, Standing
    <3>2. name # ".." /\ name # "c:"
      BY Zenon, <3>1
    <3>3. Rest(name) = [dst |-> dst, add |-> ~Dropped(name)]
      BY Zenon, <3>2 DEF Rest
    <3>4. Dropped(name)
      BY Zenon, <3>1 DEF Dropped
    <3>5. d = dst /\ ~Rest(name).add
      BY Zenon, <1>2, <3>3, <3>4, Fields
    <3>6. place' = Start(mode)
      BY Zenon, <1>2, <3>1, <3>2, GoFirstIs, GoIs
    <3> QED
      BY Zenon, <1>9, <3>1, <3>5, <3>6
  <2>4. Has(mode, "SIMPLE") => place'.root = "simple"
    <3> SUFFICES ASSUME Has(mode, "SIMPLE") PROVE place'.root = "simple"
      BY Zenon
    <3>1. place.root = "simple" /\ place \in Places /\ Start(mode) \in Places /\ Start(mode).root = "simple"
      BY Zenon, Begins, StartType DEF PathsInv, Types, Standing
    <3>2. GoFirst(mode, name) = Start(mode) \/ GoFirst(mode, name) = Go(Start(mode), name)
      BY Zenon, GoFirstIs
    <3> QED
      BY Zenon, <1>2, <3>1, <3>2, GoRoot
  <2> QED
    BY Zenon, <1>2, <1>12, <2>1, <2>2, <2>3, <2>4 DEF Standing
<1>15. Normal'
  <2>1. NormalOf(dst')
    BY Zenon, <1>1, <1>5, <1>7, <1>9, PartMayFollow, NormalAppend
  <2>2. ASSUME 1 \in DOMAIN dst', dst'[1].name = "c:", Has(mode, "SIMPLE"), DiskLetter(mode) PROVE late'
    <3>1. dst' # <<>>
      <4>1. DOMAIN <<>> = {}
        OBVIOUS
      <4> QED
        BY Zenon, <2>2, <4>1
    <3>2. CASE d # <<>>
      <4>1. dst # <<>> /\ d[1] = dst[1]
        BY Zenon, <1>3, <1>5, <1>6, <3>2, Heads
      <4>2. dst'[1] = d[1]
        <5>1. Append(d, part)[1] = d[1]
          BY Zenon, <1>5, <1>7, <3>2, Heads, EmptyCut
        <5>2. dst' = d \/ dst' = Append(d, part)
          BY Zenon, <1>9
        <5> QED
          BY Zenon, <5>1, <5>2
      <4>3. 1 \in DOMAIN dst
        BY <1>3, <4>1, LenProperties, EmptySeq
      <4> QED
        BY Zenon, <1>2, <2>2, <4>1, <4>2, <4>3 DEF PathsInv, Normal
    <3>3. CASE d = <<>>
      <4>1. Rest(name).add /\ dst' = Append(d, part)
        BY Zenon, <1>9, <3>1, <3>3
      <4>2. name = "c:"
        BY Zenon, <1>5, <1>7, <2>2, <3>3, <4>1, Heads, EmptyCut
      <4>3. name # ".."
        BY Zenon, <4>2
      <4>4. Rest(name) = [dst |-> dst, add |-> ~Dropped(name)]
        BY Zenon, <4>3 DEF Rest
      <4>5. ~Dropped(name)
        BY Zenon, <4>1, <4>4, Fields
      <4>6. ~first
        BY Zenon, <2>2, <4>2, <4>5 DEF Dropped, PathsInv, Standing
      <4> QED
        BY Zenon, <1>2, <4>2, <4>6
    <3> QED
      BY Zenon, <3>2, <3>3
  <2> QED
    BY Zenon, <1>2, <2>1, <2>2 DEF Normal, NormalOf
<1>16. Fits'
  <2>1. Written(d) \in Nat /\ Written(dst) \in Nat /\ Written(d) <= Written(dst) /\ Written(dst) <= used
    <3>1. Written(d) <= Written(dst)
      BY Zenon, <1>3, <1>6, WrittenPrefix
    <3>2. Written(d) \in Nat /\ Written(dst) \in Nat
      BY Zenon, <1>3, <1>7, WrittenIsNat
    <3>3. Written(dst) <= used
      BY Zenon DEF PathsInv, Fits, k
    <3> QED
      BY Zenon, <3>1, <3>2, <3>3
  <2>2. cap \in Nat
    BY Zenon, <1>3, PathsAssumption
  <2>3. Written(dst') = Written(d) \/ Written(dst') = Written(d) + L
    BY Zenon, <1>5, <1>7, <1>9, WrittenAppend DEF L
  <2>4. Written(dst') <= used'
    BY <1>3, <1>8, <2>1, <2>3
  <2>5. ret' = "error" => Written(d) + L > cap
    BY Zenon, <1>9, <1>10
  <2>6. ret' = "error" => cap < used'
    BY <1>3, <1>8, <2>1, <2>2, <2>5
  <2> QED
    BY Zenon, <1>2, <2>4, <2>6 DEF Fits, k
<1>17. Leading'
  <2> SUFFICES ASSUME SplitsAsForced(mode)
               PROVE  /\ ret' = "run" => \A i \in DOMAIN dst' : dst'[i].sep \in slashes(mode)
                      /\ ret' # "error" => Walk(mode, dst') = place' \/ Fronted'
    BY Zenon, <1>2 DEF Leading, SamePlace
  <2>1. ret' # "error" => Walk(mode, dst') = place' \/ Fronted'
    <3>1. DiskLetter(mode)' = DiskLetter(mode)
      BY Zenon, <1>2 DEF Has, DiskLetter
    <3>2. CASE ~Fronted /\ ~(Rest(name).add /\ Fronts(name, d))
      BY Zenon, <1>1, <1>5, <1>9, <3>2, StepLeads
    <3>3. CASE Fronted
      <4>1. place.root # "c:" /\ place \in Places /\ late /\ dst[1].name = "c:" /\ dst # <<>> /\ DiskLetter(mode)
        BY Zenon, <3>3 DEF Fronted, PathsInv, Types
      <4>2. ~first
        BY Zenon, <4>1 DEF PathsInv, Standing
      <4>3. place'.root # "c:"
        BY Zenon, <1>2, <4>1, <4>2, GoRoot
      <4>4. d # <<>>
        BY Zenon, <1>2, <3>3, FrontStays
      <4>5. d[1] = dst[1]
        BY Zenon, <1>3, <1>5, <1>6, <4>4, Heads
      <4>6. dst' # <<>> /\ dst'[1] = d[1]
        <5>1. Append(d, part) # <<>> /\ Append(d, part)[1] = d[1]
          BY Zenon, <1>5, <1>7, <4>4, Heads, EmptyCut
        <5>2. dst' = d \/ dst' = Append(d, part)
          BY Zenon, <1>9
        <5> QED
          BY Zenon, <4>4, <5>1, <5>2
      <4> QED
        BY Zenon, <1>2, <3>1, <4>1, <4>3, <4>5, <4>6 DEF Fronted
    <3>4. CASE Rest(name).add /\ Fronts(name, d)
      <4>1. name = "c:" /\ DiskLetter(mode) /\ ~first /\ d = <<>> /\ place.root # "c:" /\ place \in Places
        BY Zenon, <3>4 DEF Fronts, PathsInv, Types
      <4>2. place'.root # "c:"
        BY Zenon, <1>2, <4>1, GoRoot
      <4>3. Append(d, part) # <<>> /\ Append(d, part)[1] = part
        BY Zenon, <1>5, <1>7, <4>1, Heads, EmptyCut
      <4> QED
        BY Zenon, <1>2, <1>5, <1>9, <3>1, <3>4, <4>1, <4>2, <4>3 DEF Fronted
    <3> QED
      BY Zenon, <3>2, <3>3, <3>4
  <2>2. \A i \in DOMAIN d : d[i].sep \in slashes(mode)
    BY Zenon, <1>2, <1>7 DEF PathsInv, Leading
  <2>3. ASSUME ret' = "run", dst' = Append(d, part), sep # "" PROVE \A i \in DOMAIN dst' : dst'[i].sep \in slashes(mode)
    <3>1. part.sep \in slashes(mode)
      BY Zenon, <1>2, <1>5, <2>3, SepSplits
    <3>2. \A i \in DOMAIN Append(d, part) : Append(d, part)[i] = part \/ (i \in DOMAIN d /\ Append(d, part)[i] = d[i])
      BY <1>5, <1>7, AppendAt
    <3> QED
      BY Zenon, <2>2, <2>3, <3>1, <3>2
  <2>4. ret' = "run" => \A i \in DOMAIN dst' : dst'[i].sep \in slashes(mode)
    BY Zenon, <1>9, <1>10, <2>2, <2>3
  <2> QED
    BY Zenon, <2>1, <2>4
<1> QED
  BY Zenon, <1>13, <1>14, <1>15, <1>16, <1>17 DEF PathsInv

-----------------------------------------------------------------------------
(* Theorems                                                                *)

\* The state in which the loop is entered.
LEMMA Initially ==
  ASSUME Init
  PROVE  PathsInv
<1>1. mode \in Modes /\ cap \in Caps /\ dst = <<>> /\ used = 0 /\ ret = "run" /\ place = Start(mode)
      /\ simplify = Has(mode, "SIMPLE") /\ skip_disk = (DiskLetter(mode) /\ Has(mode, "SIMPLE"))
      /\ first = TRUE
  BY Zenon DEF Init
<1>2. <<>> \in Seq(Parts) /\ DOMAIN <<>> = {} /\ 0 \in Nat /\ ~(0 > 0) /\ 0 <= 0 /\ "run" # "error"
  OBVIOUS
<1>3. Written(dst) = 0 /\ Walk(mode, dst) = Start(mode)
  BY Zenon, <1>1, <1>2, WrittenIsNat, WalkType
<1>4. Types
  BY Zenon, <1>1, <1>2, StartType DEF Types
<1>5. Standing
  <2>1. (Has(mode, "SIMPLE") \/ used > 0) = Has(mode, "SIMPLE")
    <3>1. ~(used > 0)
      BY Zenon, <1>1, <1>2
    <3> QED
      BY <3>1 DEF Has
  <2> QED
    BY Zenon, <1>1, <2>1, Begins DEF Standing
<1>6. Normal
  BY Zenon, <1>1, <1>2 DEF Normal
<1>7. Fits
  BY Zenon, <1>1, <1>2, <1>3 DEF Fits, k
<1>8. Leading
  BY Zenon, <1>1, <1>2, <1>3 DEF Leading, SamePlace
<1> QED
  BY Zenon, <1>4, <1>5, <1>6, <1>7, <1>8 DEF PathsInv

\* The end of the function, and a function that has returned.
LEMMA StopKeeps ==
  ASSUME PathsInv, End \/ UNCHANGED vars
  PROVE  PathsInv'
<1>1. /\ mode' = mode /\ cap' = cap /\ dst' = dst /\ simplify' = simplify /\ skip_disk' = skip_disk
      /\ used' = used /\ place' = place /\ first' = first /\ late' = late
      /\ ret' = ret \/ (ret = "run" /\ ret' = "done")
  BY Zenon DEF End, vars
<1>2. "done" # "error" /\ "done" # "run" /\ "run" # "error"
  OBVIOUS
<1>3. Types'
  BY Zenon, <1>1 DEF PathsInv, Types
<1>4. Standing'
  BY Zenon, <1>1 DEF PathsInv, Standing
<1>5. Normal'
  BY Zenon, <1>1 DEF PathsInv, Normal
<1>6. Fits'
  BY Zenon, <1>1, <1>2 DEF PathsInv, Fits, k
<1>7. Leading'
  BY Zenon, <1>1, <1>2 DEF PathsInv, Leading, SamePlace, Fronted
<1> QED
  BY Zenon, <1>3, <1>4, <1>5, <1>6, <1>7 DEF PathsInv

\* The inductive invariant.
LEMMA PathsInvariant == Spec => []PathsInv
<1>1. Init => PathsInv
  BY Initially
<1>2. PathsInv /\ [Next]_vars => PathsInv'
  BY Zenon, StepKeeps, StopKeeps DEF Next, Finished
<1> QED
  BY <1>1, <1>2, PTL DEF Spec

\* Whatever the flags, the result of ffpath_normalize() is in normal form
\* after every iteration, for sources with a drive anywhere.
THEOREM ResultIsNormal == Spec => []Normal
<1>1. PathsInv => Normal
  BY Zenon DEF PathsInv
<1> QED
  BY <1>1, PathsInvariant, PTL

\* Whatever the flags, ffpath_normalize() never writes more than it has read
\* and fails only if the destination is smaller than what it has read.
THEOREM ResultFits == Spec => []Fits
<1>1. PathsInv => Fits
  BY Zenon DEF PathsInv
<1> QED
  BY <1>1, PathsInvariant, PTL

\* If slashes are only converted to slashes that the path is split by,
\* the result leads where the source leads, unless a later part has become
\* its drive.
THEOREM ResultLeadsThere ==
  ASSUME \A m \in Modes : SplitsAsForced(m)
  PROVE  Spec => []SamePlace
<1>1. PathsInv => SamePlace
  BY Zenon DEF PathsInv, Types, Leading
<1> QED
  BY <1>1, PathsInvariant, PTL
=============================================================================
