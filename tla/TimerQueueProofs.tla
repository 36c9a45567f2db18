-------------------------- MODULE TimerQueueProofs --------------------------
(***************************************************************************)
(* Proofs about TimerQueue.  Whatever the intervals and delays, the tree   *)
(* holds the active nodes.  The order of the tree, and what                *)
(* fftimerqueue_process() calls, rest on the keys: a key is the time at    *)
(* which the node expires, modulo 2^32, and any two active nodes expire    *)
(* within half of that of each other.                                      *)
(***************************************************************************)
EXTENDS TimerQueue, SequenceTheorems, TLAPS

\* The tree holds the active nodes.
QueueInv == TypeOK /\ ActiveIsQueued

\* An active node has the key of its time, and its time is near.
Near(n) ==
  /\ interval[n] \in life.intervals
  /\ key[n] = due[n] % Modulus
  /\ life.start <= due[n] /\ now <= due[n] + Lag /\ due[n] + Lag < now + Half

\* The clock, and the time that fftimerqueue_process() was called with.
Clock ==
  /\ life.start <= now /\ now <= life.end
  /\ pc # "app" => life.start <= pnow /\ pnow <= now /\ now <= pnow + Lag

\* What was called, and is in the queue still, is not due again.
CalledIsLater == pc # "app" => \A n \in called : active[n] => due[n] > pnow

TimeInv ==
  /\ QueueInv /\ Clock /\ CalledIsLater /\ InOrder
  /\ \A n \in Nodes : active[n] => Near(n)

\* A life with periodic timers does not go over the end of the 49 days: the
\* next key, the larger of two unsigned numbers, is wrong there.
NoPeriodAcross ==
  \A l \in Lives : (\E i \in l.intervals : i > 0) =>
    l.start \div Modulus = (l.end + Half) \div Modulus

-----------------------------------------------------------------------------
(* Arithmetic of keys                                                      *)

\* Half of the 32-bit clock is positive, and the clock has two halves.
LEMMA Constants == Half \in Nat \ {0} /\ Modulus \in Nat \ {0} /\ Modulus = 2 * Half /\ Lag \in Nat
BY TimerQueueAssumption DEF Modulus

\* Division with remainder.
LEMMA DivMod ==
  ASSUME NEW a \in Int
  PROVE  /\ (a \div Modulus) * Modulus + (a % Modulus) = a
         /\ a % Modulus \in 0..(Modulus - 1) /\ a \div Modulus \in Int
<1>1. Modulus \in Nat \ {0}
  BY Zenon, Constants
<1> HIDE DEF Modulus
<1> QED
  BY <1>1

\* The signed difference of two keys is the difference of the times, if they
\* are less than half of the period apart: the comparison of
\* _fftmrq_node_insert() and of fftimerqueue_process() "accounting for 32-bit
\* overflow".
LEMMA SignedDifference ==
  ASSUME NEW a \in Int, NEW b \in Int, -Half <= a - b, a - b < Half
  PROVE  Signed((a % Modulus) - (b % Modulus)) = a - b
<1> DEFINE M == Modulus
           p == a \div M
           q == b \div M
           d == (a % M) - (b % M)
<1>1. M \in Nat \ {0} /\ Half \in Nat \ {0} /\ M = 2 * Half
  BY Zenon, Constants
<1>2. p * M + (a % M) = a /\ a % M \in 0..(M - 1) /\ p \in Int
  BY Zenon, DivMod
<1>3. q * M + (b % M) = b /\ b % M \in 0..(M - 1) /\ q \in Int
  BY Zenon, DivMod
<1>4. d \in Int /\ -M < d /\ d < M
  BY <1>1, <1>2, <1>3
<1>5. (p - q) * M = p * M - q * M /\ p * M \in Int /\ q * M \in Int
  <2> HIDE DEF M, p, q
  <2> QED
    BY <1>1, <1>2, <1>3
<1>6. a - b = (p - q) * M + d
  <2> DEFINE r == a % M
             s == b % M
             x == p * M
             y == q * M
  <2>1. x + r = a /\ y + s = b /\ r \in Int /\ s \in Int /\ x \in Int /\ y \in Int
    BY <1>1, <1>2, <1>3, <1>5
  <2>2. (p - q) * M = x - y /\ d = r - s
    BY Zenon, <1>5
  <2> HIDE DEF r, s, x, y
  <2> QED
    BY <2>1, <2>2
<1> HIDE DEF M, p, q, d
<1>7. p - q >= 2 => (p - q) * M >= 2 * M
  BY <1>1, <1>2, <1>3
<1>8. p - q <= -2 => (p - q) * M <= -(2 * M)
  BY <1>1, <1>2, <1>3
<1>9. p - q \in {-1, 0, 1}
  BY <1>1, <1>2, <1>3, <1>4, <1>6, <1>7, <1>8
<1>10. a - b \in {d - M, d, d + M}
  BY <1>1, <1>4, <1>6, <1>9
<1>11. d >= 0 => d % M = d
  BY <1>1, <1>4
<1>12. d < 0 => d % M = d + M
  BY <1>1, <1>4
<1>13. Signed(d) = IF d % M < Half THEN d % M ELSE (d % M) - M
  BY Zenon DEF Signed, M
<1>14. Signed(d) = a - b
  BY <1>1, <1>4, <1>10, <1>11, <1>12, <1>13
<1> QED
  BY Zenon, <1>14 DEF d, M

\* Times of the same 49 days are ordered like their keys.
LEMMA SamePeriod ==
  ASSUME NEW a \in Int, NEW b \in Int, NEW x \in Int, a <= x, x <= b, a \div Modulus = b \div Modulus
  PROVE  x % Modulus = x - (a \div Modulus) * Modulus
<1> DEFINE M == Modulus
           p == a \div M
           q == x \div M
<1>1. M \in Nat \ {0}
  BY Zenon, Constants
<1>2. p * M + (a % M) = a /\ a % M \in 0..(M - 1) /\ p \in Int
  BY Zenon, DivMod
<1>3. q * M + (x % M) = x /\ x % M \in 0..(M - 1) /\ q \in Int
  BY Zenon, DivMod
<1>4. p * M + (b % M) = b /\ b % M \in 0..(M - 1)
  BY Zenon, DivMod
<1> HIDE DEF M, p, q
<1>5. (q - p) * M = q * M - p * M /\ p * M \in Int /\ q * M \in Int
  BY <1>1, <1>2, <1>3
<1>6. q - p >= 1 => (q - p) * M >= M
  BY <1>1, <1>2, <1>3
<1>7. q - p <= -1 => (q - p) * M <= -M
  BY <1>1, <1>2, <1>3
<1>8. q = p
  BY <1>1, <1>2, <1>3, <1>4, <1>5, <1>6, <1>7
<1>9. x % M = x - p * M
  BY <1>3, <1>5, <1>8
<1> QED
  BY Zenon, <1>9 DEF M, p

-----------------------------------------------------------------------------
(* Sequences                                                               *)

\* What is left of a queue without its i-th node.
LEMMA RemoveAtProperties ==
  ASSUME NEW q \in Seq(Nodes), NEW i \in 1..Len(q)
  PROVE  /\ RemoveAt(q, i) \in Seq(Nodes) /\ Len(RemoveAt(q, i)) = Len(q) - 1
         /\ \A j \in 1..(Len(q) - 1) : RemoveAt(q, i)[j] = IF j < i THEN q[j] ELSE q[j + 1]
<1>1. Len(q) \in Nat /\ \A j \in 1..Len(q) : q[j] \in Nodes
  BY Zenon, LenProperties, ElementOfSeq
<1> DEFINE s == SubSeq(q, 1, i - 1)
           t == SubSeq(q, i + 1, Len(q))
<1>2. s \in Seq(Nodes) /\ Len(s) = i - 1 /\ \A j \in 1..(i - 1) : s[j] = q[j]
  BY <1>1, SubSeqProperties
<1>3. t \in Seq(Nodes) /\ Len(t) = Len(q) - i /\ \A j \in 1..(Len(q) - i) : t[j] = q[i + j]
  BY <1>1, SubSeqProperties
<1>4. RemoveAt(q, i) = s \o t
  BY Zenon DEF RemoveAt
<1> HIDE DEF s, t
<1>5. /\ s \o t \in Seq(Nodes) /\ Len(s \o t) = Len(s) + Len(t)
      /\ \A j \in 1 .. Len(s) + Len(t) : (s \o t)[j] = IF j <= Len(s) THEN s[j] ELSE t[j - Len(s)]
  BY Zenon, <1>2, <1>3, ConcatProperties
<1> QED
  BY <1>1, <1>2, <1>3, <1>4, <1>5

\* A queue with a node at place i: the nodes from there on move up by one.
LEMMA InsertAtProperties ==
  ASSUME NEW q \in Seq(Nodes), NEW i \in 1..(Len(q) + 1), NEW n \in Nodes
  PROVE  /\ InsertAt(q, i, n) \in Seq(Nodes) /\ Len(InsertAt(q, i, n)) = Len(q) + 1
         /\ InsertAt(q, i, n)[i] = n
         /\ \A j \in 1..(Len(q) + 1) : j # i => InsertAt(q, i, n)[j] = IF j < i THEN q[j] ELSE q[j - 1]
<1>1. Len(q) \in Nat /\ \A j \in 1..Len(q) : q[j] \in Nodes
  BY Zenon, LenProperties, ElementOfSeq
<1> DEFINE s == SubSeq(q, 1, i - 1)
           t == SubSeq(q, i, Len(q))
           u == s \o <<n>>
<1>2. s \in Seq(Nodes) /\ Len(s) = i - 1 /\ \A j \in 1..(i - 1) : s[j] = q[j]
  BY <1>1, SubSeqProperties
<1>3. t \in Seq(Nodes) /\ Len(t) = Len(q) - i + 1 /\ \A j \in 1..(Len(q) - i + 1) : t[j] = q[i + j - 1]
  BY <1>1, SubSeqProperties
<1>4. InsertAt(q, i, n) = u \o t
  BY Zenon DEF InsertAt
<1> HIDE DEF s, t
<1>5. <<n>> \in Seq(Nodes) /\ Len(<<n>>) = 1 /\ <<n>>[1] = n
  OBVIOUS
<1>6. /\ u \in Seq(Nodes) /\ Len(u) = i
      /\ \A j \in 1..i : u[j] = IF j < i THEN q[j] ELSE n
  BY <1>1, <1>2, <1>5, ConcatProperties
<1> HIDE DEF u
<1>7. /\ u \o t \in Seq(Nodes) /\ Len(u \o t) = Len(u) + Len(t)
      /\ \A j \in 1 .. Len(u) + Len(t) : (u \o t)[j] = IF j <= Len(u) THEN u[j] ELSE t[j - Len(u)]
  BY Zenon, <1>3, <1>6, ConcatProperties
<1> QED
  BY <1>1, <1>3, <1>4, <1>6, <1>7

\* The queue q holds the nodes of S, once each; it is in the order of times d.
Holds(q, S)  == q \in Seq(Nodes) /\ IsInjective(q) /\ Range(q) = S
Sorted(q, d) == \A i, j \in 1..Len(q) : i < j => d[q[i]] <= d[q[j]]

\* What it is to hold the nodes, in terms of positions.
LEMMA HoldsIff ==
  ASSUME NEW q \in Seq(Nodes), NEW S
  PROVE  Holds(q, S) <=> /\ \A i, j \in 1..Len(q) : q[i] = q[j] => i = j
                         /\ \A i \in 1..Len(q) : q[i] \in S
                         /\ \A n \in S : \E i \in 1..Len(q) : q[i] = n
<1>1. DOMAIN q = 1..Len(q)
  BY Zenon, LenProperties
<1>2. IsInjective(q) <=> \A i, j \in 1..Len(q) : q[i] = q[j] => i = j
  BY Zenon, <1>1 DEF IsInjective
<1>3. Range(q) = {q[i] : i \in 1..Len(q)}
  BY Zenon, <1>1 DEF Range
<1>4. Range(q) = S <=> /\ \A i \in 1..Len(q) : q[i] \in S
                       /\ \A n \in S : \E i \in 1..Len(q) : q[i] = n
  BY Zenon, <1>3
<1> QED
  BY Zenon, <1>2, <1>4 DEF Holds

\* Removing a node.
LEMMA RemoveKeeps ==
  ASSUME NEW q, NEW S, Holds(q, S), NEW n \in Nodes, NEW r \in Removed(q, n)
  PROVE  /\ Holds(r, S \ {n})
         /\ \A d : Sorted(q, d) => Sorted(r, d)
<1>0. q \in Seq(Nodes) /\ Len(q) \in Nat
  BY Zenon, LenProperties DEF Holds
<1>1. PICK i \in 1..Len(q) : q[i] = n /\ r = RemoveAt(q, i)
  BY Zenon DEF Removed
<1>2. /\ r \in Seq(Nodes) /\ Len(r) = Len(q) - 1
      /\ \A j \in 1..(Len(q) - 1) : r[j] = IF j < i THEN q[j] ELSE q[j + 1]
  BY Zenon, <1>0, <1>1, RemoveAtProperties
<1>3. /\ \A j, k \in 1..Len(q) : q[j] = q[k] => j = k
      /\ \A j \in 1..Len(q) : q[j] \in S
      /\ \A m \in S : \E j \in 1..Len(q) : q[j] = m
  BY Zenon, <1>0, HoldsIff
<1>4. \A j, k \in 1..Len(r) : r[j] = r[k] => j = k
  <2> TAKE j, k \in 1..Len(r)
  <2> HAVE r[j] = r[k]
  <2>1. PICK a \in 1..Len(q) : r[j] = q[a] /\ a = IF j < i THEN j ELSE j + 1
    BY <1>0, <1>2
  <2>2. PICK b \in 1..Len(q) : r[k] = q[b] /\ b = IF k < i THEN k ELSE k + 1
    BY <1>0, <1>2
  <2>3. a = b
    BY Zenon, <1>3, <2>1, <2>2
  <2> QED
    BY <1>0, <1>2, <2>1, <2>2, <2>3
<1>5. \A j \in 1..Len(r) : r[j] \in S \ {n}
  <2> TAKE j \in 1..Len(r)
  <2>1. PICK a \in 1..Len(q) : r[j] = q[a] /\ a # i
    BY <1>0, <1>2
  <2> QED
    BY Zenon, <1>1, <1>3, <2>1
<1>6. ASSUME NEW m \in S \ {n} PROVE \E j \in 1..Len(r) : r[j] = m
  <2>1. PICK j \in 1..Len(q) : q[j] = m
    BY Zenon, <1>3
  <2>2. j # i
    BY Zenon, <1>1, <2>1
  <2>3. CASE j < i
    <3>1. j \in 1..Len(r) /\ r[j] = m
      BY <1>0, <1>2, <2>1, <2>3
    <3> QED
      BY Zenon, <3>1
  <2>4. CASE j > i
    <3>1. j - 1 \in 1..Len(r) /\ r[j - 1] = m
      BY <1>0, <1>2, <2>1, <2>4
    <3> QED
      BY Zenon, <3>1
  <2> QED
    BY <2>2, <2>3, <2>4
<1>7. Holds(r, S \ {n})
  BY Zenon, <1>2, <1>4, <1>5, <1>6, HoldsIff
<1>8. ASSUME NEW d, Sorted(q, d) PROVE Sorted(r, d)
  <2> SUFFICES ASSUME NEW j \in 1..Len(r), NEW k \in 1..Len(r), j < k
               PROVE  d[r[j]] <= d[r[k]]
    BY Zenon DEF Sorted
  <2> DEFINE o(l) == IF l < i THEN l ELSE l + 1
  <2>1. o(j) \in 1..Len(q) /\ o(k) \in 1..Len(q) /\ o(j) < o(k)
    BY <1>0, <1>2
  <2>2. r[j] = q[o(j)] /\ r[k] = q[o(k)]
    BY Zenon, <1>0, <1>2
  <2> QED
    BY Zenon, <1>8, <2>1, <2>2 DEF Sorted
<1> QED
  BY Zenon, <1>7, <1>8

\* Inserting a node between those that are due before it and after it.
LEMMA InsertKeeps ==
  ASSUME NEW q, NEW S, Holds(q, S), NEW n \in Nodes, n \notin S, NEW i \in 1..(Len(q) + 1)
  PROVE  /\ Holds(InsertAt(q, i, n), S \cup {n})
         /\ \A d \in [Nodes -> Int] :
              /\ Sorted(q, d)
              /\ i > 1 => d[q[i - 1]] <= d[n]
              /\ i <= Len(q) => d[n] <= d[q[i]]
              => Sorted(InsertAt(q, i, n), d)
<1> DEFINE r == InsertAt(q, i, n)
<1>0. q \in Seq(Nodes) /\ Len(q) \in Nat /\ \A j \in 1..Len(q) : q[j] \in Nodes
  BY Zenon, LenProperties, ElementOfSeq DEF Holds
<1>2. /\ r \in Seq(Nodes) /\ Len(r) = Len(q) + 1
      /\ r[i] = n
      /\ \A j \in 1..(Len(q) + 1) : j # i => r[j] = IF j < i THEN q[j] ELSE q[j - 1]
  BY ZenonT(60), <1>0, InsertAtProperties
<1>3. /\ \A j, k \in 1..Len(q) : q[j] = q[k] => j = k
      /\ \A j \in 1..Len(q) : q[j] \in S
      /\ \A m \in S : \E j \in 1..Len(q) : q[j] = m
  BY Zenon, <1>0, HoldsIff
<1> HIDE DEF r
<1> DEFINE o(l) == IF l < i THEN l ELSE l - 1
<1>9. \A j \in 1..Len(r) : j # i => o(j) \in 1..Len(q) /\ r[j] = q[o(j)]
  BY <1>0, <1>2
<1>10. \A j, k \in 1..Len(r) : j # i /\ k # i /\ j < k => o(j) < o(k)
  BY <1>0, <1>2
<1>11. i \in 1..Len(r) /\ r[i] = n
  BY Zenon, <1>0, <1>2
<1>4. \A j, k \in 1..Len(r) : r[j] = r[k] => j = k
  <2> SUFFICES ASSUME NEW j \in 1..Len(r), NEW k \in 1..Len(r), r[j] = r[k]
               PROVE  j = k
    BY Zenon
  <2>1. CASE j = i \/ k = i
    BY <1>3, <1>9, <1>11, <2>1
  <2>2. CASE j # i /\ k # i
    <3>1. o(j) = o(k)
      <4> HIDE DEF o
      <4>1. o(j) \in 1..Len(q) /\ r[j] = q[o(j)]
        BY Zenon, <1>9, <2>2
      <4>2. o(k) \in 1..Len(q) /\ r[k] = q[o(k)]
        BY Zenon, <1>9, <2>2
      <4>3. q[o(j)] = q[o(k)]
        BY Zenon, <4>1, <4>2
      <4> QED
        BY Zenon, <1>3, <4>1, <4>2, <4>3
    <3> QED
      BY <1>0, <2>2, <3>1
  <2> QED
    BY Zenon, <2>1, <2>2
<1>5. \A j \in 1..Len(r) : r[j] \in S \cup {n}
  <2> HIDE DEF o
  <2> QED
    BY Zenon, <1>3, <1>9, <1>11
<1>6. ASSUME NEW m \in S \cup {n} PROVE \E j \in 1..Len(r) : r[j] = m
  <2>1. CASE m = n
    BY Zenon, <1>0, <1>2, <2>1
  <2>2. CASE m \in S
    <3>1. PICK j \in 1..Len(q) : q[j] = m
      BY Zenon, <1>3, <2>2
    <3>2. CASE j < i
      BY <1>0, <1>2, <3>1, <3>2
    <3>3. CASE j >= i
      <4>1. j + 1 \in 1..Len(r) /\ r[j + 1] = m
        BY <1>0, <1>2, <3>1, <3>3
      <4> QED
        BY Zenon, <4>1
    <3> QED
      BY <3>2, <3>3
  <2> QED
    BY Zenon, <2>1, <2>2
<1>7. Holds(r, S \cup {n})
  BY Zenon, <1>2, <1>4, <1>5, <1>6, HoldsIff
<1>8. ASSUME NEW d \in [Nodes -> Int], Sorted(q, d),
             i > 1 => d[q[i - 1]] <= d[n], i <= Len(q) => d[n] <= d[q[i]]
      PROVE  Sorted(r, d)
  <2>1. \A j \in 1..Len(q) : d[q[j]] \in Int
    BY Zenon, <1>0
  <2>2. \A j \in 1..Len(q) : j < i => d[q[j]] <= d[n]
    <3> SUFFICES ASSUME NEW j \in 1..Len(q), j < i PROVE d[q[j]] <= d[n]
      BY Zenon
    <3>1. PICK k \in 1..Len(q) : k = i - 1 /\ j <= k /\ d[q[k]] <= d[n]
      BY <1>0, <1>8
    <3>2. j = k \/ d[q[j]] <= d[q[k]]
      BY <1>8, <3>1 DEF Sorted
    <3> QED
      BY <2>1, <3>1, <3>2
  <2>3. \A j \in 1..Len(q) : j >= i => d[n] <= d[q[j]]
    BY <1>0, <1>8, <2>1 DEF Sorted
  <2> SUFFICES ASSUME NEW j \in 1..Len(r), NEW k \in 1..Len(r), j < k
               PROVE  d[r[j]] <= d[r[k]]
    BY Zenon DEF Sorted
  <2>4. CASE j # i /\ k # i
    <3> HIDE DEF o
    <3>1. o(j) \in 1..Len(q) /\ o(k) \in 1..Len(q) /\ o(j) < o(k) /\ r[j] = q[o(j)] /\ r[k] = q[o(k)]
      BY Zenon, <1>9, <1>10, <2>4
    <3> QED
      BY Zenon, <1>8, <3>1 DEF Sorted
  <2>5. CASE k = i
    <3>1. j \in 1..Len(q) /\ j < i /\ r[j] = q[j]
      BY <1>0, <1>2, <2>5
    <3> QED
      BY Zenon, <1>11, <2>2, <2>5, <3>1
  <2>6. CASE j = i
    <3>1. k - 1 \in 1..Len(q) /\ k - 1 >= i /\ r[k] = q[k - 1]
      BY <1>0, <1>2, <2>6
    <3> QED
      BY Zenon, <1>11, <2>3, <2>6, <3>1
  <2> QED
    BY Zenon, <2>4, <2>5, <2>6
<1> QED
  BY Zenon, <1>7, <1>8 DEF r

\* The first node, and the queue without it.
LEMMA TailKeeps ==
  ASSUME NEW q, NEW S, Holds(q, S), q # << >>
  PROVE  /\ Head(q) \in S /\ Head(q) = q[1] /\ Len(q) >= 1 /\ Head(q) \in Nodes
         /\ Holds(Tail(q), S \ {Head(q)})
         /\ \A d : Sorted(q, d) => Sorted(Tail(q), d)
<1> DEFINE r == Tail(q)
<1>0. q \in Seq(Nodes) /\ Len(q) \in Nat \ {0}
  BY Zenon, LenProperties, EmptySeq DEF Holds
<1>1. Head(q) = q[1] /\ Head(q) \in Nodes
  BY <1>0, HeadTailProperties
<1>2. /\ r \in Seq(Nodes) /\ Len(r) = Len(q) - 1
      /\ \A j \in 1..(Len(q) - 1) : r[j] = q[j + 1]
  BY Zenon, <1>0, HeadTailProperties
<1>3. /\ \A j, k \in 1..Len(q) : q[j] = q[k] => j = k
      /\ \A j \in 1..Len(q) : q[j] \in S
      /\ \A m \in S : \E j \in 1..Len(q) : q[j] = m
  BY Zenon, <1>0, HoldsIff
<1> HIDE DEF r
<1>4. \A j, k \in 1..Len(r) : r[j] = r[k] => j = k
  BY <1>0, <1>2, <1>3
<1>5. \A j \in 1..Len(r) : r[j] \in S \ {Head(q)}
  BY <1>0, <1>1, <1>2, <1>3
<1>6. ASSUME NEW m \in S \ {Head(q)} PROVE \E j \in 1..Len(r) : r[j] = m
  <2>1. PICK j \in 1..Len(q) : q[j] = m
    BY Zenon, <1>3
  <2>2. j - 1 \in 1..Len(r) /\ r[j - 1] = m
    BY <1>0, <1>1, <1>2, <2>1
  <2> QED
    BY Zenon, <2>2
<1>7. Holds(r, S \ {Head(q)})
  BY Zenon, <1>2, <1>4, <1>5, <1>6, HoldsIff
<1>8. ASSUME NEW d, Sorted(q, d) PROVE Sorted(r, d)
  BY <1>0, <1>2, <1>8 DEF Sorted
<1> QED
  BY <1>0, <1>1, <1>3, <1>7, <1>8 DEF r

-----------------------------------------------------------------------------
(* The tree holds the active nodes                                         *)

Active == {n \in Nodes : active[n]}

\* QueueInv in terms of what the queue holds.
LEMMA QueueInvIff == QueueInv <=> TypeOK /\ Holds(queue, Active)
BY Zenon DEF QueueInv, ActiveIsQueued, Holds, Active, TypeOK

\* The types of what the actions compute.
LEMMA ComputedTypes ==
  ASSUME TypeOK
  PROVE  /\ life.intervals \subseteq Int /\ life.start \in Nat /\ life.end \in Nat
         /\ \A i \in Int : Abs(i) \in Nat /\ KeyOf(i) \in 0..(Modulus - 1)
         /\ \A k, i \in Int : NextKey(k, i) \in 0..(Modulus - 1)
<1>1. /\ life.intervals \subseteq Int /\ life.start \in Nat /\ life.end \in Nat
  BY Zenon, TimerQueueAssumption DEF TypeOK
<1>2. \A i \in Int : Abs(i) \in Nat
  BY DEF Abs
<1>3. ASSUME NEW i \in Int PROVE KeyOf(i) \in 0..(Modulus - 1)
  <2>1. now + Abs(i) \in Int
    BY <1>2 DEF TypeOK
  <2> QED
    BY Zenon, <2>1, DivMod DEF KeyOf
<1>4. ASSUME NEW k \in Int, NEW i \in Int PROVE NextKey(k, i) \in 0..(Modulus - 1)
  <2>1. (k + i) % Modulus \in 0..(Modulus - 1) /\ (pnow + 1) % Modulus \in 0..(Modulus - 1)
    <3>1. k + i \in Int /\ pnow + 1 \in Int
      BY DEF TypeOK
    <3> QED
      BY Zenon, <3>1, DivMod
  <2> QED
    BY Zenon, <2>1 DEF NextKey, Larger
<1> QED
  BY Zenon, <1>1, <1>2, <1>3, <1>4

\* A node that is inserted joins those that are there.
LEMMA InsertedHolds ==
  ASSUME NEW q, NEW S, Holds(q, S), NEW n \in Nodes, n \notin S, NEW k, NEW r \in Inserted(q, n, k)
  PROVE  Holds(r, S \cup {n})
<1>1. PICK i \in 1..(Len(q) + 1) : r = InsertAt(q, i, n)
  BY Zenon DEF Inserted
<1> QED
  BY Zenon, <1>1, InsertKeeps

\* The queue without the node that fftimerqueue_add() is called with.
LEMMA ReAdded ==
  ASSUME Holds(queue, Active), NEW n \in Nodes, NEW q \in IF active[n] THEN Removed(queue, n) ELSE {queue}
  PROVE  /\ Holds(q, Active \ {n})
         /\ \A d : Sorted(queue, d) => Sorted(q, d)
<1>1. CASE active[n]
  BY Zenon, <1>1, RemoveKeeps
<1>2. CASE ~active[n]
  <2>1. q = queue /\ Active \ {n} = Active
    BY Zenon, <1>2 DEF Active
  <2> QED
    BY Zenon, <2>1
<1> QED
  BY Zenon, <1>1, <1>2

\* Every step keeps the active nodes in the tree, each once, and no other.
LEMMA QueueStep ==
  ASSUME QueueInv, [Next]_vars
  PROVE  QueueInv'
<1> USE DEF nodeVars, vars
<1>0. TypeOK /\ Holds(queue, Active)
  BY Zenon, QueueInvIff
<1>a. (TypeOK /\ Holds(queue, Active))' => QueueInv'
  BY QueueInvIff, PTL
<1>b. queue \in Seq(Nodes)
  BY Zenon, <1>0 DEF TypeOK
<1>1. ASSUME NEW n \in Nodes, RemoveNode(n) PROVE QueueInv'
  <2>1. active' \in [Nodes -> BOOLEAN] /\ Active' = Active \ {n}
    BY Zenon, <1>0, <1>1 DEF RemoveNode, TypeOK, Active
  <2>2. Holds(queue', Active \ {n})
    BY Zenon, <1>0, <1>1, RemoveKeeps DEF RemoveNode
  <2>3. TypeOK'
    BY Zenon, <1>0, <1>1, <2>1, <2>2 DEF RemoveNode, TypeOK, Holds
  <2> QED
    BY Zenon, <1>a, <2>1, <2>2, <2>3 DEF Holds
<1>2. ASSUME NEW n \in Nodes, AddNode(n) PROVE QueueInv'
  <2>1. active' = active /\ Active' = Active /\ n \in Active
    BY Zenon, <1>0, <1>2 DEF AddNode, Active
  <2>2. PICK q \in Removed(queue, n) : queue' \in Inserted(q, n, key[n])
    BY Zenon, <1>2 DEF AddNode
  <2>3. Holds(q, Active \ {n})
    BY Zenon, <1>0, <2>2, RemoveKeeps
  <2>4. Holds(queue', (Active \ {n}) \cup {n})
    BY Zenon, <2>2, <2>3, InsertedHolds
  <2>5. (Active \ {n}) \cup {n} = Active'
    BY Zenon, <2>1
  <2>6. TypeOK'
    BY Zenon, <1>0, <1>2, <2>4 DEF AddNode, TypeOK, Holds
  <2> QED
    BY Zenon, <1>a, <2>4, <2>5, <2>6 DEF Holds
<1>3. ASSUME NEW n \in Nodes, NEW i \in life.intervals, Add(n, i) PROVE QueueInv'
  <2>1. active' \in [Nodes -> BOOLEAN] /\ Active' = (Active \ {n}) \cup {n}
    BY <1>0, <1>3 DEF Add, TypeOK, Active
  <2>2. PICK q \in IF active[n] THEN Removed(queue, n) ELSE {queue} : queue' \in Inserted(q, n, KeyOf(i))
    BY Zenon, <1>3 DEF Add
  <2>3. Holds(q, Active \ {n})
    BY Zenon, <1>0, <2>2, ReAdded
  <2>4. Holds(queue', (Active \ {n}) \cup {n})
    BY Zenon, <2>2, <2>3, InsertedHolds
  <2>5. i \in Int /\ Abs(i) \in Nat /\ KeyOf(i) \in 0..(Modulus - 1)
    BY Zenon, <1>0, ComputedTypes
  <2>6. now + Abs(i) \in Nat
    BY <1>0, <2>5 DEF TypeOK
  <2>7. key' \in [Nodes -> 0..(Modulus - 1)] /\ due' \in [Nodes -> Nat]
    BY Zenon, <1>0, <1>3, <2>5, <2>6 DEF Add, TypeOK
  <2>8. interval' \in [Nodes -> life.intervals \cup {0}] /\ called' \subseteq Nodes
    BY Zenon, <1>0, <1>3 DEF Add, TypeOK
  <2>9. TypeOK'
    BY ZenonT(60), <1>0, <1>3, <2>1, <2>4, <2>7, <2>8 DEF Add, TypeOK, Holds
  <2> QED
    BY Zenon, <1>a, <2>1, <2>4, <2>9 DEF Holds
<1>4. CASE ProcessStart
  BY Zenon, <1>0, <1>4, <1>a DEF ProcessStart, TypeOK, Holds, Active
<1>5. CASE FireOneShot
  <2> DEFINE n == Head(queue)
  <2>1. n \in Active /\ n \in Nodes /\ Holds(Tail(queue), Active \ {n})
    BY Zenon, <1>0, <1>5, TailKeeps DEF FireOneShot
  <2>2. active' \in [Nodes -> BOOLEAN] /\ Active' = Active \ {n}
    BY Zenon, <1>0, <1>5, <2>1 DEF FireOneShot, TypeOK, Active
  <2>3. called' \subseteq Nodes
    BY Zenon, <1>0, <1>5, <2>1 DEF FireOneShot, TypeOK
  <2>4. TypeOK'
    BY Zenon, <1>0, <1>5, <2>1, <2>2, <2>3 DEF FireOneShot, TypeOK, Holds
  <2> QED
    BY Zenon, <1>5, <1>a, <2>1, <2>2, <2>4 DEF FireOneShot, Holds
<1>6. CASE FirePeriodic
  <2> DEFINE n == Head(queue)
             k == NextKey(key[n], interval[n])
  <2>1. n \in Active /\ n \in Nodes /\ Holds(Tail(queue), Active \ {n})
    BY Zenon, <1>0, <1>6, TailKeeps DEF FirePeriodic
  <2>2. queue' \in Inserted(Tail(queue), n, k) /\ active' = active
    BY Zenon, <1>6 DEF FirePeriodic
  <2>3. Holds(queue', (Active \ {n}) \cup {n})
    <3> HIDE DEF n, k
    <3> QED
      BY Zenon, <2>1, <2>2, InsertedHolds
  <2>4. (Active \ {n}) \cup {n} = Active'
    BY Zenon, <2>1, <2>2 DEF Active
  <2>5. key[n] \in Int /\ interval[n] \in Int /\ due[n] \in Nat /\ pnow \in Nat /\ interval[n] > 0
    <3>1. interval[n] > 0
      BY Zenon, <1>6 DEF FirePeriodic
    <3>2. key[n] \in 0..(Modulus - 1) /\ due[n] \in Nat /\ pnow \in Nat
      BY Zenon, <1>0, <2>1 DEF TypeOK
    <3>3. interval[n] \in life.intervals \cup {0} /\ life.intervals \subseteq Int
      BY Zenon, <1>0, <2>1, ComputedTypes DEF TypeOK
    <3> QED
      BY <3>1, <3>2, <3>3
  <2>6. k \in 0..(Modulus - 1)
    BY Zenon, <1>0, <2>5, ComputedTypes
  <2>7. Larger(due[n] + interval[n], pnow + 1) \in Nat
    BY <2>5 DEF Larger
  <2>8. key' \in [Nodes -> 0..(Modulus - 1)] /\ due' \in [Nodes -> Nat] /\ called' \subseteq Nodes
    BY ZenonT(60), <1>0, <1>6, <2>1, <2>6, <2>7 DEF FirePeriodic, TypeOK
  <2>9. TypeOK'
    BY Zenon, <1>0, <1>6, <2>3, <2>8 DEF FirePeriodic, TypeOK, Holds
  <2> QED
    BY Zenon, <1>a, <2>3, <2>4, <2>9 DEF Holds
<1>7. CASE CallbackReturn
  BY Zenon, <1>0, <1>7, <1>a DEF CallbackReturn, TypeOK, Holds, Active
<1>8. CASE ProcessReturn
  BY Zenon, <1>0, <1>8, <1>a DEF ProcessReturn, TypeOK, Holds, Active
<1>9. CASE Tick
  BY <1>0, <1>9, <1>a DEF Tick, TypeOK, Holds, Active
<1>10. CASE UNCHANGED vars
  BY Zenon, <1>0, <1>10, <1>a DEF TypeOK, Holds, Active
<1> QED
  BY ZenonT(60), <1>0, <1>1, <1>2, <1>3, <1>4, <1>5, <1>6, <1>7, <1>8, <1>9, <1>10 DEF Next

\* Init with an empty tree and no active node.
LEMMA QueueInit ==
  ASSUME Init
  PROVE  QueueInv
<1>1. TypeOK
  BY Constants, TimerQueueAssumption DEF Init, TypeOK
<1>2. queue = << >> /\ Active = {}
  BY Zenon DEF Init, Active
<1>3. << >> \in Seq(Nodes) /\ 1..Len(<< >>) = {}
  OBVIOUS
<1>4. Holds(<< >>, {})
  BY Zenon, <1>3, HoldsIff
<1> QED
  BY Zenon, <1>1, <1>2, <1>4, QueueInvIff

\* The variables keep their types, and the tree holds exactly the active nodes,
\* for any nodes, intervals and delays.
THEOREM QueueInvariant == Spec => []QueueInv
<1>1. Init => QueueInv
  BY Zenon, QueueInit
<1>2. QueueInv /\ [Next]_vars => QueueInv'
  BY Zenon, QueueStep
<1> QED
  BY <1>1, <1>2, PTL DEF Spec

-----------------------------------------------------------------------------
(* Time                                                                    *)

\* Adding to a key, in unsigned arithmetic, is adding to the time.
LEMMA KeyPlus ==
  ASSUME NEW a \in Int, NEW i \in Int
  PROVE  ((a % Modulus) + i) % Modulus = (a + i) % Modulus
<1> DEFINE M == Modulus
           p == (a + i) \div M
           q == a \div M
           r == (a + i) % M
<1>1. M \in Nat \ {0}
  BY Zenon, Constants
<1>2. q * M + (a % M) = a /\ a % M \in 0..(M - 1) /\ q \in Int
  BY Zenon, DivMod
<1>3. p * M + r = a + i /\ r \in 0..(M - 1) /\ p \in Int
  BY DivMod
<1>4. (p - q) * M = p * M - q * M /\ p * M \in Int /\ q * M \in Int /\ p - q \in Int
  <2> HIDE DEF M, p, q
  <2> QED
    BY <1>1, <1>2, <1>3
<1>5. (a % M) + i = (p - q) * M + r
  <2> DEFINE s == a % M
             x == p * M
             y == q * M
  <2>1. y + s = a /\ x + r = a + i /\ r \in Int /\ s \in Int /\ x \in Int /\ y \in Int
    BY <1>1, <1>2, <1>3, <1>4
  <2>2. (p - q) * M = x - y
    BY Zenon, <1>4
  <2> HIDE DEF r, s, x, y
  <2>3. s + i = (x - y) + r
    BY <2>1
  <2> QED
    BY Zenon, <2>2, <2>3 DEF s
<1>6. \A u \in Int : (u * M + r) % M = r
  <2> HIDE DEF M, r
  <2> QED
    BY <1>1, <1>3
<1>7. ((p - q) * M + r) % M = r
  <2> HIDE DEF M, r, p, q
  <2> QED
    BY Zenon, <1>4, <1>6
<1> QED
  BY Zenon, <1>5, <1>7

\* Times that are near now: overdue by no more than Lag, less than half of the
\* period ahead.
Window(x) == now <= x + Lag /\ x + Lag < now + Half

\* Keys of such times compare like the times.
LEMMA WindowOrder ==
  ASSUME now \in Nat, NEW x \in Nat, NEW y \in Nat, Window(x), Window(y)
  PROVE  Precedes(x % Modulus, y % Modulus) <=> x < y
<1>1. Half \in Nat /\ Lag \in Nat
  BY Zenon, Constants
<1>2. -Half <= x - y /\ x - y < Half
  BY <1>1 DEF Window
<1>3. Signed((x % Modulus) - (y % Modulus)) = x - y
  BY <1>2, SignedDifference
<1> QED
  BY <1>3 DEF Precedes

\* The descent of _fftmrq_node_insert() ends between the nodes that are due
\* before and after.
LEMMA InsertedSorted ==
  ASSUME now \in Nat, NEW q, NEW S, S \subseteq Nodes, Holds(q, S), NEW n \in Nodes, n \notin S,
         NEW d \in [Nodes -> Nat], Sorted(q, d),
         \A m \in S : key[m] = d[m] % Modulus /\ Window(d[m]),
         Window(d[n]), NEW r \in Inserted(q, n, d[n] % Modulus)
  PROVE  Sorted(r, d)
<1>0. q \in Seq(Nodes) /\ Len(q) \in Nat
  BY Zenon, LenProperties DEF Holds
<1>1. \A j \in 1..Len(q) : q[j] \in S
  BY Zenon, <1>0, HoldsIff
<1>2. PICK i \in 1..(Len(q) + 1) :
        /\ r = InsertAt(q, i, n)
        /\ i > 1 => ~Precedes(d[n] % Modulus, key[q[i - 1]])
        /\ i <= Len(q) => Precedes(d[n] % Modulus, key[q[i]])
  BY Zenon DEF Inserted
<1>3. \A m \in S : Precedes(d[n] % Modulus, key[m]) <=> d[n] < d[m]
  BY Zenon, WindowOrder
<1>4. i > 1 => d[q[i - 1]] <= d[n]
  <2> SUFFICES ASSUME i > 1 PROVE d[q[i - 1]] <= d[n]
    BY Zenon
  <2>1. q[i - 1] \in S
    BY SMTT(30), <1>0, <1>1
  <2> QED
    BY SMTT(30), <1>2, <1>3, <2>1
<1>5. i <= Len(q) => d[n] <= d[q[i]]
  <2> SUFFICES ASSUME i <= Len(q) PROVE d[n] <= d[q[i]]
    BY Zenon
  <2>1. q[i] \in S
    BY <1>0, <1>1
  <2> QED
    BY SMTT(30), <1>2, <1>3, <2>1
<1>6. d \in [Nodes -> Int]
  OBVIOUS
<1> QED
  BY ZenonT(60), <1>2, <1>4, <1>5, <1>6, InsertKeeps

\* InOrder in terms of the queue and the times its nodes are due.
LEMMA InOrderIff ==
  ASSUME queue \in Seq(Nodes)
  PROVE  InOrder <=> Sorted(queue, due)
BY Zenon, LenProperties DEF InOrder, Sorted

\* What TimeInv says of an active node, and of the constants.
LEMMA NearFacts ==
  ASSUME TimeInv, NEW n \in Nodes, active[n]
  PROVE  /\ Window(due[n]) /\ key[n] = due[n] % Modulus /\ life.start <= due[n]
         /\ due[n] \in Nat /\ now \in Nat /\ pnow \in Nat /\ Lag \in Nat /\ Half \in Nat \ {0}
         /\ interval[n] \in life.intervals /\ interval[n] \in Int /\ Abs(interval[n]) + Lag < Half
         /\ life.start \in Nat /\ life.end \in Nat
BY Zenon, TimerQueueAssumption DEF TimeInv, QueueInv, TypeOK, Near, Window

\* fftimerqueue_process() takes a node exactly when it is due.
LEMMA ExpiredIff ==
  ASSUME TimeInv, pc # "app", NEW n \in Nodes, active[n]
  PROVE  Expired(key[n]) <=> due[n] <= pnow
<1>1. /\ now <= due[n] + Lag /\ due[n] + Lag < now + Half /\ key[n] = due[n] % Modulus
      /\ due[n] \in Nat /\ now \in Nat /\ pnow \in Nat /\ Lag \in Nat /\ Half \in Nat \ {0} /\ Lag < Half
  BY NearFacts DEF Window, Abs
<1>2. pnow <= now /\ now <= pnow + Lag
  BY Zenon DEF TimeInv, Clock
<1>3. -Half <= due[n] - pnow /\ due[n] - pnow < Half
  BY <1>1, <1>2
<1>4. Signed((due[n] % Modulus) - (pnow % Modulus)) = due[n] - pnow
  BY SMTT(30), <1>1, <1>3, SignedDifference
<1> QED
  BY <1>1, <1>4 DEF Expired

\* The next key of a periodic node is the key of its next time.
LEMMA NextKeyIsNextTime ==
  ASSUME NoPeriodAcross, TimeInv, pc # "app", NEW n \in Nodes, active[n], due[n] <= pnow, interval[n] > 0,
         NEW next, next = Larger(due[n] + interval[n], pnow + 1)
  PROVE  /\ NextKey(key[n], interval[n]) = next % Modulus
         /\ next \in Nat /\ Window(next) /\ life.start <= next /\ next > pnow
<1> DEFINE i == interval[n]
           a == life.start
           b == life.end + Half
           x == due[n] + i
           y == pnow + 1
<1>1. /\ Window(due[n]) /\ key[n] = due[n] % Modulus /\ life.start <= due[n]
      /\ due[n] \in Nat /\ now \in Nat /\ pnow \in Nat /\ Lag \in Nat /\ Half \in Nat \ {0}
      /\ i \in life.intervals /\ i \in Int /\ Abs(i) + Lag < Half /\ life.start \in Nat /\ life.end \in Nat
  BY Zenon, NearFacts
<1>2. i > 0 /\ i + Lag < Half
  BY <1>1 DEF Abs
<1>3. life.start <= pnow /\ pnow <= now /\ now <= pnow + Lag /\ now <= life.end
  BY Zenon DEF TimeInv, Clock
<1>4. x \in Int /\ a <= x /\ x <= b /\ y \in Int /\ a <= y /\ y <= b /\ a \in Int /\ b \in Int
  BY SMTT(30), <1>1, <1>2, <1>3
<1>5. a \div Modulus = b \div Modulus
  <2>1. life \in Lives
    BY Zenon DEF TimeInv, QueueInv, TypeOK
  <2> QED
    BY Zenon, <1>1, <1>2, <2>1 DEF NoPeriodAcross
<1>6. /\ x % Modulus = x - (a \div Modulus) * Modulus
      /\ y % Modulus = y - (a \div Modulus) * Modulus
  <2> HIDE DEF x, y, a, b
  <2> QED
    BY Zenon, <1>4, <1>5, SamePeriod
<1>7. (key[n] + i) % Modulus = x % Modulus
  <2> DEFINE d == due[n]
  <2>1. d \in Int /\ i \in Int
    BY <1>1
  <2>2. key[n] + i = (d % Modulus) + i /\ x = d + i
    BY Zenon, <1>1
  <2> HIDE DEF d, i, x
  <2>3. ((d % Modulus) + i) % Modulus = (d + i) % Modulus
    BY Zenon, <2>1, KeyPlus
  <2> QED
    BY Zenon, <2>2, <2>3
<1>8. NextKey(key[n], i) = Larger(x % Modulus, y % Modulus)
  BY Zenon, <1>7 DEF NextKey
<1>9. Larger(x % Modulus, y % Modulus) = Larger(x, y) % Modulus
  <2> DEFINE e == (a \div Modulus) * Modulus
  <2>1. e \in Int
    <3> HIDE DEF a
    <3>1. a \div Modulus \in Int /\ Modulus \in Int
      BY <1>4, DivMod, Constants
    <3> HIDE DEF Modulus
    <3> QED
      BY <3>1
  <2>2. x % Modulus = x - e /\ y % Modulus = y - e
    BY Zenon, <1>6
  <2> HIDE DEF e, x, y
  <2>3. x % Modulus > y % Modulus <=> x > y
    BY <1>4, <2>1, <2>2
  <2> QED
    BY Zenon, <2>3 DEF Larger
<1>10. next = Larger(x, y)
  BY Zenon
<1>11. next = x \/ next = y
  BY Zenon, <1>10 DEF Larger
<1>12. next >= y /\ next >= x /\ next \in Nat
  BY SMTT(30), <1>1, <1>2, <1>10 DEF Larger
<1>13. Window(next)
  BY SMTT(30), <1>1, <1>2, <1>3, <1>11, <1>12 DEF Window
<1> QED
  BY SMTT(30), <1>1, <1>3, <1>8, <1>9, <1>10, <1>12, <1>13

\* Nodes that are not touched stay near as long as the clock stands.
LEMMA StaysNear ==
  ASSUME TimeInv, NEW m \in Nodes, active[m], UNCHANGED <<life, now>>,
         interval'[m] = interval[m], key'[m] = key[m], due'[m] = due[m]
  PROVE  Near(m)'
BY Zenon DEF TimeInv, Near

\* The order of the tree does not depend on the times of nodes outside of it.
LEMMA SortedElsewhere ==
  ASSUME NEW q, NEW S, Holds(q, S), NEW d, NEW e, \A m \in S : e[m] = d[m], Sorted(q, d)
  PROVE  Sorted(q, e)
<1>1. q \in Seq(Nodes)
  BY Zenon DEF Holds
<1>2. \A j \in 1..Len(q) : q[j] \in S
  BY Zenon, <1>1, HoldsIff
<1> QED
  BY Zenon, <1>2 DEF Sorted

\* No operation, callback or tick of the clock breaks the order in time.
LEMMA TimeStep ==
  ASSUME NoPeriodAcross, TimeInv, [Next]_vars
  PROVE  TimeInv'
<1> USE DEF nodeVars, vars
<1>0. /\ QueueInv /\ QueueInv' /\ TypeOK /\ TypeOK'
      /\ Holds(queue, Active) /\ queue \in Seq(Nodes) /\ queue' \in Seq(Nodes)
      /\ Sorted(queue, due) /\ Clock /\ CalledIsLater
  <2>1. QueueInv /\ QueueInv'
    BY Zenon, QueueStep DEF TimeInv
  <2>2. TypeOK /\ TypeOK' /\ queue \in Seq(Nodes) /\ queue' \in Seq(Nodes)
    BY Zenon, <2>1 DEF QueueInv, TypeOK
  <2> QED
    BY Zenon, <2>1, <2>2, QueueInvIff, InOrderIff DEF TimeInv
<1>a. ASSUME Clock', CalledIsLater', Sorted(queue', due'), \A m \in Nodes : active'[m] => Near(m)'
      PROVE  TimeInv'
  <2>1. InOrder'
    BY Zenon, <1>0, <1>a, LenProperties DEF InOrder, Sorted
  <2> QED
    BY Zenon, <1>0, <1>a, <2>1 DEF TimeInv
<1>b. now \in Nat /\ pnow \in Nat /\ due \in [Nodes -> Nat] /\ due' \in [Nodes -> Nat]
      /\ active \in [Nodes -> BOOLEAN] /\ key \in [Nodes -> 0..(Modulus - 1)]
      /\ interval \in [Nodes -> life.intervals \cup {0}] /\ called \subseteq Nodes
  BY Zenon, <1>0 DEF TypeOK
<1>1. ASSUME NEW n \in Nodes, RemoveNode(n) PROVE TimeInv'
  <2>1. UNCHANGED <<life, now, key, interval, due, pc, pnow, called>>
    BY Zenon, <1>1 DEF RemoveNode
  <2>2. \A m \in Nodes : active'[m] => active[m]
    BY Zenon, <1>1, <1>b DEF RemoveNode
  <2>3. Sorted(queue', due')
    BY Zenon, <1>0, <1>1, <2>1, RemoveKeeps DEF RemoveNode
  <2>4. Clock'
    BY Zenon, <1>0, <2>1 DEF Clock
  <2>5. CalledIsLater'
    BY Zenon, <1>0, <1>b, <2>1, <2>2 DEF CalledIsLater
  <2>6. \A m \in Nodes : active'[m] => Near(m)'
    BY Zenon, <2>1, <2>2, StaysNear
  <2> QED
    BY Zenon, <1>a, <2>3, <2>4, <2>5, <2>6
<1>2. ASSUME NEW n \in Nodes, AddNode(n) PROVE TimeInv'
  <2>1. UNCHANGED <<life, now, key, interval, active, due, pc, pnow>> /\ called' = called \ {n} /\ active[n]
    BY Zenon, <1>2 DEF AddNode
  <2>2. PICK q \in Removed(queue, n) : queue' \in Inserted(q, n, key[n])
    BY Zenon, <1>2 DEF AddNode
  <2>3. Holds(q, Active \ {n}) /\ Sorted(q, due)
    BY Zenon, <1>0, <2>2, RemoveKeeps
  <2>4. \A m \in Active \ {n} : key[m] = due[m] % Modulus /\ Window(due[m])
    BY Zenon, NearFacts DEF Active
  <2>5. Window(due[n]) /\ key[n] = due[n] % Modulus
    BY Zenon, <2>1, NearFacts
  <2>6. Sorted(queue', due')
    <3>1. Active \ {n} \subseteq Nodes /\ n \notin Active \ {n}
      BY Zenon DEF Active
    <3>2. queue' \in Inserted(q, n, due[n] % Modulus)
      BY Zenon, <2>2, <2>5
    <3>3. Sorted(queue', due)
      BY ZenonT(60), <1>b, <2>3, <2>4, <2>5, <3>1, <3>2, InsertedSorted
    <3> QED
      BY Zenon, <2>1, <3>3
  <2>7. Clock'
    BY Zenon, <1>0, <2>1 DEF Clock
  <2>8. CalledIsLater'
    BY Zenon, <1>0, <2>1 DEF CalledIsLater
  <2>9. \A m \in Nodes : active'[m] => Near(m)'
    BY Zenon, <2>1, StaysNear
  <2> QED
    BY Zenon, <1>a, <2>6, <2>7, <2>8, <2>9
<1>3. ASSUME NEW n \in Nodes, NEW i \in life.intervals, Add(n, i) PROVE TimeInv'
  <2>1. UNCHANGED <<life, now, pc, pnow>> /\ called' = called \ {n}
    BY Zenon, <1>3 DEF Add
  <2>2. /\ interval'[n] = i /\ key'[n] = (now + Abs(i)) % Modulus /\ due'[n] = now + Abs(i)
        /\ \A m \in Nodes : m # n => /\ interval'[m] = interval[m] /\ key'[m] = key[m] /\ due'[m] = due[m]
                                     /\ active'[m] = active[m]
    BY Zenon, <1>3, <1>b DEF Add, KeyOf
  <2>3. i \in Int /\ Abs(i) \in Nat /\ Abs(i) + Lag < Half /\ Lag \in Nat /\ Half \in Nat
    <3>1. i \in Int /\ Abs(i) \in Nat
      BY Zenon, <1>0, ComputedTypes
    <3>2. Abs(i) + Lag < Half /\ Lag \in Nat /\ Half \in Nat
      BY Zenon, <1>0, TimerQueueAssumption DEF TypeOK
    <3> QED
      BY Zenon, <3>1, <3>2
  <2>4. Window(due'[n]) /\ life.start <= due'[n]
    <3> DEFINE d == Abs(i)
    <3>1. life.start \in Nat /\ life.start <= now /\ due'[n] = now + d
      BY Zenon, <1>0, <2>2, ComputedTypes DEF Clock
    <3>2. d \in Nat /\ d + Lag < Half
      BY Zenon, <2>3
    <3> HIDE DEF d
    <3> QED
      BY SMTT(30), <1>b, <2>3, <3>1, <3>2 DEF Window
  <2>5. PICK q \in IF active[n] THEN Removed(queue, n) ELSE {queue} :
               queue' \in Inserted(q, n, due'[n] % Modulus)
    BY Zenon, <1>3, <2>2 DEF Add, KeyOf
  <2>6. Holds(q, Active \ {n}) /\ Sorted(q, due)
    BY Zenon, <1>0, <2>5, ReAdded
  <2>7. Active \ {n} \subseteq Nodes /\ n \notin Active \ {n}
    BY Zenon DEF Active
  <2>8. Sorted(q, due')
    <3>1. \A m \in Active \ {n} : due'[m] = due[m]
      BY Zenon, <2>2, <2>7
    <3> QED
      BY Zenon, <2>6, <3>1, SortedElsewhere
  <2>9. \A m \in Active \ {n} : key[m] = due'[m] % Modulus /\ Window(due'[m])
    <3> TAKE m \in Active \ {n}
    <3>1. m \in Nodes /\ active[m] /\ m # n
      BY Zenon DEF Active
    <3>2. key[m] = due[m] % Modulus /\ Window(due[m])
      BY Zenon, <3>1, NearFacts
    <3> QED
      BY Zenon, <2>2, <3>1, <3>2
  <2>10. Sorted(queue', due')
    BY ZenonT(60), <1>b, <2>4, <2>5, <2>6, <2>7, <2>8, <2>9, InsertedSorted
  <2>11. Clock'
    BY Zenon, <1>0, <2>1 DEF Clock
  <2>12. CalledIsLater'
    BY Zenon, <1>0, <1>b, <2>1, <2>2 DEF CalledIsLater
  <2>13. Near(n)'
    BY Zenon, <2>1, <2>2, <2>4 DEF Near, Window
  <2>14. \A m \in Nodes : m # n /\ active'[m] => Near(m)'
    BY Zenon, <2>1, <2>2, StaysNear
  <2> QED
    BY ZenonT(60), <1>a, <2>10, <2>11, <2>12, <2>13, <2>14
<1>4. CASE ProcessStart
  <2>1. UNCHANGED <<life, now, nodeVars>> /\ pnow' = now /\ called' = {}
    BY Zenon, <1>4 DEF ProcessStart
  <2>2. Clock'
    BY <1>0, <1>b, <2>1, Constants DEF Clock
  <2>3. CalledIsLater'
    BY Zenon, <2>1 DEF CalledIsLater
  <2>4. \A m \in Nodes : active'[m] => Near(m)'
    BY Zenon, <2>1, StaysNear
  <2> QED
    BY ZenonT(60), <1>0, <1>a, <2>1, <2>2, <2>3, <2>4
<1>5. CASE FireOneShot
  <2> DEFINE n == Head(queue)
  <2>1. UNCHANGED <<life, now, key, interval, due, pnow>> /\ pc = "process" /\ queue # << >>
        /\ queue' = Tail(queue) /\ called' = called \cup {n}
    BY Zenon, <1>5 DEF FireOneShot
  <2>2. n \in Nodes /\ Sorted(queue', due')
    BY Zenon, <1>0, <2>1, TailKeeps
  <2>3. ~active'[n] /\ \A m \in Nodes : active'[m] => active[m]
    BY Zenon, <1>5, <1>b, <2>2 DEF FireOneShot
  <2>4. Clock'
    BY Zenon, <1>0, <2>1 DEF Clock
  <2>5. CalledIsLater'
    BY ZenonT(60), <1>0, <1>b, <2>1, <2>3 DEF CalledIsLater
  <2>6. \A m \in Nodes : active'[m] => Near(m)'
    BY ZenonT(60), <2>1, <2>3, StaysNear
  <2> QED
    BY ZenonT(60), <1>a, <2>2, <2>4, <2>5, <2>6
<1>6. CASE FirePeriodic
  <2>0. PICK n \in Nodes : n = Head(queue)
    BY ZenonT(60), <1>0, <1>6, TailKeeps DEF FirePeriodic
  <2> DEFINE next == Larger(due[n] + interval[n], pnow + 1)
  <2>1. UNCHANGED <<life, now, interval, active, pnow>> /\ pc = "process" /\ queue # << >>
        /\ called' = called \cup {n} /\ Expired(key[n]) /\ interval[n] > 0
    BY Zenon, <1>6, <2>0 DEF FirePeriodic
  <2>2. /\ n \in Active /\ n \in Nodes /\ Holds(Tail(queue), Active \ {n}) /\ Sorted(Tail(queue), due)
        /\ active[n]
    <3>1. /\ Head(queue) \in Active /\ Holds(Tail(queue), Active \ {Head(queue)})
          /\ Sorted(Tail(queue), due)
      BY Zenon, <1>0, <2>1, TailKeeps
    <3> QED
      BY Zenon, <2>0, <3>1 DEF Active
  <2>3. due[n] <= pnow
    BY Zenon, <2>1, <2>2, ExpiredIff
  <2>4. /\ NextKey(key[n], interval[n]) = next % Modulus
        /\ next \in Nat /\ Window(next) /\ life.start <= next /\ next > pnow
    BY Zenon, <2>1, <2>2, <2>3, NextKeyIsNextTime
  <2>5. /\ key'[n] = next % Modulus /\ due'[n] = next
        /\ \A m \in Nodes : m # n => key'[m] = key[m] /\ due'[m] = due[m]
    BY ZenonT(60), <1>6, <1>b, <2>0, <2>2, <2>4 DEF FirePeriodic
  <2>6. queue' \in Inserted(Tail(queue), n, due'[n] % Modulus)
    BY Zenon, <1>6, <2>0, <2>4, <2>5 DEF FirePeriodic
  <2> HIDE DEF next
  <2>7. Active \ {n} \subseteq Nodes /\ n \notin Active \ {n}
    BY Zenon DEF Active
  <2>8. Sorted(Tail(queue), due')
    <3>1. \A m \in Active \ {n} : due'[m] = due[m]
      BY Zenon, <2>5, <2>7
    <3> QED
      BY <2>2, <3>1, SortedElsewhere
  <2>9. \A m \in Active \ {n} : key[m] = due'[m] % Modulus /\ Window(due'[m])
    <3> TAKE m \in Active \ {n}
    <3>1. m \in Nodes /\ active[m] /\ m # n
      BY Zenon DEF Active
    <3>2. key[m] = due[m] % Modulus /\ Window(due[m])
      BY Zenon, <3>1, NearFacts
    <3> QED
      BY Zenon, <2>5, <3>1, <3>2
  <2>10. Sorted(queue', due')
    <3>1. Window(due'[n])
      BY Zenon, <2>4, <2>5
    <3> QED
      BY ZenonT(60), <1>b, <2>2, <2>6, <2>7, <2>8, <2>9, <3>1, InsertedSorted
  <2>11. Clock'
    BY Zenon, <1>0, <2>1 DEF Clock
  <2>12. CalledIsLater'
    BY ZenonT(60), <1>0, <1>b, <2>1, <2>4, <2>5 DEF CalledIsLater
  <2>13. Near(n)'
    <3>1. interval[n] \in life.intervals
      BY Zenon, <2>2, NearFacts
    <3> QED
      BY Zenon, <2>1, <2>4, <2>5, <3>1 DEF Near, Window
  <2>14. \A m \in Nodes : m # n /\ active'[m] => Near(m)'
    BY Zenon, <2>1, <2>5, StaysNear
  <2> QED
    BY ZenonT(60), <1>a, <2>10, <2>11, <2>12, <2>13, <2>14
<1>7. CASE CallbackReturn
  <2>1. UNCHANGED <<life, now, nodeVars, pnow, called>> /\ pc = "callback"
    BY Zenon, <1>7 DEF CallbackReturn
  <2>2. Clock' /\ CalledIsLater'
    BY Zenon, <1>0, <2>1 DEF Clock, CalledIsLater
  <2>3. \A m \in Nodes : active'[m] => Near(m)'
    BY Zenon, <2>1, StaysNear
  <2> QED
    BY ZenonT(60), <1>0, <1>a, <2>1, <2>2, <2>3
<1>8. CASE ProcessReturn
  <2>1. UNCHANGED <<life, now, nodeVars>> /\ pc' = "app"
    BY Zenon, <1>8 DEF ProcessReturn
  <2>2. Clock' /\ CalledIsLater'
    BY Zenon, <1>0, <2>1 DEF Clock, CalledIsLater
  <2>3. \A m \in Nodes : active'[m] => Near(m)'
    BY Zenon, <2>1, StaysNear
  <2> QED
    BY ZenonT(60), <1>0, <1>a, <2>1, <2>2, <2>3
<1>9. CASE Tick
  <2>1. UNCHANGED <<life, nodeVars, pc, pnow, called>> /\ now' = now + 1 /\ now < life.end
        /\ (pc # "app" => now < pnow + Lag)
    BY Zenon, <1>9 DEF Tick
  <2>2. Clock'
    <3>1. life.start \in Nat /\ life.end \in Nat /\ Lag \in Nat
      BY Zenon, <1>0, Constants, ComputedTypes
    <3>2. life.start <= now /\ (pc # "app" => life.start <= pnow /\ pnow <= now)
      BY Zenon, <1>0 DEF Clock
    <3>3. life.start <= now + 1 /\ now + 1 <= life.end
      BY SMTT(30), <1>b, <2>1, <3>1, <3>2
    <3>4. pc # "app" => life.start <= pnow /\ pnow <= now + 1 /\ now + 1 <= pnow + Lag
      BY SMTT(30), <1>b, <2>1, <3>1, <3>2
    <3> QED
      BY Zenon, <2>1, <3>3, <3>4 DEF Clock
  <2>3. CalledIsLater'
    BY Zenon, <1>0, <2>1 DEF CalledIsLater
  <2>4. ASSUME NEW m \in Nodes, active[m] PROVE Near(m)'
    <3>1. now < due[m] + Lag
      BY Zenon, <1>9, <2>4 DEF Tick
    <3>2. /\ key[m] = due[m] % Modulus /\ life.start <= due[m] /\ Window(due[m])
          /\ due[m] \in Nat /\ Lag \in Nat /\ Half \in Nat /\ interval[m] \in life.intervals
      BY Zenon, <2>4, NearFacts
    <3>3. now + 1 <= due[m] + Lag /\ due[m] + Lag < (now + 1) + Half
      BY <1>b, <3>1, <3>2 DEF Window
    <3> QED
      BY Zenon, <2>1, <3>2, <3>3 DEF Near
  <2> QED
    BY ZenonT(60), <1>0, <1>a, <2>1, <2>2, <2>3, <2>4
<1>10. CASE UNCHANGED vars
  <2>1. Clock' /\ CalledIsLater' /\ Sorted(queue', due')
    BY Zenon, <1>0, <1>10 DEF Clock, CalledIsLater
  <2>2. \A m \in Nodes : active'[m] => Near(m)'
    BY Zenon, <1>10, StaysNear
  <2> QED
    BY Zenon, <1>a, <2>1, <2>2
<1> QED
  BY ZenonT(60), <1>0, <1>1, <1>2, <1>3, <1>4, <1>5, <1>6, <1>7, <1>8, <1>9, <1>10 DEF Next

-----------------------------------------------------------------------------
(* Theorems                                                                *)

\* Every variable keeps its type: keys stay 32-bit numbers.
THEOREM TypeCorrect == Spec => []TypeOK
<1>1. QueueInv => TypeOK
  BY Zenon DEF QueueInv
<1> QED
  BY <1>1, QueueInvariant, PTL

\* Whatever the callbacks of fftimerqueue_process() add and remove, and whatever
\* the times are, the tree holds exactly the nodes with node->active set.
THEOREM TreeHoldsActive == Spec => []ActiveIsQueued
<1>1. QueueInv => ActiveIsQueued
  BY Zenon DEF QueueInv
<1> QED
  BY <1>1, QueueInvariant, PTL

\* At the head of a tree in order is the node that is due first.
LEMMA HeadIsFirst ==
  ASSUME TimeInv, queue # << >>
  PROVE  /\ Head(queue) \in Nodes /\ active[Head(queue)]
         /\ \A n \in Range(queue) : n \in Nodes /\ active[n] /\ due[Head(queue)] <= due[n]
<1>1. Holds(queue, Active) /\ queue \in Seq(Nodes) /\ Sorted(queue, due) /\ due \in [Nodes -> Nat]
  <2>1. QueueInv /\ TypeOK
    BY Zenon DEF TimeInv, QueueInv
  <2>2. queue \in Seq(Nodes) /\ due \in [Nodes -> Nat]
    BY Zenon, <2>1 DEF TypeOK
  <2> QED
    BY ZenonT(60), <2>1, <2>2, QueueInvIff, InOrderIff DEF TimeInv
<1>2. Head(queue) \in Active /\ Head(queue) = queue[1] /\ Len(queue) >= 1 /\ Len(queue) \in Nat
  BY Zenon, <1>1, TailKeeps, LenProperties
<1>3. ASSUME NEW n \in Range(queue)
      PROVE  n \in Nodes /\ active[n] /\ due[Head(queue)] <= due[n]
  <2>1. n \in Active
    BY Zenon, <1>1 DEF Holds
  <2>2. PICK i \in 1..Len(queue) : queue[i] = n
    BY Zenon, <1>1, <2>1, HoldsIff
  <2>3. n \in Nodes /\ active[n] /\ due[n] \in Nat
    BY Zenon, <1>1, <2>1 DEF Active
  <2>4. CASE i = 1
    BY <1>2, <2>2, <2>3, <2>4
  <2>5. CASE i # 1
    <3>1. 1 \in 1..Len(queue) /\ 1 < i
      BY <1>2, <2>5
    <3>2. due[queue[1]] <= due[queue[i]]
      BY Zenon, <1>1, <3>1 DEF Sorted
    <3> QED
      BY Zenon, <1>2, <2>2, <2>3, <3>2
  <2> QED
    BY Zenon, <2>4, <2>5
<1> QED
  BY Zenon, <1>2, <1>3 DEF Active

\* While no periodic timer is in use across the end of the 49 days, keys are times:
\* nodes are near, in order, and called ones are not due again.
THEOREM TimeInvariant == NoPeriodAcross => (Spec => []TimeInv)
<1> SUFFICES ASSUME NoPeriodAcross
             PROVE  Spec => []TimeInv
  BY Zenon
<1>1. Init => TimeInv
  <2> SUFFICES ASSUME Init PROVE TimeInv
    BY Zenon
  <2>1. QueueInv
    BY Zenon, QueueInit
  <2>2. Clock
    BY TimerQueueAssumption DEF Init, Clock
  <2>3. CalledIsLater /\ \A n \in Nodes : ~active[n]
    BY Zenon DEF Init, CalledIsLater
  <2>4. InOrder
    <3>1. queue = << >> /\ DOMAIN << >> = {}
      BY DEF Init
    <3> QED
      BY Zenon, <3>1 DEF InOrder
  <2> QED
    BY Zenon, <2>1, <2>2, <2>3, <2>4 DEF TimeInv
<1>2. TimeInv /\ [Next]_vars => TimeInv'
  BY Zenon, TimeStep
<1> QED
  BY <1>1, <1>2, PTL DEF Spec

\* The tree is ordered by real time although keys wrap around: the comparison of
\* _fftmrq_node_insert() is "accounting for 32-bit overflow each 49 days".
THEOREM OrderedByTime == NoPeriodAcross => (Spec => []InOrder)
<1>1. TimeInv => InOrder
  BY Zenon DEF TimeInv
<1> QED
  BY <1>1, TimeInvariant, PTL

\* Only the loop of fftimerqueue_process() calls functions: of the head, expired.
LEMMA OnlyExpiredCalled ==
  ASSUME [Next]_vars, pc = "process", pc' = "callback"
  PROVE  queue # << >> /\ Expired(key[Head(queue)])
<1>1. \A n \in Nodes : ~RemoveNode(n) /\ ~AddNode(n) /\ \A i : ~Add(n, i)
  BY Zenon DEF RemoveNode, AddNode, Add, InApp
<1>2. ~ProcessStart /\ ~CallbackReturn /\ ~ProcessReturn /\ ~Tick /\ ~UNCHANGED vars
  BY Zenon DEF ProcessStart, CallbackReturn, ProcessReturn, Tick, vars
<1>3. FireOneShot \/ FirePeriodic
  BY Zenon, <1>1, <1>2 DEF Next
<1> QED
  BY Zenon, <1>3 DEF FireOneShot, FirePeriodic

\* fftimerqueue_process() calls a function only when "the time of this event is
\* in the past", for every Half, Lag and every set of intervals below it.
THEOREM NotEarly == NoPeriodAcross => (Spec => NeverEarly)
<1> SUFFICES ASSUME NoPeriodAcross
             PROVE  Spec => NeverEarly
  BY Zenon
<1>1. ASSUME TimeInv, [Next]_vars, pc = "process", pc' = "callback"
      PROVE  due[Head(queue)] <= pnow
  <2>1. queue # << >> /\ Expired(key[Head(queue)])
    BY Zenon, <1>1, OnlyExpiredCalled
  <2>2. Head(queue) \in Nodes /\ active[Head(queue)]
    BY Zenon, <1>1, <2>1, HeadIsFirst
  <2> QED
    BY Zenon, <1>1, <2>1, <2>2, ExpiredIff
<1>2. TimeInv /\ [Next]_vars => [pc = "process" /\ pc' = "callback" => due[Head(queue)] <= pnow]_vars
  BY Zenon, <1>1
<1> QED
  BY <1>2, TimeInvariant, PTL DEF Spec, NeverEarly

\* When fftimerqueue_process() returns, no function in the queue is due at the
\* time it was called with: stopping at the first that is not due loses none.
THEOREM NothingLeft == NoPeriodAcross => (Spec => NoneLeft)
<1> SUFFICES ASSUME NoPeriodAcross
             PROVE  Spec => NoneLeft
  BY Zenon
<1>1. ASSUME TimeInv, [Next]_vars, pc = "process", pc' = "app", NEW n \in Range(queue)
      PROVE  due[n] > pnow
  <2>1. \A m \in Nodes : ~RemoveNode(m) /\ ~AddNode(m) /\ \A i : ~Add(m, i)
    BY Zenon, <1>1 DEF RemoveNode, AddNode, Add, InApp
  <2>2. ~ProcessStart /\ ~CallbackReturn /\ ~FireOneShot /\ ~FirePeriodic /\ ~Tick /\ ~UNCHANGED vars
    BY Zenon, <1>1 DEF ProcessStart, CallbackReturn, FireOneShot, FirePeriodic, Tick, vars
  <2>3. ProcessReturn
    BY Zenon, <1>1, <2>1, <2>2 DEF Next
  <2>4. queue \in Seq(Nodes) /\ queue # << >>
    <3>1. queue \in Seq(Nodes)
      BY Zenon, <1>1 DEF TimeInv, QueueInv, TypeOK
    <3>2. PICK i \in DOMAIN queue : TRUE
      BY Zenon, <1>1 DEF Range
    <3> QED
      BY <3>1, <3>2
  <2>5. /\ Head(queue) \in Nodes /\ active[Head(queue)]
        /\ n \in Nodes /\ active[n] /\ due[Head(queue)] <= due[n]
    BY Zenon, <1>1, <2>4, HeadIsFirst
  <2>6. ~(due[Head(queue)] <= pnow)
    BY ZenonT(60), <1>1, <2>3, <2>4, <2>5, ExpiredIff DEF ProcessReturn
  <2>7. due[Head(queue)] \in Nat /\ due[n] \in Nat /\ pnow \in Nat
    BY Zenon, <1>1, <2>5, NearFacts
  <2> QED
    BY SMTT(30), <2>5, <2>6, <2>7
<1>2. TimeInv /\ [Next]_vars =>
        [pc = "process" /\ pc' = "app" => \A n \in Range(queue) : due[n] > pnow]_vars
  BY Zenon, <1>1
<1> QED
  BY <1>2, TimeInvariant, PTL DEF Spec, NoneLeft

\* One fftimerqueue_process() calls a function once, however many periods it is
\* behind, unless a callback adds its node anew: ffmax with now_msec + 1 puts the
\* next time behind the time it was called with.
THEOREM OneCall == NoPeriodAcross => (Spec => OncePerProcess)
<1> SUFFICES ASSUME NoPeriodAcross
             PROVE  Spec => OncePerProcess
  BY Zenon
<1>1. ASSUME TimeInv, [Next]_vars, pc = "process", pc' = "callback"
      PROVE  Head(queue) \notin called
  <2>1. queue # << >> /\ Expired(key[Head(queue)])
    BY Zenon, <1>1, OnlyExpiredCalled
  <2>2. Head(queue) \in Nodes /\ active[Head(queue)]
    BY Zenon, <1>1, <2>1, HeadIsFirst
  <2>3. due[Head(queue)] <= pnow /\ due[Head(queue)] \in Nat /\ pnow \in Nat
    BY ZenonT(60), <1>1, <2>1, <2>2, ExpiredIff, NearFacts
  <2>4. CalledIsLater
    BY Zenon, <1>1 DEF TimeInv
  <2> QED
    BY SMTT(30), <1>1, <2>2, <2>3, <2>4 DEF CalledIsLater
<1>2. TimeInv /\ [Next]_vars => [pc = "process" /\ pc' = "callback" => Head(queue) \notin called]_vars
  BY Zenon, <1>1
<1> QED
  BY <1>2, TimeInvariant, PTL DEF Spec, OncePerProcess

=============================================================================
