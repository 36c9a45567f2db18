----------------------------- MODULE TimerQueue -----------------------------
(***************************************************************************)
(* The timer queue (FFOS/timerqueue.h): nodes in a red-black tree, ordered *)
(* by the millisecond at which they expire, a 32-bit number that wraps     *)
(* around every 49 days.  The application adds and removes nodes and calls *)
(* fftimerqueue_process(), whose callbacks may add and remove nodes too.   *)
(*                                                                         *)
(* The tree is modelled by its nodes in order: removing a node and         *)
(* rebalancing (ffbase's rbtree, external) keep the order, the minimum is  *)
(* the first.  A node is inserted where the descent of                     *)
(* _fftmrq_node_insert() ends: behind a node it does not precede and before *)
(* one that it does, both of which the descent compared it with.           *)
(*                                                                         *)
(* `now` and `due` are the time that does not wrap.  The code never sees   *)
(* them: it works with `key` and with now % Modulus.                       *)
(***************************************************************************)
EXTENDS Integers, SequencesExt

CONSTANTS
  Nodes,      \* fftimerqueue_node objects
  Half,       \* 2^31: differences are signed
  Lag,        \* how late the application may be in processing, and process itself
  Lives       \* lives of the application: the milliseconds at which it starts and
              \* ends (a bound), and the interval_msec it uses: > 0 periodic,
              \* otherwise one-shot

Modulus == 2 * Half

Abs(i) == IF i < 0 THEN -i ELSE i

\* Intervals and delays are small against half of the period: the condition
\* that the comment in fftimerqueue_process() names.
ASSUME TimerQueueAssumption ==
  /\ Half \in Nat \ {0}
  /\ Lag \in Nat
  /\ \A l \in Lives :
       /\ l.start \in Nat /\ l.end \in Nat /\ l.start <= l.end /\ l.intervals \subseteq Int
       /\ \A i \in l.intervals : Abs(i) + Lag < Half

VARIABLES
  life,      \* the life that is led
  now,       \* the clock
  queue,     \* nodes of the tree in order
  key,       \* node->rbtnode.key
  interval,  \* node->interval_msec
  active,    \* node->active
  due,       \* when the node expires
  pc,        \* app, process (its loop), callback
  pnow,      \* when fftimerqueue_process() was called
  called     \* nodes it has called, and nobody re-added since

nodeVars == <<queue, key, interval, active, due>>
vars     == <<life, now, nodeVars, pc, pnow, called>>

\* An unsigned difference seen as a signed number.
Signed(d) == LET u == d % Modulus IN IF u < Half THEN u ELSE u - Modulus

Larger(a, b) == IF a > b THEN a ELSE b

Init ==
  /\ life \in Lives
  /\ now      = life.start
  /\ queue    = << >>
  /\ key      = [n \in Nodes |-> 0]
  /\ interval = [n \in Nodes |-> 0]
  /\ active   = [n \in Nodes |-> FALSE]
  /\ due      = [n \in Nodes |-> 0]
  /\ pc       = "app"
  /\ pnow     = 0
  /\ called   = {}


-----------------------------------------------------------------------------
(* Faulty variants of definitions below, one plausible mistake each.  No   *)
(* specification uses them; put in a definition's place, each must break   *)
(* the property that the definition is there for.                          *)

\* Keys compared as plain unsigned numbers.
PrecedesUnsigned(a, b) == a < b

\* `node->active = 0` is missing.
RemoveKeepsActive(n) ==
  /\ pc \in {"app", "callback"}
  /\ active[n]
  /\ queue' \in {RemoveAt(queue, i) : i \in {j \in 1..Len(queue) : queue[j] = n}}
  /\ UNCHANGED <<life, now, key, interval, active, due, pc, pnow, called>>

\* The node's key does not wrap: a wider integer.
KeyUnwrapped(i) == now + Abs(i)

\* The key compared with now_msec as an unsigned number.
ExpiredUnsigned(k) == k <= pnow % Modulus

\* A millisecond late.
ExpiredStrict(k) == Signed(k - (pnow % Modulus)) < 0

\* ffmax(key + interval, now_msec)
NextKeyNow(k, i) == Larger((k + i) % Modulus, pnow % Modulus)

-----------------------------------------------------------------------------
(* Keys                                                                    *)

\* The order of the tree: (int)(node->key - parent->key) < 0.
Precedes(a, b) == Signed(a - b) < 0

\* fftimerqueue_add(): now_msec + ffint_abs(interval_msec)
KeyOf(i) == (now + Abs(i)) % Modulus

\* fftimerqueue_process(): (int)(key - now_msec) > 0 ends the loop.
Expired(k) == Signed(k - (pnow % Modulus)) <= 0

\* ffmax(key + node->interval_msec, now_msec + 1), in unsigned arithmetic.
NextKey(k, i) == Larger((k + i) % Modulus, (pnow + 1) % Modulus)

-----------------------------------------------------------------------------
\* The tree without a node.
Removed(q, n) == {RemoveAt(q, i) : i \in {j \in 1..Len(q) : q[j] = n}}

\* _fftmrq_node_insert(): the trees that a node with key k may be inserted into q.
Inserted(q, n, k) ==
  {InsertAt(q, i, n) : i \in {j \in 1..(Len(q) + 1) :
      /\ j > 1 => ~Precedes(k, key[q[j - 1]])
      /\ j <= Len(q) => Precedes(k, key[q[j]])}}

InApp == pc \in {"app", "callback"}

\* fftimerqueue_remove(); 0 is returned and nothing done for a node not active.
RemoveNode(n) ==
  /\ InApp
  /\ active[n]
  /\ queue' \in Removed(queue, n)
  /\ active' = [active EXCEPT ![n] = FALSE]
  /\ UNCHANGED <<life, now, key, interval, due, pc, pnow, called>>

\* fftimerqueue_add() with the current time.
Add(n, i) ==
  LET k == KeyOf(i) IN
  /\ InApp
  /\ interval' = [interval EXCEPT ![n] = i]
  /\ key' = [key EXCEPT ![n] = k]
  /\ due' = [due EXCEPT ![n] = now + Abs(i)]
  /\ \E q \in IF active[n] THEN Removed(queue, n) ELSE {queue} : queue' \in Inserted(q, n, k)
  /\ active' = [active EXCEPT ![n] = TRUE]
  /\ called' = called \ {n}
  /\ UNCHANGED <<life, now, pc, pnow>>

\* fftimerqueue_addnode() of a node that is in the queue: it is inserted anew.
AddNode(n) ==
  /\ InApp
  /\ active[n]
  /\ \E q \in Removed(queue, n) : queue' \in Inserted(q, n, key[n])
  /\ called' = called \ {n}
  /\ UNCHANGED <<life, now, key, interval, active, due, pc, pnow>>

-----------------------------------------------------------------------------
(* fftimerqueue_process()                                                  *)

ProcessStart ==
  /\ pc = "app"
  /\ pc' = "process"
  /\ pnow' = now
  /\ called' = {}
  /\ UNCHANGED <<life, now, nodeVars>>

\* A one-shot node leaves the queue and its function is called.
FireOneShot ==
  /\ pc = "process"
  /\ queue # << >>
  /\ LET n == Head(queue) IN
       /\ Expired(key[n])
       /\ interval[n] <= 0
       /\ active' = [active EXCEPT ![n] = FALSE]
       /\ called' = called \cup {n}
  /\ queue' = Tail(queue)
  /\ pc' = "callback"
  /\ UNCHANGED <<life, now, key, interval, due, pnow>>

\* A periodic node is inserted with its next time before its function is called.
FirePeriodic ==
  /\ pc = "process"
  /\ queue # << >>
  /\ LET n == Head(queue)
         k == NextKey(key[n], interval[n]) IN
       /\ Expired(key[n])
       /\ interval[n] > 0
       /\ key' = [key EXCEPT ![n] = k]
       /\ due' = [due EXCEPT ![n] = Larger(@ + interval[n], pnow + 1)]
       /\ queue' \in Inserted(Tail(queue), n, k)
       /\ called' = called \cup {n}
  /\ pc' = "callback"
  /\ UNCHANGED <<life, now, interval, active, pnow>>

CallbackReturn ==
  /\ pc = "callback"
  /\ pc' = "process"
  /\ UNCHANGED <<life, now, nodeVars, pnow, called>>

ProcessReturn ==
  /\ pc = "process"
  /\ queue # << >> => ~Expired(key[Head(queue)])
  /\ pc' = "app"
  /\ pnow' = 0
  /\ called' = {}
  /\ UNCHANGED <<life, now, nodeVars>>

\* Time passes, in a callback too.  The application processes the queue before a
\* node is overdue by more than Lag, and its callbacks take no longer than that.
Tick ==
  /\ now < life.end
  /\ \A n \in Nodes : active[n] => now < due[n] + Lag
  /\ pc # "app" => now < pnow + Lag
  /\ now' = now + 1
  /\ UNCHANGED <<life, nodeVars, pc, pnow, called>>

Next ==
  \/ \E n \in Nodes : RemoveNode(n) \/ AddNode(n) \/ \E i \in life.intervals : Add(n, i)
  \/ ProcessStart \/ FireOneShot \/ FirePeriodic \/ CallbackReturn \/ ProcessReturn
  \/ Tick

Spec == Init /\ [][Next]_vars

-----------------------------------------------------------------------------
(* Properties                                                              *)

\* Every variable has its type.
TypeOK ==
  /\ life \in Lives /\ now \in Nat /\ pnow \in Nat
  /\ queue \in Seq(Nodes)
  /\ key \in [Nodes -> 0..(Modulus - 1)]
  /\ interval \in [Nodes -> life.intervals \cup {0}]
  /\ active \in [Nodes -> BOOLEAN]
  /\ due \in [Nodes -> Nat]
  /\ pc \in {"app", "process", "callback"}
  /\ called \subseteq Nodes

\* A node is in the tree, once, exactly when node->active is set, whatever the
\* callbacks add and remove: otherwise fftimerqueue_remove() would unlink a node
\* that is not in the tree, or fftimerqueue_addnode() link one twice.
ActiveIsQueued ==
  /\ IsInjective(queue)
  /\ Range(queue) = {n \in Nodes : active[n]}

\* The tree is ordered by real time although keys wrap around: the comparison of
\* _fftmrq_node_insert() is "accounting for 32-bit overflow each 49 days".
InOrder ==
  \A i, j \in DOMAIN queue : i < j => due[queue[i]] <= due[queue[j]]

\* fftimerqueue_process() calls a function only when "the time of this event is
\* in the past", wrap-around or not.
NeverEarly ==
  [][pc = "process" /\ pc' = "callback" => due[Head(queue)] <= pnow]_vars

\* When fftimerqueue_process() returns it has called every function that was due,
\* including those that its callbacks added: stopping at the first node that is
\* not due loses none.
NoneLeft ==
  [][pc = "process" /\ pc' = "app" => \A n \in Range(queue) : due[n] > pnow]_vars

\* One call of fftimerqueue_process() calls a periodic function once, however
\* many periods it is behind (ffmax with now_msec + 1), unless it is added anew.
OncePerProcess ==
  [][pc = "process" /\ pc' = "callback" => Head(queue) \notin called]_vars

=============================================================================
